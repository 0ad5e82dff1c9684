----------------------------- MODULE HpmUpload -----------------------------
(***************************************************************************)
(* The upload of the components of a firmware image by HPM.1,              *)
(* src/lib/ipmi_hpmfwupg.c, over a network interface: which bytes are      *)
(* sent, in blocks of which length, and what the controller makes of them. *)
(* HpmCommands models the other steps of an upgrade.                       *)
(*                                                                         *)
(* A sendrecv() is one step; the request may not arrive, and its answer    *)
(* may not come back. The IPM controller is external: it takes a block     *)
(* with the number of the one before for a retransmission, may ask for     *)
(* another section of the image in its answer, and takes the end of the    *)
(* upload when it has received as many bytes as were sent. While it is     *)
(* busy it answers every request with 0xc0, and the request is sent again: *)
(* HpmfwupgSendCmd() has a limit on this, and never comes nearer to it.    *)
(***************************************************************************)
EXTENDS Integers, Sequences

CONSTANTS
    Length,       \* bytes of the image of each component
    MaxData,      \* bytes of image the largest request can carry
    BlockSize,    \* bytes by which a long block is shortened: 8
    ResizeLimit,  \* HPM_LAN_PACKET_RESIZE_LIMIT
    RetryMax,     \* RETRY_COUNT_MAX
    BlockMod,     \* blockNumber is a byte: 256
    Components,   \* number of components
    Patience,     \* bound: tries until inaccessTimeout is over
    Sections,     \* <<imageOffset, blockLength>> the controller may answer
    MaxSections   \* bound: answers of this kind in one upload

ASSUME HpmUploadAssumption ==
    /\ Length \in Nat \ {0} /\ MaxData \in Nat \ {0} /\ BlockSize \in Nat \ {0}
    /\ BlockMod \in Nat \ {0, 1} /\ Components \in Nat \ {0}
    /\ {ResizeLimit, RetryMax, Patience, MaxSections} \subseteq Nat
    /\ Sections \subseteq Nat \X Nat

VARIABLES
    upload,  \* the upload, as HpmFwupgActionUploadFirmware() keeps it
    sizes,   \* static variables: isValidSize, errorCount of HpmfwupgSendCmd() and,
             \* as retries, the errorCount of the file
    ipmc,    \* the controller
    busy     \* the controller answers that it is busy

vars == <<upload, sizes, ipmc, busy>>

NoBlock == -1

Bytes(from, count) == [i \in 1..count |-> from + i - 1]

TypeOK ==
    /\ upload \in [pc : {"initiate", "block", "finish", "done", "failed"},
                   component : 1..Components, pData : 0..Length, end : 0..Length,
                   bufLength : 0..MaxData,
                   bufLengthIsSet : BOOLEAN, blockNumber : 0..BlockMod - 1,
                   totalSent : Nat, waited : 0..Patience]
    /\ sizes \in [isValidSize : BOOLEAN, errorCount : 0..ResizeLimit, retries : 0..RetryMax + 1]
    /\ ipmc \in [fits : 0..MaxData, drops : BOOLEAN, number : {NoBlock} \cup 0..BlockMod - 1,
                 image : Seq(0..Length - 1), wanted : Seq(Nat),
                 section : Nat \X Nat, sections : 0..MaxSections, finished : BOOLEAN]
    /\ busy \in BOOLEAN

-----------------------------------------------------------------------------
NewUpload(component) ==
    [pc |-> "initiate", component |-> component, pData |-> 0, end |-> Length,
     bufLength |-> MaxData, bufLengthIsSet |-> FALSE, blockNumber |-> 0, totalSent |-> 0,
     waited |-> 0]

(* The controller takes blocks of up to fits bytes, and drops longer ones  *)
(* or refuses them.                                                        *)
Init ==
    /\ upload = NewUpload(1)
    /\ sizes = [isValidSize |-> FALSE, errorCount |-> 0, retries |-> 0]
    /\ ipmc \in [fits : 0..MaxData, drops : BOOLEAN, number : {NoBlock}, image : {<<>>},
                 wanted : {<<>>}, section : {<<0, 0>>}, sections : {0}, finished : {FALSE}]
    /\ busy = FALSE

Fail == upload' = [upload EXCEPT !.pc = "failed"]

(* Slip: the counter wraps round before it reaches the limit. *)
SendAgainWraps ==
    upload' = [upload EXCEPT !.waited = (@ + 1) % (Patience + 1)]

(* Without an answer a request is sent again until inaccessTimeout is      *)
(* over.                                                                   *)
SendAgain ==
    IF upload.waited < Patience
    THEN upload' = [upload EXCEPT !.waited = @ + 1]
    ELSE Fail

-----------------------------------------------------------------------------
Started ==
    [ipmc EXCEPT !.number = NoBlock, !.image = <<>>, !.wanted = Bytes(0, Length),
                 !.section = <<0, 0>>, !.sections = 0, !.finished = FALSE]

HpmfwupgInitiateUpgradeAction ==
    /\ upload.pc = "initiate"
    /\ \/ /\ ipmc' = Started
          /\ upload' = [upload EXCEPT !.pc = "block", !.waited = 0]
          /\ sizes' = [sizes EXCEPT !.retries = 0]
       \/ Fail /\ UNCHANGED <<sizes, ipmc>>
       \/ SendAgain /\ ipmc' \in {ipmc, Started} /\ UNCHANGED sizes

-----------------------------------------------------------------------------
(* The loop of HpmFwupgActionUploadFirmware(). *)

Count == IF upload.pData + upload.bufLength <= upload.end
         THEN upload.bufLength
         ELSE upload.end - upload.pData

(* Slip: short blocks are shortened as much as long ones. *)
ShorterUnchecked(bufLength) == bufLength - BlockSize

(* HPMFWUPG_UPLOAD_BLOCK_LENGTH: a shorter block is tried, with the same   *)
(* number, unless one has been accepted.                                   *)
Shorter(bufLength) == IF bufLength > BlockSize THEN bufLength - BlockSize ELSE bufLength - 1

BlockLength ==
    IF upload.bufLengthIsSet \/ upload.bufLength = 0
    THEN Fail
    ELSE upload' = [upload EXCEPT !.bufLength = Shorter(@), !.waited = 0]

(* A block without an answer may have been too long: HpmfwupgSendCmd()     *)
(* makes up an answer that says so, which also makes the length valid.     *)
NoAnswer ==
    IF ~sizes.isValidSize /\ sizes.errorCount < ResizeLimit
    THEN /\ sizes' = [sizes EXCEPT !.isValidSize = TRUE, !.errorCount = @ + 1]
         /\ BlockLength
    ELSE SendAgain /\ UNCHANGED sizes

(* Slip: the end of the section is taken over and its beginning is not. *)
PositionKept(offset, length, count) ==
    [pData |-> upload.pData + count,
     end |-> IF offset # 0 THEN offset + length ELSE upload.end]

(* Where the upload goes on after a block, and where it ends: behind the   *)
(* block, or at the section the controller asks for.                       *)
Position(offset, length, count) ==
    IF offset # 0
    THEN [pData |-> offset, end |-> offset + length]
    ELSE [pData |-> upload.pData + count, end |-> upload.end]

BlockSent(offset, length) ==
    LET next == Position(offset, length, Count)
    IN  IF offset + length > Length
        THEN Fail
        ELSE upload' = [upload EXCEPT !.bufLengthIsSet = TRUE, !.totalSent = @ + Count,
                                      !.pData = next.pData, !.end = next.end, !.waited = 0,
                                      !.blockNumber = (@ + 1) % BlockMod]

(* The controller after a block: a retransmission changes nothing and is   *)
(* answered like the block was.                                            *)
Stored(section) ==
    LET image == ipmc.image \o Bytes(upload.pData, Count)
    IN  [ipmc EXCEPT !.number = upload.blockNumber, !.image = image, !.section = section,
                     !.wanted = IF section[1] # 0
                                THEN image \o Bytes(section[1], section[2])
                                ELSE @,
                     !.sections = IF section[1] # 0 THEN @ + 1 ELSE @]

Received ==
    IF ipmc.number = upload.blockNumber
    THEN {ipmc}
    ELSE {Stored(<<0, 0>>)} \cup
         {Stored(s) : s \in {t \in Sections : ipmc.sections < MaxSections}}

Fits == Count \in 1..ipmc.fits

BlockUnderWay == upload.pc = "block" /\ upload.pData < upload.end

(* HpmfwupgUploadFirmwareBlock(), by what becomes of the block. *)
BlockAccepted ==
    /\ BlockUnderWay /\ Fits
    /\ ipmc' \in Received
    /\ BlockSent(ipmc'.section[1], ipmc'.section[2])
    /\ sizes' = [sizes EXCEPT !.isValidSize = TRUE, !.retries = 0]

BlockTooLong ==
    /\ BlockUnderWay /\ ~Fits /\ ~ipmc.drops
    /\ BlockLength
    /\ sizes' = [sizes EXCEPT !.isValidSize = TRUE]
    /\ UNCHANGED ipmc

BlockRefused ==
    /\ BlockUnderWay /\ Fail
    /\ sizes' = [sizes EXCEPT !.isValidSize = TRUE]
    /\ UNCHANGED ipmc

(* HPMFWUPG_IS_RETRYABLE() with errorCount at count: the same block is     *)
(* sent again, and this counted, or the upload has failed.                 *)
Retry(count) ==
    /\ sizes' = [sizes EXCEPT !.isValidSize = TRUE, !.retries = count + 1]
    /\ IF count < RetryMax
       THEN upload' = [upload EXCEPT !.waited = 0]
       ELSE Fail

(* A completion code of the bus rather than of the controller. *)
BlockRetried ==
    /\ BlockUnderWay
    /\ ipmc' \in {ipmc} \cup (IF Fits THEN Received ELSE {})
    /\ Retry(sizes.retries)

(* The block was accepted, in an answer of a size no answer has. It counts *)
(* as a checksum error, but HpmfwupgSendCmd() saw the completion code OK   *)
(* and has set errorCount to zero: the block is sent again without limit.  *)
BlockAnswerWrongSize ==
    /\ BlockUnderWay /\ Fits
    /\ ipmc' \in Received
    /\ Retry(0)

(* The controller is inaccessible, by its answer: the block is sent again   *)
(* as it is.                                                                *)
BlockInaccessible ==
    /\ BlockUnderWay /\ SendAgain
    /\ ipmc' \in {ipmc} \cup (IF Fits THEN Received ELSE {})
    /\ UNCHANGED sizes

BlockLost == BlockUnderWay /\ NoAnswer /\ UNCHANGED ipmc

AnswerLost ==
    /\ BlockUnderWay /\ Fits
    /\ ipmc' \in Received
    /\ NoAnswer

BlocksDone ==
    /\ upload.pc = "block" /\ upload.pData >= upload.end
    /\ upload' = [upload EXCEPT !.pc = "finish"]
    /\ UNCHANGED <<sizes, ipmc>>

-----------------------------------------------------------------------------
(* The length the end of the upload is sent with: what was sent, "not the  *)
(* complete firmware image length".                                        *)
ImageLength == upload.totalSent

Complete == Len(ipmc.image) = ImageLength

HpmfwupgFinishFirmwareUpload ==
    /\ upload.pc = "finish"
    /\ \/ /\ Complete
          /\ ipmc' = [ipmc EXCEPT !.finished = TRUE]
          /\ upload' = [upload EXCEPT !.pc = "done"]
          /\ sizes' = [sizes EXCEPT !.retries = 0]
       \/ Fail /\ UNCHANGED <<sizes, ipmc>>
       \/ SendAgain /\ UNCHANGED <<sizes, ipmc>>
       \/ /\ Complete /\ SendAgain
          /\ ipmc' = [ipmc EXCEPT !.finished = TRUE]
          /\ UNCHANGED sizes

(* HpmfwupgUpgradeStage() goes on with the next component. *)
HpmfwupgUpgradeStage ==
    /\ upload.pc = "done" /\ upload.component < Components
    /\ upload' = NewUpload(upload.component + 1)
    /\ UNCHANGED <<sizes, ipmc>>

(* The program, when its request finds the controller not busy. *)
Step ==
    /\ ~busy /\ UNCHANGED busy
    /\ \/ HpmfwupgInitiateUpgradeAction
       \/ BlockAccepted \/ BlockTooLong \/ BlockRefused \/ BlockRetried
       \/ BlockAnswerWrongSize \/ BlockInaccessible \/ BlockLost \/ AnswerLost
       \/ BlocksDone
       \/ HpmfwupgFinishFirmwareUpload \/ HpmfwupgUpgradeStage

(* The controller becomes busy, or is busy no longer. *)
Busy == busy' = ~busy /\ UNCHANGED <<upload, sizes, ipmc>>

Next == Step \/ Busy

Spec == Init /\ [][Next]_vars

(* The program runs, and sendrecv() returns. Nothing says that a busy      *)
(* controller ever is less so.                                             *)
FairSpec == Spec /\ WF_vars(Step)

-----------------------------------------------------------------------------
(* Properties. *)

(* What the controller takes for a complete upload is the image it asked   *)
(* for, byte by byte, whatever blocks and answers were lost, and although  *)
(* the first block may have been shortened after it was stored.            *)
ImageWhole == ipmc.finished => ipmc.image = ipmc.wanted

(* The upload of every component ends, done or failed: blocks are          *)
(* shortened and sent again, and sections asked for, only so often. Two    *)
(* things can keep it going for ever, one that accepts blocks and answers  *)
(* in the wrong size again and again, and one that is busy again and       *)
(* again: both limits are there in the code, and neither counts.           *)
UploadEnds ==
    \/ []<><<BlockAnswerWrongSize>>_vars
    \/ []<>busy
    \/ <>[](upload.pc = "failed" \/ (upload.pc = "done" /\ upload.component = Components))

=============================================================================
