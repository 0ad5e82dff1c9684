-------------------------- MODULE HpmUploadProofs --------------------------
(***************************************************************************)
(* Proofs about HpmUpload, for every value of its constants: images,       *)
(* blocks and sections of any length, any number of components, tries and  *)
(* block numbers.                                                          *)
(***************************************************************************)
EXTENDS HpmUpload, TLAPS, SequenceTheorems

-----------------------------------------------------------------------------
(* The inductive invariant. *)

Uploads == [pc : {"initiate", "block", "finish", "done", "failed"},
            component : 1..Components, pData : 0..Length, end : 0..Length,
            bufLength : 0..MaxData, bufLengthIsSet : BOOLEAN, blockNumber : 0..BlockMod - 1,
            totalSent : Nat, waited : 0..Patience]

Sizes == [isValidSize : BOOLEAN, errorCount : 0..ResizeLimit, retries : 0..RetryMax + 1]

Controllers == [fits : 0..MaxData, drops : BOOLEAN, number : {NoBlock} \cup 0..BlockMod - 1,
                image : Seq(0..Length - 1), wanted : Seq(Nat),
                section : Nat \X Nat, sections : 0..MaxSections, finished : BOOLEAN]

Types == upload \in Uploads /\ sizes \in Sizes /\ ipmc \in Controllers

(* Only a failed upload has used up the retries. *)
RetriesLeft == upload.pc # "failed" => sizes.retries <= RetryMax

InOrder == upload.pData <= upload.end

(* An upload that has yet to be initiated is as new. *)
AsNew ==
    upload.pc = "initiate" =>
        /\ upload.pData = 0 /\ upload.end = Length
        /\ upload.totalSent = 0 /\ upload.blockNumber = 0

(* The controller has stored the block under way, and the program does not *)
(* know yet: the answer was lost.                                          *)
Pending == ipmc.number = upload.blockNumber

(* What the program has yet to send is what the controller still wants,    *)
(* where the block under way was not stored and where it was.              *)
SentRight == ipmc.wanted = ipmc.image \o Bytes(upload.pData, upload.end - upload.pData)

StoredRight(c) ==
    c.wanted = c.image \o
        IF c.section[1] # 0
        THEN Bytes(c.section[1], c.section[2])
        ELSE Bytes(upload.pData + Count, upload.end - (upload.pData + Count))

(* The controller has at least as many bytes as the program has counted,   *)
(* and the right ones if it has as many.  It has more if a block was       *)
(* shortened after it was stored.                                          *)
NothingMissing ==
    upload.pc \in {"block", "finish"} =>
        IF Pending
        THEN /\ upload.pc = "block" /\ upload.pData < upload.end
             /\ Len(ipmc.image) >= upload.totalSent + Count
             /\ Len(ipmc.image) = upload.totalSent + Count => StoredRight(ipmc)
        ELSE /\ Len(ipmc.image) >= upload.totalSent
             /\ Len(ipmc.image) = upload.totalSent => SentRight

SentAll == upload.pc = "finish" => upload.pData = upload.end

NotFinished == upload.pc = "block" => ~ipmc.finished

TypeInv == Types /\ RetriesLeft /\ InOrder

Order == AsNew /\ NothingMissing /\ SentAll /\ NotFinished /\ ImageWhole

UploadInv == TypeInv /\ Order

-----------------------------------------------------------------------------
(* Lemmas about runs of bytes. *)

LEMMA BytesType ==
    ASSUME NEW from \in Nat, NEW count \in Nat
    PROVE  /\ Bytes(from, count) \in Seq(from .. from + count - 1)
           /\ Bytes(from, count) \in Seq(Nat)
           /\ Len(Bytes(from, count)) = count
           /\ \A i \in 1 .. count : Bytes(from, count)[i] = from + i - 1
<1>1. \A i \in 1 .. count : from + i - 1 \in from .. from + count - 1 /\ from + i - 1 \in Nat
  OBVIOUS
<1>2. Bytes(from, count) \in Seq(from .. from + count - 1)
  BY <1>1 DEF Bytes
<1>3. Bytes(from, count) \in Seq(Nat)
  BY <1>1 DEF Bytes
<1>4. Len(Bytes(from, count)) = count
  BY DEF Bytes
<1>5. \A i \in 1 .. count : Bytes(from, count)[i] = from + i - 1
  BY DEF Bytes
<1> QED
  BY <1>2, <1>3, <1>4, <1>5

LEMMA Concats ==
    ASSUME NEW a \in Seq(Nat), NEW b \in Seq(Nat), NEW c \in Seq(Nat)
    PROVE  (a \o b) \o c = a \o (b \o c)
BY ConcatAssociative

LEMMA NoBytes ==
    ASSUME NEW from \in Nat
    PROVE  Bytes(from, 0) = <<>>
<1>1. Bytes(from, 0) \in Seq(Nat) /\ Len(Bytes(from, 0)) = 0
  BY BytesType
<1> QED
  BY <1>1, EmptySeq

(* A run of bytes may be cut anywhere. *)
LEMMA BytesCut ==
    ASSUME NEW from \in Nat, NEW first \in Nat, NEW rest \in Nat
    PROVE  Bytes(from, first) \o Bytes(from + first, rest) = Bytes(from, first + rest)
<1> DEFINE a == Bytes(from, first)
           b == Bytes(from + first, rest)
           c == Bytes(from, first + rest)
<1>1. /\ a \in Seq(Nat) /\ Len(a) = first
      /\ \A i \in 1 .. first : a[i] = from + i - 1
  BY BytesType
<1>2. /\ b \in Seq(Nat) /\ Len(b) = rest
      /\ \A i \in 1 .. rest : b[i] = from + first + i - 1
  <2>1. from + first \in Nat
    OBVIOUS
  <2> QED
    BY <2>1, BytesType, Zenon
<1>3. /\ c \in Seq(Nat) /\ Len(c) = first + rest
      /\ \A i \in 1 .. first + rest : c[i] = from + i - 1
  <2>1. first + rest \in Nat
    OBVIOUS
  <2> QED
    BY <2>1, BytesType, Zenon
<1> HIDE DEF a, b, c
<1>4. /\ a \o b \in Seq(Nat) /\ Len(a \o b) = first + rest
      /\ \A i \in 1 .. first + rest : (a \o b)[i] = IF i <= first THEN a[i] ELSE b[i - first]
  BY <1>1, <1>2, ConcatProperties
<1>5. \A i \in 1 .. first + rest : (a \o b)[i] = c[i]
  <2> TAKE i \in 1 .. first + rest
  <2>1. c[i] = from + i - 1
    BY <1>3
  <2>2. CASE i <= first
    BY <1>1, <1>4, <2>1, <2>2
  <2>3. CASE first < i
    <3>1. i - first \in 1 .. rest
      BY <2>3
    <3>2. b[i - first] = from + first + (i - first) - 1
      BY <1>2, <3>1
    <3>3. (a \o b)[i] = b[i - first]
      BY <1>4, <2>3
    <3>4. from + first + (i - first) - 1 = from + i - 1
      OBVIOUS
    <3> QED
      BY <2>1, <3>2, <3>3, <3>4, Zenon
  <2>4. i <= first \/ first < i
    OBVIOUS
  <2> QED
    BY <2>2, <2>3, <2>4, Zenon
<1>6. a \o b = c
  BY <1>3, <1>4, <1>5, SeqEqual
<1> QED
  BY <1>6 DEF a, b, c

-----------------------------------------------------------------------------
(* Types. *)

LEMMA Constants ==
    /\ Length \in Nat /\ MaxData \in Nat /\ BlockSize \in Nat /\ BlockMod \in Nat
    /\ Components \in Nat /\ ResizeLimit \in Nat /\ RetryMax \in Nat /\ Patience \in Nat
    /\ MaxSections \in Nat
    /\ Length > 0 /\ BlockSize > 0 /\ BlockMod > 1 /\ Components > 0
    /\ Sections \subseteq Nat \X Nat
BY HpmUploadAssumption

(* A block ends where the image or the section does at the latest.         *)
LEMMA CountType ==
    ASSUME TypeInv
    PROVE  /\ Count \in Nat /\ Count <= MaxData
           /\ upload.pData + Count <= upload.end
           /\ upload.end - upload.pData - Count \in Nat
BY Constants DEF TypeInv, Types, InOrder, Uploads, Count

LEMMA FailType ==
    ASSUME upload \in Uploads, Fail
    PROVE  upload' \in Uploads /\ upload'.pc = "failed" /\ upload'.pData = upload.pData
                               /\ upload'.end = upload.end
BY DEF Fail, Uploads

(* The program is where it was with the same block, which may have become  *)
(* shorter.                                                                *)
SameBlock ==
    /\ upload'.pc = upload.pc /\ upload'.component = upload.component
    /\ upload'.pData = upload.pData /\ upload'.end = upload.end
    /\ upload'.blockNumber = upload.blockNumber /\ upload'.totalSent = upload.totalSent
    /\ upload'.bufLength <= upload.bufLength

(* What the handling of a failed request does to the upload. *)
Held ==
    /\ upload' \in Uploads
    /\ upload'.pData = upload.pData /\ upload'.end = upload.end
    /\ upload'.pc = "failed" \/ SameBlock

LEMMA SendAgainHolds ==
    ASSUME upload \in Uploads, SendAgain
    PROVE  Held
<1>1. CASE upload.waited < Patience
  <2>1. upload.waited + 1 \in 0..Patience
    BY <1>1, Constants DEF Uploads
  <2>2. upload' = [upload EXCEPT !.waited = upload.waited + 1]
    BY <1>1 DEF SendAgain
  <2> QED
    BY <2>1, <2>2, Constants DEF Held, SameBlock, Uploads
<1>2. CASE ~(upload.waited < Patience)
  BY <1>2, FailType DEF SendAgain, Held
<1> QED
  BY <1>1, <1>2

LEMMA BlockLengthHolds ==
    ASSUME upload \in Uploads, BlockLength
    PROVE  Held
<1>1. CASE upload.bufLengthIsSet \/ upload.bufLength = 0
  BY <1>1, FailType DEF BlockLength, Held
<1>2. CASE ~(upload.bufLengthIsSet \/ upload.bufLength = 0)
  <2>1. Shorter(upload.bufLength) \in 0..MaxData /\ Shorter(upload.bufLength) <= upload.bufLength
    BY <1>2, Constants DEF Uploads, Shorter
  <2>2. upload' = [upload EXCEPT !.bufLength = Shorter(upload.bufLength), !.waited = 0]
    BY <1>2 DEF BlockLength
  <2>3. upload' \in Uploads
    <3> DEFINE u == [upload EXCEPT !.bufLength = Shorter(upload.bufLength)]
    <3>1. u \in Uploads
      BY <2>1 DEF Uploads
    <3>2. upload' = [u EXCEPT !.waited = 0]
      BY <2>2
    <3> HIDE DEF u
    <3> QED
      BY <3>1, <3>2, Constants DEF Uploads
  <2> QED
    BY <2>1, <2>2, <2>3 DEF Held, SameBlock, Uploads
<1> QED
  BY <1>1, <1>2

LEMMA NoAnswerHolds ==
    ASSUME upload \in Uploads, sizes \in Sizes, NoAnswer
    PROVE  Held /\ sizes' \in Sizes /\ sizes'.retries = sizes.retries
<1>1. CASE ~sizes.isValidSize /\ sizes.errorCount < ResizeLimit
  <2>1. sizes.errorCount + 1 \in 0..ResizeLimit
    BY <1>1, Constants DEF Sizes
  <2>2. sizes' = [sizes EXCEPT !.isValidSize = TRUE, !.errorCount = sizes.errorCount + 1]
    BY <1>1 DEF NoAnswer
  <2>3. sizes' \in Sizes /\ sizes'.retries = sizes.retries
    BY <2>1, <2>2 DEF Sizes
  <2> QED
    BY <1>1, <2>3, BlockLengthHolds DEF NoAnswer
<1>2. CASE ~(~sizes.isValidSize /\ sizes.errorCount < ResizeLimit)
  BY <1>2, SendAgainHolds DEF NoAnswer
<1> QED
  BY <1>1, <1>2

-----------------------------------------------------------------------------
(* What the controller has stored. *)

LEMMA StoredFields ==
    ASSUME ipmc \in Controllers, NEW section
    PROVE  LET c == Stored(section)
               image == ipmc.image \o Bytes(upload.pData, Count)
           IN  /\ c.fits = ipmc.fits /\ c.drops = ipmc.drops /\ c.finished = ipmc.finished
               /\ c.number = upload.blockNumber /\ c.image = image /\ c.section = section
               /\ c.wanted = IF section[1] # 0
                             THEN image \o Bytes(section[1], section[2])
                             ELSE ipmc.wanted
               /\ c.sections = IF section[1] # 0 THEN ipmc.sections + 1 ELSE ipmc.sections
BY DEF Stored, Controllers

LEMMA StoredImage ==
    ASSUME TypeInv
    PROVE  LET image == ipmc.image \o Bytes(upload.pData, Count)
           IN  /\ image \in Seq(0 .. Length - 1) /\ image \in Seq(Nat)
               /\ Len(image) = Len(ipmc.image) + Count
<1> DEFINE b == Bytes(upload.pData, Count)
           p == upload.pData
<1>a. Count \in Nat /\ p + Count <= upload.end
  BY CountType
<1>b. p \in Nat /\ upload.end \in Nat /\ upload.end <= Length
  BY Constants DEF TypeInv, Types, Uploads
<1>1. p \in Nat /\ Count \in Nat /\ p + Count <= Length
  BY <1>a, <1>b, Constants
<1>2. b \in Seq(p .. p + Count - 1) /\ b \in Seq(Nat) /\ Len(b) = Count
  BY <1>1, BytesType, Zenon
<1> HIDE DEF b, p
<1>4. b \in Seq(0 .. Length - 1)
  BY <1>1, <1>2, Constants
<1>5. ipmc.image \in Seq(0 .. Length - 1)
  BY DEF TypeInv, Types, Controllers
<1>6. /\ ipmc.image \o b \in Seq(0 .. Length - 1)
      /\ Len(ipmc.image \o b) = Len(ipmc.image) + Count
  BY <1>2, <1>4, <1>5, ConcatProperties
<1> DEFINE I == ipmc.image \o b
<1>7. I \in Seq(0 .. Length - 1)
  BY <1>6
<1> HIDE DEF I
<1>8. I \in Seq(Nat)
  BY <1>7, Constants
<1> QED
  BY <1>6, <1>8 DEF b, p, I

LEMMA StoredType ==
    ASSUME TypeInv, NEW section \in Nat \X Nat, section[1] # 0 => ipmc.sections < MaxSections
    PROVE  Stored(section) \in Controllers
<1> DEFINE image == ipmc.image \o Bytes(upload.pData, Count)
           wanted == IF section[1] # 0 THEN image \o Bytes(section[1], section[2]) ELSE ipmc.wanted
           n == IF section[1] # 0 THEN ipmc.sections + 1 ELSE ipmc.sections
<1>1. ipmc \in Controllers /\ upload \in Uploads
  BY DEF TypeInv, Types
<1>2. image \in Seq(0 .. Length - 1) /\ image \in Seq(Nat)
  BY StoredImage
<1>3. wanted \in Seq(Nat)
  <2>1. section[1] \in Nat /\ section[2] \in Nat
    OBVIOUS
  <2>2. Bytes(section[1], section[2]) \in Seq(Nat)
    BY <2>1, BytesType, Zenon
  <2> HIDE DEF image
  <2>3. image \o Bytes(section[1], section[2]) \in Seq(Nat)
    BY <1>2, <2>2, ConcatProperties
  <2> QED
    BY <1>1, <2>3 DEF Controllers
<1>4. n \in 0 .. MaxSections
  BY <1>1, Constants DEF Controllers
<1>5. Stored(section) =
        [ipmc EXCEPT !.number = upload.blockNumber, !.image = image, !.section = section,
                     !.wanted = wanted, !.sections = n]
  BY DEF Stored
<1> HIDE DEF image, wanted, n
<1> DEFINE c == [ipmc EXCEPT !.number = upload.blockNumber, !.image = image]
<1>6. c \in Controllers
  BY <1>1, <1>2 DEF Controllers, Uploads
<1>7. Stored(section) = [c EXCEPT !.section = section, !.wanted = wanted, !.sections = n]
  BY <1>5
<1> HIDE DEF c
<1> QED
  BY <1>3, <1>4, <1>6, <1>7 DEF Controllers

(* A block that is stored where the controller had the right bytes leaves  *)
(* it with the right bytes.                                                *)
LEMMA StoresRight ==
    ASSUME TypeInv, NEW section \in Nat \X Nat, SentRight
    PROVE  StoredRight(Stored(section))
<1> DEFINE c == Stored(section)
           p == upload.pData
           e == upload.end
           image == ipmc.image \o Bytes(p, Count)
<1>1. ipmc \in Controllers
  BY DEF TypeInv, Types
<1>2. /\ c.image = image /\ c.section = section
      /\ c.wanted = IF section[1] # 0
                    THEN image \o Bytes(section[1], section[2])
                    ELSE ipmc.wanted
  BY <1>1, StoredFields
<1>3. section[1] = 0 => ipmc.wanted = image \o Bytes(p + Count, e - (p + Count))
  <2>1. /\ p \in Nat /\ e \in Nat
    BY Constants DEF TypeInv, Types, Uploads
  <2>2. Count \in Nat /\ e - p - Count \in Nat
    BY CountType
  <2>3. p + Count \in Nat /\ e - (p + Count) \in Nat /\ Count + (e - (p + Count)) = e - p
    BY <2>1, <2>2
  <2>4. Bytes(p, Count) \o Bytes(p + Count, e - (p + Count)) = Bytes(p, Count + (e - (p + Count)))
    BY <2>1, <2>2, <2>3, BytesCut, Zenon
  <2>5. Bytes(p, Count) \in Seq(Nat) /\ Bytes(p + Count, e - (p + Count)) \in Seq(Nat)
    BY <2>1, <2>2, <2>3, BytesType, Zenon
  <2>6. ipmc.image \in Seq(Nat)
    BY <1>1, Constants DEF Controllers
  <2>7. image \o Bytes(p + Count, e - (p + Count))
          = ipmc.image \o (Bytes(p, Count) \o Bytes(p + Count, e - (p + Count)))
    <3> DEFINE a == ipmc.image
               b == Bytes(p, Count)
               d == Bytes(p + Count, e - (p + Count))
    <3>1. a \in Seq(Nat) /\ b \in Seq(Nat) /\ d \in Seq(Nat)
      BY <2>5, <2>6, Zenon
    <3> HIDE DEF a, b, d
    <3>2. (a \o b) \o d = a \o (b \o d)
      BY <3>1, Concats
    <3> QED
      BY <3>2 DEF a, b, d
  <2>8. ipmc.wanted = ipmc.image \o Bytes(p, e - p)
    BY DEF SentRight
  <2> QED
    BY <2>3, <2>4, <2>7, <2>8, Zenon
<1> HIDE DEF c, image
<1>4. StoredRight(c)
  <2>1. CASE section[1] # 0
    BY <1>2, <2>1, Zenon DEF StoredRight
  <2>2. CASE section[1] = 0
    BY <1>2, <1>3, <2>2, Zenon DEF StoredRight
  <2> QED
    BY <2>1, <2>2
<1> QED
  BY <1>4 DEF c

(* What the controller has after a block it has received, for the first    *)
(* time or again.                                                          *)
LEMMA ReceivedRight ==
    ASSUME UploadInv, BlockUnderWay, NEW c \in Received
    PROVE  /\ c \in Controllers /\ c.number = upload.blockNumber /\ c.finished = FALSE
           /\ Len(c.image) >= upload.totalSent + Count
           /\ Len(c.image) = upload.totalSent + Count => StoredRight(c)
<1>1. TypeInv /\ ipmc \in Controllers /\ upload \in Uploads
  BY DEF UploadInv, TypeInv, Types
<1>2. ipmc.finished = FALSE
  BY <1>1 DEF UploadInv, Order, NotFinished, BlockUnderWay, Controllers
<1>3. CASE Pending
  BY <1>1, <1>2, <1>3 DEF UploadInv, Order, NothingMissing, BlockUnderWay, Pending, Received
<1>4. CASE ~Pending
  <2>1. PICK section \in Nat \X Nat :
            /\ section[1] # 0 => ipmc.sections < MaxSections
            /\ c = Stored(section)
    <3>1. <<0, 0>> \in Nat \X Nat /\ <<0, 0>>[1] = 0
      OBVIOUS
    <3>2. Sections \subseteq Nat \X Nat
      BY Constants
    <3>3. c = Stored(<<0, 0>>) \/ \E s \in Sections : ipmc.sections < MaxSections /\ c = Stored(s)
      BY <1>4 DEF Received, Pending
    <3> QED
      BY <3>1, <3>2, <3>3, Zenon
  <2>2. c \in Controllers
    BY <1>1, <2>1, StoredType
  <2>3. c.number = upload.blockNumber /\ c.finished = ipmc.finished
        /\ c.image = ipmc.image \o Bytes(upload.pData, Count)
    BY <1>1, <2>1, StoredFields
  <2>4. Len(c.image) = Len(ipmc.image) + Count
    BY <1>1, <2>3, StoredImage
  <2>5. /\ Len(ipmc.image) >= upload.totalSent
        /\ Len(ipmc.image) = upload.totalSent => SentRight
    BY <1>4 DEF UploadInv, Order, NothingMissing, BlockUnderWay
  <2>6. Count \in Nat /\ Len(ipmc.image) \in Nat /\ upload.totalSent \in Nat
    BY <1>1, CountType DEF Controllers, Uploads
  <2>7. Len(c.image) = upload.totalSent + Count => StoredRight(c)
    <3>1. Len(c.image) = upload.totalSent + Count => SentRight
      BY <2>4, <2>5, <2>6
    <3> QED
      BY <1>1, <2>1, <3>1, StoresRight
  <2> QED
    BY <1>2, <2>2, <2>3, <2>4, <2>5, <2>6, <2>7
<1> QED
  BY <1>3, <1>4

-----------------------------------------------------------------------------
(* The steps. *)

(* Where the block is sent again, as it is or shortened, or the upload is  *)
(* given up.                                                               *)
LEMMA HeldInOrder ==
    ASSUME UploadInv, BlockUnderWay, Held, ipmc' = ipmc \/ ipmc' \in Received
    PROVE  ipmc' \in Controllers /\ InOrder' /\ Order'
<1>1. TypeInv /\ ipmc \in Controllers /\ upload \in Uploads
  BY DEF UploadInv, TypeInv, Types
<1>2. ipmc' \in Controllers /\ ipmc'.finished = FALSE
  BY <1>1, ReceivedRight DEF UploadInv, Order, NotFinished, BlockUnderWay, Controllers
<1>3. InOrder'
  BY <1>1 DEF Held, TypeInv, InOrder
<1>4. ImageWhole' /\ NotFinished'
  BY <1>2 DEF ImageWhole, NotFinished
<1>5. CASE upload'.pc = "failed"
  BY <1>2, <1>3, <1>4, <1>5 DEF Order, AsNew, NothingMissing, SentAll
<1>6. CASE SameBlock
  <2>1. upload'.pc = "block" /\ upload'.pData < upload'.end
    BY <1>6 DEF SameBlock, BlockUnderWay
  <2>2. AsNew' /\ SentAll'
    BY <2>1 DEF AsNew, SentAll
  <2>3. Count' \in Nat /\ Count \in Nat /\ Count' <= Count
    BY <1>1, <1>6, Constants DEF Count, SameBlock, Uploads, Held, TypeInv, InOrder
  <2>4. upload.totalSent \in Nat /\ Len(ipmc'.image) \in Nat
    <3>1. upload.totalSent \in Nat
      BY <1>1 DEF Uploads
    <3>2. ipmc'.image \in Seq(0..Length - 1)
      BY <1>2 DEF Controllers
    <3> QED
      BY <3>1, <3>2
  <2>5. ASSUME ipmc'.number = upload.blockNumber,
               Len(ipmc'.image) >= upload.totalSent + Count,
               Len(ipmc'.image) = upload.totalSent + Count => StoredRight(ipmc')
        PROVE  NothingMissing'
    <3>1. Pending'
      BY <1>6, <2>5 DEF Pending, SameBlock
    <3>2. Len(ipmc'.image) >= upload'.totalSent + Count'
      BY <1>6, <2>3, <2>4, <2>5 DEF SameBlock
    <3>3. ASSUME Len(ipmc'.image) = upload'.totalSent + Count'
          PROVE  StoredRight(ipmc)'
      <4>1. Count' = Count /\ StoredRight(ipmc')
        BY <1>6, <2>3, <2>4, <2>5, <3>3 DEF SameBlock
      <4> QED
        BY <1>6, <4>1 DEF StoredRight, SameBlock
    <3> QED
      BY <2>1, <3>1, <3>2, <3>3 DEF NothingMissing
  <2>6. ASSUME ipmc' \in Received  PROVE NothingMissing'
    <3>1. /\ ipmc'.number = upload.blockNumber
          /\ Len(ipmc'.image) >= upload.totalSent + Count
          /\ Len(ipmc'.image) = upload.totalSent + Count => StoredRight(ipmc')
      BY <2>6, ReceivedRight
    <3> QED
      BY <2>5, <3>1
  <2>7. ASSUME ipmc' = ipmc /\ Pending  PROVE NothingMissing'
    <3>1. /\ Len(ipmc.image) >= upload.totalSent + Count
          /\ Len(ipmc.image) = upload.totalSent + Count => StoredRight(ipmc)
      BY <2>7 DEF UploadInv, Order, NothingMissing, BlockUnderWay
    <3>2. /\ ipmc'.number = upload.blockNumber
          /\ Len(ipmc'.image) >= upload.totalSent + Count
          /\ Len(ipmc'.image) = upload.totalSent + Count => StoredRight(ipmc')
      BY <2>7, <3>1, Zenon DEF Pending
    <3> QED
      BY <2>5, <3>2
  <2>8. ASSUME ipmc' = ipmc /\ ~Pending  PROVE NothingMissing'
    <3>1. ~Pending'
      BY <1>6, <2>8 DEF Pending, SameBlock
    <3>2. SentRight => SentRight'
      BY <1>6, <2>8 DEF SentRight, SameBlock
    <3>3. /\ Len(ipmc.image) >= upload.totalSent
          /\ Len(ipmc.image) = upload.totalSent => SentRight
      BY <2>8 DEF UploadInv, Order, NothingMissing, BlockUnderWay
    <3>4. /\ Len(ipmc'.image) >= upload'.totalSent
          /\ Len(ipmc'.image) = upload'.totalSent => SentRight'
      BY <1>6, <2>8, <3>2, <3>3, Zenon DEF SameBlock
    <3> QED
      BY <3>1, <3>4 DEF NothingMissing
  <2> QED
    BY <1>2, <1>3, <1>4, <2>2, <2>6, <2>7, <2>8 DEF Order
<1> QED
  BY <1>5, <1>6 DEF Held

(* Where a block is acknowledged. *)
LEMMA AcceptedInOrder ==
    ASSUME UploadInv, BlockAccepted
    PROVE  upload' \in Uploads /\ ipmc' \in Controllers /\ InOrder' /\ Order'
<1>1. TypeInv /\ ipmc \in Controllers /\ upload \in Uploads
  BY DEF UploadInv, TypeInv, Types
<1>2. BlockUnderWay /\ ipmc' \in Received
  BY DEF BlockAccepted
<1>3. /\ ipmc' \in Controllers /\ ipmc'.number = upload.blockNumber /\ ipmc'.finished = FALSE
      /\ Len(ipmc'.image) >= upload.totalSent + Count
      /\ Len(ipmc'.image) = upload.totalSent + Count => StoredRight(ipmc')
  BY <1>2, ReceivedRight
<1> DEFINE o == ipmc'.section[1]
           l == ipmc'.section[2]
<1>4. o \in Nat /\ l \in Nat
  BY <1>3 DEF Controllers
<1>5. ImageWhole' /\ NotFinished'
  BY <1>3 DEF ImageWhole, NotFinished
<1>6. CASE o + l > Length
  <2>1. Fail
    BY <1>6 DEF BlockAccepted, BlockSent
  <2> QED
    BY <1>1, <1>3, <1>5, <2>1, FailType
    DEF TypeInv, InOrder, Order, AsNew, NothingMissing, SentAll
<1>7. CASE ~(o + l > Length)
  <2> DEFINE next == Position(o, l, Count)
             n == (upload.blockNumber + 1) % BlockMod
             t == upload.totalSent + Count
  <2>1. upload' = [upload EXCEPT !.bufLengthIsSet = TRUE, !.totalSent = t,
                                 !.pData = next.pData, !.end = next.end, !.waited = 0,
                                 !.blockNumber = n]
    BY <1>7 DEF BlockAccepted, BlockSent
  <2>2. Count \in Nat /\ upload.pData + Count <= upload.end
    BY <1>1, CountType
  <2>3. /\ next.pData = IF o # 0 THEN o ELSE upload.pData + Count
        /\ next.end = IF o # 0 THEN o + l ELSE upload.end
    BY DEF Position
  <2>4. next.pData \in 0..Length /\ next.end \in 0..Length /\ next.pData <= next.end
    BY <1>1, <1>4, <1>7, <2>2, <2>3, Constants DEF Uploads
  <2>5. n \in 0..BlockMod - 1 /\ n # upload.blockNumber
    BY <1>1, Constants DEF Uploads
  <2>6. t \in Nat
    BY <1>1, <2>2 DEF Uploads
  <2> HIDE DEF next, n, t
  <2>7. upload' \in Uploads
    <3> DEFINE u == [upload EXCEPT !.bufLengthIsSet = TRUE, !.totalSent = t]
               v == [u EXCEPT !.pData = next.pData, !.end = next.end]
    <3>1. u \in Uploads
      BY <1>1, <2>6 DEF Uploads
    <3> HIDE DEF u
    <3>2. v \in Uploads
      BY <2>4, <3>1 DEF Uploads
    <3> DEFINE w == [v EXCEPT !.waited = 0]
    <3>3. upload' = [w EXCEPT !.blockNumber = n]
      BY <2>1 DEF u
    <3> HIDE DEF v
    <3>4. w \in Uploads
      BY <3>2, Constants DEF Uploads
    <3> HIDE DEF w
    <3> QED
      BY <2>5, <3>3, <3>4 DEF Uploads
  <2>8. /\ upload'.pc = "block" /\ upload'.totalSent = t /\ upload'.blockNumber = n
        /\ upload'.pData = next.pData /\ upload'.end = next.end
    BY <1>1, <1>2, <2>1 DEF Uploads, BlockUnderWay
  <2>9. ~Pending'
    BY <1>3, <2>5, <2>8 DEF Pending
  <2>10. Len(ipmc'.image) >= upload'.totalSent
    BY <1>3, <2>8 DEF t
  <2>11. ASSUME Len(ipmc'.image) = upload'.totalSent
         PROVE  SentRight'
    <3>1. StoredRight(ipmc')
      BY <1>3, <2>8, <2>11 DEF t
    <3>2. CASE o # 0
      <4>1. upload'.pData = o /\ upload'.end - upload'.pData = l
        BY <1>4, <2>3, <2>8, <3>2
      <4> QED
        BY <3>1, <3>2, <4>1 DEF StoredRight, SentRight
    <3>3. CASE o = 0
      <4>1. upload'.pData = upload.pData + Count /\ upload'.end = upload.end
        BY <2>3, <2>8, <3>3
      <4> QED
        BY <3>1, <3>3, <4>1 DEF StoredRight, SentRight
    <3> QED
      BY <3>2, <3>3
  <2>12. InOrder' /\ AsNew' /\ SentAll'
    BY <2>4, <2>8 DEF InOrder, AsNew, SentAll
  <2>13. NothingMissing'
    BY <2>9, <2>10, <2>11 DEF NothingMissing
  <2> QED
    BY <1>3, <1>5, <2>7, <2>12, <2>13 DEF Order
<1> QED
  BY <1>6, <1>7

-----------------------------------------------------------------------------
(* Initialization and the other steps. *)

LEMMA NewUploadType ==
    ASSUME NEW component \in 1..Components
    PROVE  NewUpload(component) \in Uploads
BY Constants DEF NewUpload, Uploads

LEMMA UploadInit == Init => UploadInv
<1> SUFFICES ASSUME Init PROVE UploadInv
  OBVIOUS
<1>1. upload \in Uploads
  BY NewUploadType, Constants DEF Init
<1>2. sizes \in Sizes /\ sizes.retries = 0
  BY Constants DEF Init, Sizes
<1>3. ipmc \in Controllers /\ ipmc.finished = FALSE
  <2>1. <<>> \in Seq(0..Length - 1) /\ <<>> \in Seq(Nat) /\ <<0, 0>> \in Nat \X Nat
    OBVIOUS
  <2>2. /\ ipmc.finished = FALSE /\ ipmc.sections = 0
        /\ ipmc \in [fits : 0..MaxData, drops : BOOLEAN, number : {NoBlock}, image : {<<>>},
                     wanted : {<<>>}, section : {<<0, 0>>}, sections : {0}, finished : {FALSE}]
    BY DEF Init
  <2>3. /\ NoBlock \in {NoBlock} \cup 0..BlockMod - 1 /\ 0 \in 0..MaxSections
        /\ FALSE \in BOOLEAN
    BY Constants
  <2> QED
    BY <2>1, <2>2, <2>3, Zenon DEF Controllers
<1>4. TypeInv
  BY <1>1, <1>2, <1>3, Constants
  DEF TypeInv, Types, RetriesLeft, InOrder, Init, NewUpload
<1>5. Order
  BY <1>3 DEF Order, AsNew, NothingMissing, SentAll, NotFinished, ImageWhole, Init, NewUpload
<1> QED
  BY <1>4, <1>5 DEF UploadInv

LEMMA StartedFields ==
    ASSUME ipmc \in Controllers
    PROVE  /\ Started \in Controllers /\ Started.finished = FALSE
           /\ Started.number = NoBlock /\ Started.image = <<>>
           /\ Started.wanted = Bytes(0, Length)
<1> DEFINE b == Bytes(0, Length)
           a == [ipmc EXCEPT !.number = NoBlock]
           c == [a EXCEPT !.image = <<>>]
           d == [c EXCEPT !.wanted = b, !.section = <<0, 0>>]
           e == [d EXCEPT !.sections = 0]
<1>1. b \in Seq(Nat)
  BY Constants, BytesType
<1>2. Started = [e EXCEPT !.finished = FALSE]
  BY DEF Started
<1>3. /\ Started.finished = FALSE /\ Started.number = NoBlock /\ Started.image = <<>>
      /\ Started.wanted = b
  BY DEF Started, Controllers
<1> HIDE DEF b
<1>a. a \in Controllers
  BY DEF Controllers
<1> HIDE DEF a
<1>4. c \in Controllers
  <2>1. <<>> \in Seq(0..Length - 1)
    OBVIOUS
  <2> QED
    BY <1>a, <2>1 DEF Controllers
<1> HIDE DEF c
<1>5. d \in Controllers
  BY <1>1, <1>4 DEF Controllers
<1> HIDE DEF d
<1>e. e \in Controllers
  <2>1. 0 \in 0..MaxSections
    BY Constants
  <2> QED
    BY <1>5, <2>1 DEF Controllers
<1> HIDE DEF e
<1>6. Started \in Controllers
  BY <1>2, <1>e DEF Controllers
<1> QED
  BY <1>3, <1>6 DEF b

LEMMA InitiateKeeps ==
    ASSUME UploadInv, HpmfwupgInitiateUpgradeAction
    PROVE  UploadInv'
<1>1. /\ TypeInv /\ ipmc \in Controllers /\ upload \in Uploads /\ sizes \in Sizes
      /\ AsNew /\ ImageWhole
  BY DEF UploadInv, TypeInv, Types, Order
<1>2. upload.pc = "initiate" /\ sizes.retries <= RetryMax
  BY <1>1 DEF HpmfwupgInitiateUpgradeAction, TypeInv, RetriesLeft
<1>3. CASE /\ ipmc' = Started
           /\ upload' = [upload EXCEPT !.pc = "block", !.waited = 0]
           /\ sizes' = [sizes EXCEPT !.retries = 0]
  <2>1. upload' \in Uploads
    <3> DEFINE u == [upload EXCEPT !.pc = "block"]
    <3>1. upload' = [u EXCEPT !.waited = 0]
      BY <1>3
    <3>2. u \in Uploads
      BY <1>1 DEF Uploads
    <3> HIDE DEF u
    <3> QED
      BY <3>1, <3>2, Constants DEF Uploads
  <2>2. /\ upload'.pc = "block" /\ upload'.pData = 0 /\ upload'.end = Length
        /\ upload'.totalSent = 0 /\ upload'.blockNumber = 0
    BY <1>1, <1>2, <1>3 DEF Uploads, AsNew
  <2>3. sizes' \in Sizes /\ sizes'.retries = 0
    BY <1>1, <1>3, Constants DEF Sizes
  <2>4. /\ ipmc' \in Controllers /\ ipmc'.finished = FALSE
        /\ ipmc'.number = NoBlock /\ ipmc'.image = <<>> /\ ipmc'.wanted = Bytes(0, Length)
    BY <1>1, <1>3, StartedFields
  <2>5. TypeInv'
    <3>1. Types'
      BY <2>1, <2>3, <2>4 DEF Types, Uploads, Sizes, Controllers
    <3> QED
      BY <2>2, <2>3, <3>1, Constants DEF TypeInv, RetriesLeft, InOrder
  <2>6. ~Pending'
    BY <2>2, <2>4 DEF Pending, NoBlock
  <2>7. Len(ipmc'.image) = 0 /\ Len(ipmc'.image) >= upload'.totalSent
    BY <2>2, <2>4
  <2>8. SentRight'
    <3>1. Length - 0 = Length /\ Bytes(0, Length) \in Seq(Nat)
      BY Constants, BytesType
    <3> DEFINE b == Bytes(0, Length)
    <3>2. b \in Seq(Nat)
      BY <3>1
    <3> HIDE DEF b
    <3>3. <<>> \o b = b
      BY <3>2
    <3>4. upload'.end - upload'.pData = Length
      BY <2>2, Constants
    <3> QED
      BY <2>2, <2>4, <3>3, <3>4 DEF SentRight, b
  <2>9. NothingMissing'
    BY <2>6, <2>7, <2>8 DEF NothingMissing
  <2> QED
    BY <2>2, <2>4, <2>5, <2>9 DEF UploadInv, Order, AsNew, SentAll, NotFinished, ImageWhole
<1>4. ASSUME Held, sizes' = sizes, ipmc' \in {ipmc, Started}
      PROVE  UploadInv'
  <2>1. ipmc' \in Controllers /\ ImageWhole'
    BY <1>1, <1>4, StartedFields DEF ImageWhole
  <2>2. TypeInv'
    <3>1. Types'
      BY <1>1, <1>4, <2>1 DEF Held, Types, Uploads, Sizes, Controllers
    <3> QED
      BY <1>1, <1>2, <1>4, <3>1 DEF Held, TypeInv, RetriesLeft, InOrder
  <2>3. AsNew' /\ upload'.pc \in {"initiate", "failed"}
    BY <1>1, <1>2, <1>4 DEF Held, SameBlock, AsNew
  <2> QED
    BY <2>1, <2>2, <2>3 DEF UploadInv, Order, NothingMissing, SentAll, NotFinished
<1>5. CASE Fail /\ UNCHANGED <<sizes, ipmc>>
  BY <1>1, <1>4, <1>5, FailType DEF Held
<1>6. CASE SendAgain /\ ipmc' \in {ipmc, Started} /\ UNCHANGED sizes
  BY <1>1, <1>4, <1>6, SendAgainHolds
<1> QED
  BY <1>3, <1>5, <1>6 DEF HpmfwupgInitiateUpgradeAction

(* A block that has to be sent again. *)
LEMMA HeldKeeps ==
    ASSUME UploadInv, BlockUnderWay, Held, ipmc' = ipmc \/ ipmc' \in Received,
           sizes' \in Sizes, upload'.pc # "failed" => sizes'.retries <= RetryMax
    PROVE  UploadInv'
<1>1. ipmc' \in Controllers /\ InOrder' /\ Order'
  BY HeldInOrder
<1>2. Types'
  BY <1>1 DEF Held, Types, Uploads, Sizes, Controllers
<1> QED
  BY <1>1, <1>2 DEF UploadInv, TypeInv, RetriesLeft

LEMMA RetryHolds ==
    ASSUME TypeInv, upload \in Uploads, sizes \in Sizes, NEW c \in Nat, c <= RetryMax, Retry(c)
    PROVE  Held /\ sizes' \in Sizes /\ (upload'.pc # "failed" => sizes'.retries <= RetryMax)
<1> DEFINE n == c + 1
<1>1. n \in 0..RetryMax + 1
  BY Constants
<1>2. sizes' = [sizes EXCEPT !.isValidSize = TRUE, !.retries = n]
  BY DEF Retry
<1> HIDE DEF n
<1>3. sizes' \in Sizes /\ sizes'.retries = n
  BY <1>1, <1>2 DEF Sizes
<1>4. CASE c < RetryMax
  <2>1. upload' = [upload EXCEPT !.waited = 0]
    BY <1>4 DEF Retry
  <2>2. n <= RetryMax
    BY <1>4, Constants DEF n
  <2>3. upload' \in Uploads
    BY <2>1, Constants DEF Uploads
  <2> QED
    BY <1>3, <2>1, <2>2, <2>3 DEF Held, SameBlock, Uploads
<1>5. CASE ~(c < RetryMax)
  BY <1>3, <1>5, FailType DEF Retry, Held
<1> QED
  BY <1>4, <1>5

LEMMA BlockKeeps ==
    ASSUME UploadInv, \/ BlockTooLong \/ BlockRefused \/ BlockRetried
                      \/ BlockAnswerWrongSize \/ BlockInaccessible \/ BlockLost \/ AnswerLost
    PROVE  UploadInv'
<1>1. TypeInv /\ upload \in Uploads /\ sizes \in Sizes
  BY DEF UploadInv, TypeInv, Types
<1>2. BlockUnderWay
  BY DEF BlockTooLong, BlockRefused, BlockRetried, BlockAnswerWrongSize, BlockInaccessible,
         BlockLost, AnswerLost
<1>3. sizes.retries \in Nat /\ sizes.retries <= RetryMax
  BY <1>1, <1>2 DEF TypeInv, RetriesLeft, BlockUnderWay, Sizes
<1>4. ipmc' = ipmc \/ ipmc' \in Received
  BY DEF BlockTooLong, BlockRefused, BlockRetried, BlockAnswerWrongSize, BlockInaccessible,
         BlockLost, AnswerLost
<1>5. CASE BlockTooLong
  <2>1. Held /\ sizes' = [sizes EXCEPT !.isValidSize = TRUE]
    BY <1>1, <1>5, BlockLengthHolds DEF BlockTooLong
  <2>2. sizes' \in Sizes /\ sizes'.retries = sizes.retries
    BY <1>1, <2>1 DEF Sizes
  <2> QED
    BY <1>2, <1>3, <1>4, <2>1, <2>2, HeldKeeps
<1>6. CASE BlockRefused
  <2>1. Held /\ sizes' = [sizes EXCEPT !.isValidSize = TRUE]
    BY <1>1, <1>6, FailType DEF BlockRefused, Held
  <2>2. sizes' \in Sizes /\ sizes'.retries = sizes.retries
    BY <1>1, <2>1 DEF Sizes
  <2> QED
    BY <1>2, <1>3, <1>4, <2>1, <2>2, HeldKeeps
<1>7. CASE BlockRetried \/ BlockAnswerWrongSize
  <2>1. PICK c \in Nat : Retry(c) /\ c <= RetryMax
    <3>1. CASE BlockRetried
      BY <1>3, <3>1 DEF BlockRetried
    <3>2. CASE BlockAnswerWrongSize
      BY <3>2, Constants DEF BlockAnswerWrongSize
    <3> QED
      BY <1>7, <3>1, <3>2
  <2>2. Held /\ sizes' \in Sizes /\ (upload'.pc # "failed" => sizes'.retries <= RetryMax)
    BY <1>1, <2>1, RetryHolds
  <2> QED
    BY <1>2, <1>4, <2>2, HeldKeeps
<1>8. CASE BlockInaccessible
  BY <1>1, <1>2, <1>3, <1>4, <1>8, SendAgainHolds, HeldKeeps DEF BlockInaccessible
<1>9. CASE BlockLost \/ AnswerLost
  <2>1. NoAnswer
    BY <1>9 DEF BlockLost, AnswerLost
  <2>2. Held /\ sizes' \in Sizes /\ sizes'.retries = sizes.retries
    BY <1>1, <2>1, NoAnswerHolds
  <2> QED
    BY <1>2, <1>3, <1>4, <2>2, HeldKeeps
<1> QED
  BY <1>5, <1>6, <1>7, <1>8, <1>9

LEMMA AcceptedKeeps ==
    ASSUME UploadInv, BlockAccepted
    PROVE  UploadInv'
<1>1. upload' \in Uploads /\ ipmc' \in Controllers /\ InOrder' /\ Order'
  BY AcceptedInOrder
<1>2. sizes \in Sizes /\ sizes' = [sizes EXCEPT !.isValidSize = TRUE, !.retries = 0]
  BY DEF UploadInv, TypeInv, Types, BlockAccepted
<1> DEFINE u == [sizes EXCEPT !.isValidSize = TRUE]
<1>a. sizes' = [u EXCEPT !.retries = 0] /\ u \in Sizes
  BY <1>2 DEF Sizes
<1> HIDE DEF u
<1>3. sizes' \in Sizes /\ sizes'.retries = 0
  BY <1>a, Constants DEF Sizes
<1>4. Types'
  BY <1>1, <1>3 DEF Types, Uploads, Sizes, Controllers
<1> QED
  BY <1>1, <1>3, <1>4, Constants DEF UploadInv, TypeInv, RetriesLeft

LEMMA DoneKeeps ==
    ASSUME UploadInv, BlocksDone
    PROVE  UploadInv'
<1>1. TypeInv /\ Order /\ upload \in Uploads /\ ipmc \in Controllers /\ sizes \in Sizes
  BY DEF UploadInv, TypeInv, Types
<1>2. /\ upload.pc = "block" /\ upload.pData >= upload.end
      /\ upload' = [upload EXCEPT !.pc = "finish"] /\ sizes' = sizes /\ ipmc' = ipmc
  BY DEF BlocksDone
<1>3. /\ upload' \in Uploads /\ upload'.pc = "finish" /\ upload'.pData = upload.pData
      /\ upload'.end = upload.end /\ upload'.blockNumber = upload.blockNumber
      /\ upload'.totalSent = upload.totalSent
  BY <1>1, <1>2 DEF Uploads
<1>4. upload.pData = upload.end
  BY <1>1, <1>2 DEF TypeInv, InOrder, Uploads
<1>5. TypeInv'
  <2>1. Types'
    BY <1>1, <1>2, <1>3 DEF Types, Uploads, Sizes, Controllers
  <2> QED
    BY <1>1, <1>2, <1>3, <2>1 DEF TypeInv, RetriesLeft, InOrder
<1>6. NothingMissing'
  <2>1. ~(upload.pData < upload.end)
    BY <1>1, <1>4 DEF Uploads
  <2>2. ~Pending /\ Len(ipmc.image) >= upload.totalSent
        /\ (Len(ipmc.image) = upload.totalSent => SentRight)
    BY <1>1, <1>2, <2>1 DEF Order, NothingMissing
  <2>3. ~Pending' /\ (SentRight => SentRight')
    BY <1>2, <1>3, <2>2 DEF Pending, SentRight
  <2>4. /\ Len(ipmc'.image) >= upload'.totalSent
        /\ Len(ipmc'.image) = upload'.totalSent => SentRight'
    BY <1>2, <1>3, <2>2, <2>3, Zenon
  <2> QED
    BY <2>3, <2>4 DEF NothingMissing
<1> QED
  BY <1>1, <1>2, <1>3, <1>4, <1>5, <1>6
  DEF UploadInv, Order, AsNew, SentAll, NotFinished, ImageWhole

(* The end of the upload is taken where all bytes have arrived: they are   *)
(* the wanted ones.                                                        *)
LEMMA CompleteWhole ==
    ASSUME UploadInv, upload.pc = "finish", Complete
    PROVE  ipmc.image = ipmc.wanted
<1>1. TypeInv /\ Order /\ upload \in Uploads /\ ipmc \in Controllers
  BY DEF UploadInv, TypeInv, Types
<1>2. SentRight /\ upload.pData = upload.end
  BY <1>1 DEF Order, NothingMissing, SentAll, Complete, ImageLength
<1>3. upload.pData \in Nat /\ upload.end - upload.pData = 0
  BY <1>1, <1>2, Constants DEF Uploads
<1>4. Bytes(upload.pData, upload.end - upload.pData) = <<>>
  BY <1>3, NoBytes
<1> DEFINE i == ipmc.image
<1>5. i \in Seq(0..Length - 1)
  BY <1>1 DEF Controllers
<1>6. ipmc.wanted = i \o <<>>
  BY <1>2, <1>4 DEF SentRight
<1> HIDE DEF i
<1>7. i \o <<>> = i
  BY <1>5
<1> QED
  BY <1>6, <1>7 DEF i

LEMMA FinishKeeps ==
    ASSUME UploadInv, HpmfwupgFinishFirmwareUpload
    PROVE  UploadInv'
<1>1. TypeInv /\ Order /\ upload \in Uploads /\ ipmc \in Controllers /\ sizes \in Sizes
  BY DEF UploadInv, TypeInv, Types
<1>2. upload.pc = "finish" /\ sizes.retries <= RetryMax
  BY <1>1 DEF HpmfwupgFinishFirmwareUpload, TypeInv, RetriesLeft
<1> DEFINE finished == [ipmc EXCEPT !.finished = TRUE]
<1>3. /\ finished \in Controllers /\ finished.image = ipmc.image
      /\ finished.wanted = ipmc.wanted /\ finished.number = ipmc.number
      /\ finished.section = ipmc.section
  BY <1>1 DEF Controllers
<1> HIDE DEF finished
<1>4. CASE /\ Complete /\ ipmc' = finished
           /\ upload' = [upload EXCEPT !.pc = "done"]
           /\ sizes' = [sizes EXCEPT !.retries = 0]
  <2>1. /\ upload' \in Uploads /\ upload'.pc = "done" /\ upload'.pData = upload.pData
        /\ upload'.end = upload.end
    BY <1>1, <1>4 DEF Uploads
  <2>2. sizes' \in Sizes /\ sizes'.retries = 0
    BY <1>1, <1>4, Constants DEF Sizes
  <2>3. Types'
    BY <1>3, <1>4, <2>1, <2>2 DEF Types, Uploads, Sizes, Controllers
  <2>4. TypeInv'
    BY <1>1, <2>1, <2>2, <2>3, Constants DEF TypeInv, RetriesLeft, InOrder
  <2>5. ImageWhole'
    BY <1>2, <1>3, <1>4, CompleteWhole DEF ImageWhole
  <2> QED
    BY <2>1, <2>4, <2>5 DEF UploadInv, Order, AsNew, NothingMissing, SentAll, NotFinished
<1>5. ASSUME Held, sizes' = sizes, ipmc' = ipmc \/ (Complete /\ ipmc' = finished)
      PROVE  UploadInv'
  <2>1. /\ ipmc' \in Controllers /\ ipmc'.image = ipmc.image /\ ipmc'.wanted = ipmc.wanted
        /\ ipmc'.number = ipmc.number
    BY <1>1, <1>3, <1>5
  <2>2. Types'
    BY <1>1, <1>5, <2>1 DEF Held, Types, Uploads, Sizes, Controllers
  <2>3. TypeInv'
    BY <1>1, <1>2, <1>5, <2>2 DEF Held, TypeInv, RetriesLeft, InOrder
  <2>4. ImageWhole'
    <3>1. CASE ipmc' = ipmc
      BY <1>1, <3>1 DEF Order, ImageWhole
    <3>2. CASE Complete /\ ipmc' = finished
      BY <1>2, <1>3, <3>2, CompleteWhole DEF ImageWhole
    <3> QED
      BY <1>5, <3>1, <3>2
  <2>5. CASE upload'.pc = "failed"
    BY <2>3, <2>4, <2>5 DEF UploadInv, Order, AsNew, NothingMissing, SentAll, NotFinished
  <2>6. CASE SameBlock
    <3>1. /\ upload'.pc = "finish" /\ upload'.pData = upload.pData /\ upload'.end = upload.end
          /\ upload'.blockNumber = upload.blockNumber /\ upload'.totalSent = upload.totalSent
      BY <1>2, <2>6 DEF SameBlock
    <3>2. ~Pending /\ Len(ipmc.image) >= upload.totalSent
          /\ (Len(ipmc.image) = upload.totalSent => SentRight)
      BY <1>1, <1>2 DEF Order, NothingMissing
    <3>3. ~Pending' /\ (SentRight => SentRight')
      BY <2>1, <3>1, <3>2 DEF Pending, SentRight
    <3>4. /\ Len(ipmc'.image) >= upload'.totalSent
          /\ Len(ipmc'.image) = upload'.totalSent => SentRight'
      BY <2>1, <3>1, <3>2, <3>3, Zenon
    <3>5. NothingMissing'
      BY <3>3, <3>4 DEF NothingMissing
    <3>6. AsNew' /\ SentAll' /\ NotFinished'
      BY <1>1, <1>2, <3>1 DEF Order, AsNew, SentAll, NotFinished
    <3> QED
      BY <2>3, <2>4, <3>5, <3>6 DEF UploadInv, Order
  <2> QED
    BY <1>5, <2>5, <2>6 DEF Held
<1>6. CASE Fail /\ UNCHANGED <<sizes, ipmc>>
  BY <1>1, <1>5, <1>6, FailType DEF Held
<1>7. CASE SendAgain /\ UNCHANGED <<sizes, ipmc>>
  BY <1>1, <1>5, <1>7, SendAgainHolds
<1>8. CASE Complete /\ SendAgain /\ ipmc' = finished /\ UNCHANGED sizes
  BY <1>1, <1>5, <1>8, SendAgainHolds
<1> QED
  BY <1>4, <1>6, <1>7, <1>8 DEF HpmfwupgFinishFirmwareUpload, finished

LEMMA StageKeeps ==
    ASSUME UploadInv, HpmfwupgUpgradeStage
    PROVE  UploadInv'
<1>1. TypeInv /\ Order /\ upload \in Uploads /\ ipmc \in Controllers /\ sizes \in Sizes
  BY DEF UploadInv, TypeInv, Types
<1>2. /\ upload.pc = "done" /\ upload.component < Components
      /\ upload' = NewUpload(upload.component + 1) /\ sizes' = sizes /\ ipmc' = ipmc
  BY DEF HpmfwupgUpgradeStage
<1>3. upload.component + 1 \in 1..Components
  BY <1>1, <1>2, Constants DEF Uploads
<1>4. upload' \in Uploads
  BY <1>2, <1>3, NewUploadType, Zenon
<1>5. /\ upload'.pc = "initiate" /\ upload'.pData = 0 /\ upload'.end = Length
      /\ upload'.totalSent = 0 /\ upload'.blockNumber = 0
  BY <1>2 DEF NewUpload
<1>6. Types'
  BY <1>1, <1>2, <1>4 DEF Types, Uploads, Sizes, Controllers
<1>7. TypeInv'
  BY <1>1, <1>2, <1>5, <1>6, Constants DEF TypeInv, RetriesLeft, InOrder
<1> QED
  BY <1>1, <1>2, <1>5, <1>7
  DEF UploadInv, Order, AsNew, NothingMissing, SentAll, NotFinished, ImageWhole

LEMMA SameUpload ==
    ASSUME UploadInv, UNCHANGED <<upload, sizes, ipmc>>
    PROVE  UploadInv'
BY DEF UploadInv, TypeInv, Types, RetriesLeft, InOrder, Order, AsNew, NothingMissing, Pending,
       Count, SentRight, StoredRight, SentAll, NotFinished, ImageWhole

LEMMA UploadNext == UploadInv /\ [Next]_vars => UploadInv'
<1> SUFFICES ASSUME UploadInv, [Next]_vars PROVE UploadInv'
  OBVIOUS
<1>1. CASE HpmfwupgInitiateUpgradeAction
  BY <1>1, InitiateKeeps
<1>2. CASE BlockAccepted
  BY <1>2, AcceptedKeeps
<1>3. CASE \/ BlockTooLong \/ BlockRefused \/ BlockRetried
           \/ BlockAnswerWrongSize \/ BlockInaccessible \/ BlockLost \/ AnswerLost
  BY <1>3, BlockKeeps
<1>4. CASE BlocksDone
  BY <1>4, DoneKeeps
<1>5. CASE HpmfwupgFinishFirmwareUpload
  BY <1>5, FinishKeeps
<1>6. CASE HpmfwupgUpgradeStage
  BY <1>6, StageKeeps
<1>7. CASE UNCHANGED vars
  BY <1>7, SameUpload DEF vars
<1>8. CASE Busy
  BY <1>8, SameUpload DEF Busy
<1> QED
  BY <1>1, <1>2, <1>3, <1>4, <1>5, <1>6, <1>7, <1>8 DEF Next, Step

LEMMA UploadInvariant == Spec => []UploadInv
BY UploadInit, UploadNext, PTL DEF Spec

(* The variables of an upload keep their types: the pointer into the image *)
(* stays inside it and in front of the end, whatever sections the          *)
(* controller asks for, the block's length does not become negative        *)
(* however often it is shortened, and errorCount stops at its limit.       *)
THEOREM UploadTypeCorrect == Spec => []TypeOK
<1>1. Init => busy \in BOOLEAN
  BY DEF Init
<1>2. busy \in BOOLEAN /\ [Next]_vars => (busy \in BOOLEAN)'
  BY DEF Next, Step, Busy, vars
<1>3. UploadInv /\ busy \in BOOLEAN => TypeOK
  BY DEF UploadInv, TypeInv, Types, TypeOK, Uploads, Sizes, Controllers
<1> QED
  BY <1>1, <1>2, <1>3, UploadInvariant, PTL DEF Spec

(* A controller that takes the end of the upload has the image it asked    *)
(* for, whatever blocks and answers were lost, shortened and sent again,   *)
(* for images, blocks and sections of any length.                          *)
THEOREM UploadedWhole == Spec => []ImageWhole
<1>1. UploadInv => ImageWhole
  BY DEF UploadInv, Order
<1> QED
  BY <1>1, UploadInvariant, PTL

=============================================================================
