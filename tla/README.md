# Verification of ipmitool

TLA+ models, TLC runs and TLAPS proofs for ipmitool, the command line client of the
Intelligent Platform Management Interface: the RMCP+ network core (requests, sessions, Serial
over LAN), the event daemon and the event log, the reading of sensor data records, the upload
of firmware by HPM.1, and every command that sends requests. The models translate the C
program. The repository also has a port to Zig, which follows the C code function by function
and is compared with it by the repository's own tests.

## The system

ipmitool is one process with one thread. A command (`lib/ipmi_*.c`) builds a request and calls
`intf->sendrecv()`; an interface (`src/plugins/*`) carries it to the management controller, the
BMC, and returns the response or null. What is hard is at the other end of the socket:
datagrams are lost, late, repeated and reordered; the BMC refuses, forgets or drops sessions;
other consoles clear its logs, change its records and take its reservations. What one call
leaves in the globals of the interface is what the next one starts from, and what a command
returns is all that a script learns.

| Component | State | Operations | What is hard | What makes it correct |
|---|---|---|---|---|
| RMCP+ request engine (`lanplus.c`) | `ipmi_req_entries`, `curr_seq`, `session->timeout`, the static `rsp`, `intf->noanswer` | `ipmi_lanplus_send_payload`, `ipmi_lan_poll_single` | late and repeated answers, wrapping numbers, bridged requests answered in parts, SOL packets in between | a call returns its own answer or none; it returns; it leaves no trace |
| RMCP+ session and RAKP (`lanplus.c`, `lanplus_crypt.c`) | `session->v2_data`, `intf->opened`, `intf->abort` | `ipmi_lanplus_open`, `_open_session`, `_rakp1`, `_rakp3`, `_close` | answers of an earlier attempt, a silent or refusing BMC, reopening | both sides hold the same session and share the keys; open ends; what was opened is closed |
| Serial over LAN (`lanplus.c`, `ipmi_sol.c`) | sequence numbers, the last packet received, keepalive counters | `ipmi_lanplus_send_sol`, `_recv_sol`, `processSolUserInput`, `ipmi_sol_red_pill` | repeated packets, partial acknowledgements, data before an acknowledgement | characters arrive once and in order; sends return |
| Event log and daemon (`ipmi_sel.c`, `ipmievd.c`) | last seen count and id; ids to list or delete | `selwatch_*`, `sel list`, `sel clear`, `sel delete` | the log changes between two requests, reservations are lost | every event is reported once; what is listed and removed is what was asked for |
| Sensor data records (`ipmi_sdr.c`, `ipmi_sdradd.c`) | iterator, reservation, `sdr_max_read_len`, the list of records read | `ipmi_sdr_get_header`, `_get_record`, the lookups | lost reservations, refused sizes, one iterator for all lookups | records are whole, none is left out |
| HPM.1 (`ipmi_hpmfwupg.c`) | position, block length and number, static counters | `HpmFwupgActionUploadFirmware`, `HpmfwupgSendCmd` | lost answers to blocks, shortening, sections, busy controllers | the controller gets the image it asked for; the upgrade ends |
| Commands (the other `lib/ipmi_*.c`) | `intf->target_addr`, "set in progress" of groups of parameters | one function per request, `*_main` to dispatch | one request of several fails; results replaced or dropped; early returns | the exit status is honest, locks are released, the target is restored, missing answers are not read, retries end |

`PROJECT.json` lists every component with its sources, and under `hazards` the places in the
code where something can go wrong that a test would hardly reach.

## The modules

| Module | Models |
|---|---|
| `LanplusRequest` | one command over a session: the retry loop, the request list, `ipmi_lan_poll_single()` |
| `IpmiRpc` | what `sendrecv` promises: one call at a time, ended by its own answer or by none |
| `LanplusSession` | open and close, the RAKP handshake, the BMC's side of it |
| `LanplusSol` | Serial over LAN and the loop of `sol activate` |
| `SelDevice`, `SelPolling`, `SelCommands`, `SelSystem` | the log; the daemon; the sel commands; daemon and commands on one log |
| `SdrReader` | lookups of sensor records while another console changes the repository |
| `HpmUpload` | the upload of firmware components in blocks |
| `CommandSteps` | the notation for commands |
| `McCommands`, `ChassisCommands`, `ChannelCommands`, `LanCommands`, `PefCommands`, `SolCommands`, `SdrCommands`, `DcmiCommands`, `FruCommands`, `PicmgCommands`, `FirewallCommands`, `DellCommands`, `SunCommands`, `FirmwareCommands`, `HpmCommands`, `MainCommands` | the functions of one or a few source files each, named at the top of the module, or of its part |
| `CommandTable`, `CommandRunner` | all functions by name; one run of the program |
| `CommandFlow` | what can be said of every place of every function, for the proofs about `CommandRunner` |
| `LanplusRequestProofs`, `LanplusSessionProofs`, `LanplusSolProofs`, `LanplusSolInputProofs`, `SelSystemProofs`, `SdrReaderProofs`, `HpmUploadProofs`, `CommandRunnerProofs` | the theorems about these modules |
| `MC...` | the instances for TLC |

Definitions keep the names of the C functions they translate; `map` in `PROJECT.json` gives the
lines of those and of all others. A definition whose comment begins with "Slip" is a plausible
mistake in the definition that follows it, used to see that a property would notice.

### LanplusRequest

The console runs undisturbed between two receptions, so an action reaches from a reception
(or from the caller) to the next one. `ipmi_lanplus_send_ipmi_cmd` and `ipmi_mc_reset` start a
call and transmit; `Retransmit` is the loop coming round with `xmit` set; `PollTimeout`,
`InvalidAuthCode`, `ReceiveIpmi` and `ReceiveSol` are the outcomes of `ipmi_lan_poll_recv()`, each
with everything `ipmi_lanplus_send_payload()` does until it waits again or returns. The list is a
set of entries with their position; `First(Matches(...))` is `ipmi_req_lookup_entry()`.
`ReadMessage` is one pass of the loop in `ipmi_lan_poll_single()`, bridging included.

Two details are easily overlooked. The response is static, so `ccode` is whatever the last
IPMI message stored, also when a SOL packet is returned; and `entry` is read after
`ipmi_lan_poll_single()` may have freed it, so `AfterNull` then removes any entry or none.

The network is `reqs`: the requests sent during the last `SeqMod` calls. Any of them may be
answered at any reception, any number of times, with any completion code and, if bridged, in
any of the splittings a BMC may choose (`Answers`, external). An answer that is older than a
whole round of sequence numbers is excluded: nothing in the protocol can recognise it.
`Faults` switches on what goes beyond loss and delay: `send(2)` failing, SOL traffic, a cold
reset, packets with a wrong authcode (also for `recv(2)` failing, which ends the wait alike).

### LanplusSession

`pc` is the place in `ipmi_lanplus_open()`; `msgs` holds every datagram ever sent, and any of them
can be received at any time, because all message tags are 0. What `ipmi_lan_poll_single()`
discards because of the session state is no step. Keyed hashes are tuples of their key and
inputs: two are equal exactly if all they cover is equal. Inputs that never change in a run
(the console's id, GUID, role, user name) are left out. `stale` records that the static
`ccode` is 0xcf from an earlier command, which makes `ipmi_lanplus_send_payload()` throw away
handshake messages. `reopen` follows `HpmfwupgSendCmd()`, the only caller that closes and reopens.

### LanplusSol

The characters of each direction are numbered, so that a lost, doubled or displaced one can be
seen. `pc` says whether the console is at `select(2)` in `ipmi_sol_red_pill()`, in
`ipmi_lanplus_send_sol()` or in `ipmi_lanplus_keepalive()`; an action runs from there to the next
reception. `SendReceives` is one pass of the SOL branch of `ipmi_lanplus_send_payload()` with its
outcomes: the partial acknowledgement, after which the rest is sent under a new number; the
full one, or a refusal; data that end the wait before the acknowledgement came; neither.
`SendTimeout` is a send without an answer, upon which `processSolUserInput()` sends again.
`SelectFails` and `LoopReceivesNull` are the two ways the loop ends by itself, with different results.
`LateAnswer` is the answer to a keepalive that was given up while its request stayed listed.

The BMC is external: one packet outstanding, repeated until all of it is acknowledged, perhaps
with characters added. It accepts any part of a packet, also none, with a NACK or without one:
`is_sol_partial_ack()` takes "0 accepted" without a NACK for a partial acknowledgement (lines
2412-2417 stop it for `intelplus` only, which the model does not have), and the same characters go
out again. The network loses and delays packets but keeps their order: a packet
overtaken by its successor cannot be told from a new one by a code that remembers only the
last number. `ipmi_sol_activate` starts with empty queues, because the waits for the answers to
Deactivate and Activate Payload use up what is under way.

The code has no exact promise to check, so the properties say where it may fail, and histories
record when that happened: `presumed` (a send was taken for done without the acknowledgement of
all its characters), `resent` (input was sent again under a new number), `dropped` (characters
acknowledged whose packet the caller throws away), `clash` (the payload was activated while the
number 1, with which the BMC starts, was the last one remembered), `reused` (a sequence number was
taken again with a packet or an acknowledgement of its last use still under way). Outside these
five nothing is lost, doubled or displaced.

`reused` is there because of the proof. Without it `InputOnce` is false: when the numbers have gone
round, a packet left over from a number's last use is taken for the new one and acknowledged in
its place, or an acknowledgement left over is taken for a partial one of the new packet, and
characters are sent twice (TLC shows it with `MaxSeq = 2`, `Retry = 1`, `Limit = 1`, four packets under
way to the BMC and four characters typed). The code cannot tell either: it compares the four
bits of the number and nothing else. The theorem `InputSentExactly` says that
this takes a send that was presumed done.

`unanswered` counts the numbers taken since a send was last answered. When it comes to `MaxSeq`, a new
packet has the number of the last one the BMC saw and is taken for its repetition, so
`InputComplete` speaks of the time before. The code has 15 numbers; it gives up on input after 4
attempts and ends the session after 7 keepalives, so that a round takes breaks, or input and
keepalives in turn, on a line on which nothing is answered. Breaks and keepalives that are answered
do not count, however many there are. `InputOnce` does not depend on it.

### The event log

`SelSystem` composes the daemon (`SelPolling`) and a second console (`SelCommands`) on one log
(`SelDevice`). An action is one request with what follows it; between two requests of either
the BMC logs events and reservations are lost. `selwatch_check` compares the number of entries
with that of the last poll, `selwatch_get_lastid` and `selwatch_read` walk along the log,
`EntryNotRead` is an entry that cannot be read, twice. `savelist_info`, `savelist_skip` and
`savelist_list` are the three parts of `__ipmi_sel_savelist_entries()`. Events logged before the
end of `selwatch_setup()` are not for the daemon to report; `base` counts them.

The daemon goes by counts. If records are removed and as many are logged between two polls,
events go unreported; so completeness (`ReportedWithoutGap`, `EventReported`) is stated for logs
nobody removes records from, `ReportedOnce` for all. Completeness also excepts readings that
stopped short: a next id of 0 twice ends one before its end, and it is taken up when the count
grows. The retry of an id 0 in the skipping loop
of "list last" asks for the first record again (`ipmi_sel.c` 2323); `ListedLast` speaks of lists
without failures, where this does not happen.

### SdrReader

`ipmi_sdr_find_sdr` stands for the lookups by number, by type, by id, by entity and for
`ipmi_sdr_list_cache()`, which have the same loop: search the list, then read on from where the
shared iterator stands, putting every record into the list. A record has generations: another
console (`Change`) replaces or deletes it, or only reserves the repository. `GetHeader`,
`HeaderUnread`, `HeaderUnreserved` are the outcomes of a Get SDR in `ipmi_sdr_get_header()`;
`GetPiece`, `PieceUnread`, `PieceRefused`, `PieceUnreserved` those in `ipmi_sdr_get_record()`. Data is
the sequence of the generations its bytes come from, which is how a torn record is seen.

`RecordWhole` has one exception, which the code has: after a lost reservation the piece is read
again under a new one, and what was read before is kept, although the record may be another
one by now. `passed` are the records that could not be read; no later lookup finds them.

### HpmUpload

The blocks of two components over a network interface. The controller takes blocks of up to
`fits` bytes, refuses longer ones or drops them without an answer; it takes a block with the
number of the one before for a retransmission; it may answer with another section; it accepts
the end when the length it is sent is the length it has. `NoAnswer` is the answer that
`HpmfwupgSendCmd()` makes up so that a block is shortened; `BlockRetried` a completion code of the
bus, counted up to `RETRY_COUNT_MAX`; `BlockInaccessible` a controller that says it is away.
`BlockAnswerWrongSize` is a block accepted in an answer of a wrong size: lines 1770-1779 make it a
checksum error, which is retried, but `HpmfwupgSendCmd()` saw the completion code OK and has set
`errorCount` to 0, so that this is never counted (`Retry(0)`). While the controller is `busy`, its
answer to every request is that it is, and `HpmfwupgSendCmd()` sends again (lines 2249-2261); the
time limit does not count either, so the program stays where it is until `Busy` changes. Both are
named in `UploadEnds` as what can keep an upload going for ever.

The made-up answer also marks the length as valid, so that a length is shortened this way only
once in the life of the program, and `HPM_LAN_PACKET_RESIZE_LIMIT` is never reached: over a
network that drops long blocks silently the upload fails where it could go on. That is
allowed by `ImageWhole`, which is about what the controller is made to believe.

### The commands

A function that sends requests is a record of places (see `CommandSteps`):

    set_lan_param(set) ==
        [start |-> Do("ipmi_lanp_lock", "set"),
         set   |-> CallOr(set, "fail", "done"),
         fail  |-> Do("ipmi_lanp_unlock", "err"),
         done  |-> Do("ipmi_lanp_unlock", "ok")]

A place sends a request (`Get`, `Put`, `Lock`, `Unlock`) and says where to go on without an answer,
with a completion code and with success; calls another function (`Call`, `CallOr`, `Do`) and says
where to go on by the sign of its result; branches on arguments or data, either way; is the head
of a loop with a bound of its own (`Loop`, at most `Rounds` rounds) or of one without (`Repeat`: whether
it goes round again is for the BMC or the user to say); changes the target; or sets and tests a
variable. The function returns at "ok", "err"
or "pos". The sign matters because `main()` exits with failure for negative results only. What is
not kept are the texts printed and the meaning of arguments and answers.

`CommandRunner` runs one command of `ipmitool_cmd_list`: `ipmi_main()` with the discovery of the
target, the command, the exit. The stack of calls is state; so are the requests whose last try
did not succeed (`refused`), the groups of parameters the BMC has "set in progress" (`locked`), and
`intf->target_addr` (`target`). A request that is not answered may have been carried out. Requests are
known by what they write, not by the object they write it to: the same write succeeding later,
perhaps for another sensor or user, settles an earlier failure (`Settled`). `ExitHonest` is so about
failures nothing made good; a loop over objects that goes on after a failure is seen only by a
flag or result it keeps.

The properties of a run are general, and the code does not keep them everywhere. The places
where it does not are the constants of `CommandRunner`, given in `MCCommands`; no element of them
can be left out, and beyond them nothing fails:

- `Unreported`, requests whose failure does not reach the exit status. Some are meant (a commit
  the BMC need not know, a cold reset that is not answered, deactivating a payload on the way
  out). Others are results dropped or replaced: `ipmi_firewall.c` 1144-1149 keeps the result of
  the last write of a loop; `ipmi_hpmfwupg.c` 1393 replaces a failed activation by the result of
  asking for the rollback; `ipmishell.c` 501-503 lets a positive result replace an earlier -1;
  `ipmi_gendev.c` 605, `ipmi_kontronoem.c` 156-166 (`LargeBuffer` among them), `ipmi_tsol.c` 149-161 do not look at it (the last
  only with `-v`); `ipmi_fru.c` 3902 takes the 1 that `write_fru_area()` returns for success as a
  failure, and the failure for success; functions that return a completion code, which is
  positive.
- `LeftLocked`: `ipmi_sol.c` 1072-1075 returns without "set complete" when its write is not
  answered; the boot options and lan6 have similar returns.
- `Stale`: copying sensor records from another controller leaves `intf->target_addr` there when the
  iterator cannot be started (`ipmi_sdradd.c` 308). "set targetaddr" is meant to.
- `Unchecked`: `ipmi_sdradd.c` 279-280 reads the name of a record that may be null.
- `Endless`, functions with a loop that nothing in the code bounds. `ipmi_hpmfwupg.c` 2254 sets the
  start of the wait before it adds the difference, so the time limit for a busy controller is never
  reached, and 1770-1779 resend a block whose answer has a wrong size without counting;
  `ipmi_fwum.c` 836 says of itself that it loops for ever, and 874-888 reset the retry counter with
  every block that succeeds and step back with every one that fails; `ipmi_sdr.c` 3226-3240 reserve
  and read again as long as the reservation is cancelled; `ipmi_sunoem.c` 1251-1296, 1656-1705 and
  2209-2265 go on as long as the server has data or names; `ipmi_cfgp.c` 368-412 and
  `ipmi_dcmi.c` 1370 as long as the answer says there is more; `ipmi_dcmi.c` 1607 repeats a request
  that failed. The consoles and the shell go on as long as the user does.

## The runs

| Run | Shows | Bounds |
|---|---|---|
| `request` | `ipmi_lanplus_send_payload()` implements `IpmiRpc`, and an acknowledgement of a bridge is never taken for the target's answer | 4 calls on 3 sequence numbers, 2 tries, 2 commands, 0 to 2 bridges: the numbers wrap while old answers are about |
| `request_faults` | with all faults every call returns; as long as no call left its entry behind, answers match and the timeout is restored | 3 calls on 2 numbers, 2 tries |
| `session` | the parties of an active HMAC session share the keys, and the session | 2 keys, with and without a BMC key on each side, 2 attempts, 2 BMC sessions |
| `session_reopen` | the same over a close and a reopen; an active session is closed; open returns | 2 opens, 1 attempt each |
| `sol` | the BMC gets every character of the input unless a send was presumed done or a round of numbers went unanswered, and none twice unless it was resent or a number was reused too early | 2 characters typed in reads of one or, with an escape, two; 1 printed; a break or keepalive; 2 tries, 3 numbers, 2 packets under way to the BMC |
| `sol_session` | every character acknowledged is printed once and in order, or dropped where the code drops it; every send returns, unless the BMC for ever acknowledges and accepts nothing | 2 characters printed in one or two packets, 1 typed, a break or keepalive, 2 activations |
| `sel` | the daemon reports each event once and, of a log nobody removes from, every one; the list shows the last entries; only what was asked for is removed, or the command fails | 4 events, 1 command, 1 failed request or lost reservation |
| `sdr` | records are whole but after a renewed reservation, none that could be read is left out, lookups end | 3 records in up to 3 pieces, 2 changes, 2 lookups, 2 tries for a header |
| `hpm` | what the controller takes for complete is what it asked for; the upload ends, unless the controller for ever answers in a wrong size or is for ever busy again | 2 components of 8 bytes, blocks of 5 and less, numbers modulo 3, sections ahead, behind, empty and out of range |
| `commands` | the five properties of commands, with the exceptions above | all commands, 2 rounds of every counted loop, any number of the others |
| `session_opened` | success is logged, and at user privilege returned, after all attempts timed out | 1 open, 2 attempts |
| `request_duplicate` | a comment is not kept: after Duplicate Request the poll has nothing to match | 2 calls |

The last two are expected violations; `findings` in `PROJECT.json` quotes the lines they
contradict. Deadlock is checked in `commands`; the other models stop when the bound on calls or
lookups is used up, as the program does when it exits.

Sequence numbers, tries, keys and lengths matter by equality, by their wrapping and by what fits
into what, so two or three of each reach the interesting cases: a reused number, a retry after a
late answer, an answer of the previous attempt, a block cut twice, a record torn between two
pieces. Two rounds of a loop reach "the last result replaces the first".

### Fairness

`LanplusRequest` asks that `PollTimeout` and `Retransmit` are not put off for ever: `select(2)` has a
timeout, and the console has nothing else to run. It is an assumption about the network too:
`ipmi_lan_poll_recv()` starts a fresh wait after every datagram it discards, so a stream of stray
datagrams without a pause would keep a call waiting. `LanplusSession` asks for weak fairness of
the console's own steps. `LanplusSol` asks that a wait ends, by a packet or by the timeout of `select(2)`, and leaves open by
which: packets may come in every wait. A send then ends because every round of the loop for
partial acknowledgements has fewer characters left, and the exception of `SendReturns` is the round
that has as many. `SelSystem`, `SdrReader`, `HpmUpload` and `CommandRunner` ask that the program goes on:
a request is answered or times out, which is what `CallReturns` says. `HpmUpload` asks nothing of a
busy controller. None assumes that the BMC ever answers,
or that other consoles do anything.

## The proofs

Every safety property the passing runs check but `NoCrash` is also proved, for every value of the
constants. None of them is inductive by itself: each proof module begins with the
inductive invariant, in named parts, has one lemma for each action, and ends with the theorems.
TLC has checked each of these invariants on the instances of the runs.

### LanplusRequestProofs

For every set of commands, every number of tries, sequence numbers and calls, and every set of
faults: `TypeCorrect`; `Invariance`, the inductive `RequestInvariant`; `ResponsesMatch`,
`BridgedAnswersAreTargets` and `TimeoutsRestored`, the safety properties; and `ImplementsRpc`: where
`Faults` is within `{"bad_auth"}`, `Spec` implements the safety part of `IpmiRpc`.

`RequestInvariant` adds why they hold: until a call leaves an entry behind (`left`), the list holds
at most one entry, that of the current call, with a command that agrees with its bridging level
(`ListClean`); and every request that can still be answered was sent fewer than `SeqMod` calls ago
and has the number that lies as many steps back (`Window`, `SeqBack`). A response that matches the
entry has the current number, hence comes from the current call: two calls less than `SeqMod`
apart have different numbers (`SeqBackDistinct`). The assumptions are those named in
`LanplusRequest`: the numbers are positive, and Send Message is not among the callers' commands.
`left` is not an excuse of the proof. The three ways to set it (a failed send, a cold reset, a SOL
packet) are real, and behind them the properties are false.

### LanplusSessionProofs

For any number of attempts, openings and BMC sessions, any passwords and BMC keys:
`SessionTypeCorrect`, `SessionsAgree` (`ActiveAgreement`), `SessionsAuthenticated`
(`MutualAuthentication`) and the action property `ActiveSessionsClosed` (`ClosesWhatItOpened`).

The handshake is proved from the hashes. `SessionInv` says of every datagram ever sent that its
hash is one of the BMC's own keys, and of a RAKP 4 that it is the hash of a session the BMC has
activated (`MessagesSound`); that from RAKP 3 on the console's integrity key is derived from the two
random numbers (`Rakp2Checked`); and that a session is active only behind the retry loop
(`ActiveBehindLoop`). A RAKP 4 the console accepts, from whichever attempt, is then the hash of a
session with the console's own key, numbers and id, so of its own.

### LanplusSolProofs

For any retry limit, packet size and number of packets under way: `SolTypeCorrect`,
`OutputPrintedOnce` (`OutputOnce`) and `OutputPrintedWhole` (`OutputComplete`).

What the BMC prints is a stop-and-wait protocol in which a repetition may be longer than the
packet it repeats, and the console prints what is new of it. `OutputInv` describes both channels:
a packet on its way is one of what is outstanding, not shorter than what the console has seen of
it, or a repetition of the last one it saw; repetitions come first (`PacketsFor`); an
acknowledgement covers no more than was seen (`AcksFor`); and the characters up to the last one seen
are on the terminal in order, or dropped (`Printed`). It needs that the network keeps the order,
which the model assumes, and fails after a `clash`.

### LanplusSolInputProofs

The other direction, for any retry limit, packet size and number of packets under way:
`InputSentOnce` (`InputOnce`), `InputSentWhole` (`InputComplete`), and `InputSentExactly`, which joins the
two: input that was never presumed done nor sent again by `processSolUserInput()` is at the BMC
whole, in order and once, and no number has come round too early, until `MaxSeq` numbers in a row
have gone unanswered.

It is a stop-and-wait protocol too, but the console gives up, takes a new number for the rest of
a packet or for a retry, and goes on; so packets of several numbers may be under way, and the BMC
recognises only repetitions of the last. A step is first brought into one of twelve forms that
say what it does to the input (`Form`, lemma `NextForm`: `StartsInput`, `SendsRest`, `Waits`, `BmcTakes`
and so on); the parts of the inductive `InputInv` are proved form by form.

- `NumbersInv`, while no number was reused too early: packets with the number of the one being
  sent are copies of it, and behind them there is no other; once it has been acknowledged there is
  no other at all, and the acknowledgement says what the BMC has kept (`Numbers`).
- `AgesInv`: while nothing was presumed and fewer than `MaxSeq` numbers in a row went unanswered
  (`Kept`), no number under way, nor the BMC's last one, was taken longer ago than `unanswered`, which
  an acknowledgement sets to 0. So the next number is not under way: `Kept => ~reused`.
- `ValuesInv`: all characters there are were typed; a break and a keepalive carry none.
- `WholeInv`: what was typed has arrived or is in the packet being sent, and what the BMC accepted
  of that packet has arrived.
- `OnceInv`, the part that is hard to find: packets the BMC will not take for repetitions carry
  what it has not got, in order, and those of one number stand together (`InOrder`); the packet being
  sent could be put in once more without a change to that, and what the BMC did not accept of it
  is above all it has (`MaySendAgain`).

The one assumption on numbers is `MaxSeq >= 2`; breaks and keepalives are not bounded. `InputSentWhole`
and `InputSentExactly` hold up to the first full round without an answer, `InputSentOnce` behind it
too. TLC checked every part on four instances, up to four packets under way, before
it was proved.

### SelSystemProofs

For any number of events, failures and commands: `SelTypeCorrect`, `EventsReportedOnce`,
`EventsReportedWithoutGap`, `LastRecordsListed`, `RemovedAsReported`. The one assumption beyond types is
that events are fewer than ids (`MaxEvents < End`): a log whose ids wrap is not modelled.

The log is sorted by id and by event whatever is removed (`LogSorted`). What the daemon has yet to
visit is newer than all it has reported, at each of its places (`OnceInv`); while nothing is removed
the nth record is the nth event (`Unremoved`), and all up to the daemon's place are reported (`GapInv`).
`Listing` counts how far "list last" has gone past the entries it must not show; `RemovedInv` says
that the ids a delete has not carried out are among those it still has to ask for.

### SdrReaderProofs

For any number of records, lengths, changes and lookups: `SdrTypeCorrect`, `RecordsWhole`,
`WalksComplete`. `UnderWayWhole` says that what has been read is of the generation of the header, and
that the repository has not gone on to another while the reservation holds. `Accounted` says of
every record nobody has touched that the list has it once if the iterator is past it and it
could be read, and not otherwise. The
record that follows another is the one with the least greater id, which exists by the library's
theorem on well-founded orders.

### HpmUploadProofs

For images, blocks and sections of any length and any number of components and tries:
`UploadTypeCorrect` and `UploadedWhole` (`ImageWhole`). The difficulty is the block whose answer was
lost: the controller has it and the program does not know (`Pending`). `NothingMissing` says for both
cases that the controller has at least as many bytes as the program has counted, and the right
ones if it has exactly as many. It has more if a block was shortened after it had been stored; the
length sent at the end is then wrong, and the controller refuses.

### CommandRunnerProofs

For any number of rounds of every loop (lines of a script, entries of a list, tries), where TLC
has two: `CommandTypeCorrect`, `ExitsHonestly`, `TargetsRestored`, `GroupsReleased`.

The proof does not look into the functions. It rests on tables (`CommandFlow`) that say of each
place of each function which requests may have failed and which groups may be locked since its
entry (`May`), which older failures are settled by then (`Cleared`), where the target may be another
(`Shifted`), which places are reached, which flags are reset, which functions may call `exit()`. A
table must be closed under the steps of the function and under what the functions it calls
return (`FunctionClosed`); how it was found does not matter. `MCCommands` computes the sharpest ones,
and TLC evaluates in every run of `commands` that they are closed (`TablesAssumption`), and that they
allow no exception beyond `Unreported`, `Stale` and `LeftLocked` (`ReportedAssumption`,
`RestoredAssumption`, `ReleasedAssumption`). These are assumptions of the module, no hypotheses of a
theorem. `RunInv` relates a state to the tables: every fact
that is true has an entry in the table of some frame of the stack, whose flags are noted, and no
frame above has settled it since (`Known`); a frame whose target is not that of its entry is at a
place of `Shifted` (`TargetInv`).

### Only model-checked

All liveness properties (`CallReturns`, `OpenReturns`, `SendReturns`, `EventReported`, `CommandEnds`,
`UploadEnds`, `LookupEnds`) and the fairness of `IpmiRpc`, which the prover cannot handle; `NoCrash`,
for which a table of what was checked would say little more than the property; and that the tables of `CommandFlow` are closed, a fact about the particular table
`Code`, which is finite and which TLC evaluates.

## Plan

Done: the request engine, the session, Serial over LAN, the event log, sensor records, HPM.1 and
the commands, with the proofs above. Next:

1. A byte stream in each direction as the abstract specification of `LanplusSol`; its steps are those
   the forms of `LanplusSolInputProofs` name.
2. `LanRequest`: the v1.5 interface (`plugins/lan/lan.c`) with its own request list and session,
   refining `IpmiRpc` too where it can.
3. `FruAreas`: what `write_fru_area()` leaves on the device when writes are cut short or refused,
   and the moving of areas by "fru edit".

## Not modelled

Byte layouts, checksums, the hash and cipher algorithms, OEM quirks of the handshake, the
negotiation of integrity and confidentiality algorithms beyond its success, the v1.5, serial and
device interfaces, option parsing, the electronic keying analyzer (it reads files and sends
nothing), and the decoding and printing of answers. The BMC is modelled as the code uses it and
marked external.
