--------------------------- MODULE SmtpTransport ---------------------------
(***************************************************************************)
(* The two SMTP clients of the system, each talking once to a relay over a *)
(* TCP connection: dispatch, with which a worker hands over a mail, and    *)
(* the probe with which an administrator tests a node.                     *)
(*                                                                         *)
(* dispatch keeps no protocol state.  It appends what arrives to a       *)
(* transcript; once a line of it after the first is "220 ..." it writes    *)
(* the whole conversation in one go, and as soon as one is "250 ...",      *)
(* "421 ...", "550 ..." or "554 ..." it destroys the socket and takes the  *)
(* first code of the transcript for the relay's verdict.  The probe says   *)
(* EHLO and QUIT once and waits for any 250, 4xx or 5xx.  The relay reads  *)
(* the commands one after the other, at its own pace, and goes on reading  *)
(* what arrived before the socket was destroyed.                           *)
(***************************************************************************)
EXTENDS Naturals, Sequences

CONSTANTS
  Clients,      \* which of the two clients may be at work
  Refusals,     \* reply codes with which a relay may refuse
  MaxEnvelopes, \* bounds the model: envelopes written in one dialogue
  FaultBudget   \* how often each kind of fault may strike: bounds the model

(***************************************************************************)
(* refuse:   the relay refuses a connection or a command                   *)
(* lost:     the connection breaks: the client gets an error, or what it   *)
(*           wrote and the relay has not read is gone                      *)
(* odd:      an error whose text the client does not know (EHOSTUNREACH)   *)
(* shutdown: the relay says 421 on its own account and closes              *)
(***************************************************************************)
FaultKinds == {"refuse", "lost", "odd", "shutdown"}

ASSUME SmtpAssumption ==
  /\ Clients \subseteq {"dispatch", "probe"}
  /\ Refusals \subseteq 400..599
  /\ MaxEnvelopes \in Nat \ {0}
  /\ FaultBudget \in [FaultKinds -> Nat]

VARIABLES
  stage,       \* relay: what it waits for, or "closed"
  inbox,       \* relay: commands that arrived and are not read yet
  wire,        \* reply lines on their way to the client
  mode,        \* which client this is
  transcript,  \* client: reply lines received
  written,     \* client: envelopes written
  outcome,     \* client: what it returned, or "pending" or "hung"
  taken,       \* copies of the mail the relay took over (ground truth)
  faults       \* faults that struck so far

relay  == <<stage, inbox, taken>>
client == <<mode, transcript, written, outcome>>
vars   == <<stage, inbox, wire, mode, transcript, written, outcome, taken, faults>>

Stages == {"connect", "EHLO", "MAIL", "RCPT", "DATA", "message", "closed"}
Commands == {"EHLO", "MAIL", "RCPT", "DATA", "message", "QUIT"}
Codes == {220, 221, 250, 354, 500} \cup Refusals
Outcomes == [dispatch |-> {"accepted", "failed_transient", "failed_permanent"},
             probe    |-> {"ok", "not_ok"}]

(* A reply line: its code, and whether a blank follows it ("250 ok"), as   *)
(* on the last line of a reply, or a dash ("250-PIPELINING").              *)
Line == [code : Codes, last : BOOLEAN]

TypeOK ==
  /\ stage \in Stages
  /\ inbox \in Seq(Commands)
  /\ wire \in Seq(Line)
  /\ mode \in Clients
  /\ transcript \in Seq(Line)
  /\ written \in 0..MaxEnvelopes
  /\ outcome \in Outcomes[mode] \cup {"pending", "hung"}
  /\ taken \in Nat
  /\ faults \in [FaultKinds -> Nat]

Init ==
  /\ stage = "connect"
  /\ inbox = <<>>
  /\ wire = <<>>
  /\ mode \in Clients
  /\ transcript = <<>>
  /\ written = 0
  /\ outcome = "pending"
  /\ taken = 0
  /\ faults = [k \in FaultKinds |-> 0]

-----------------------------------------------------------------------------
(***************************************************************************)
(* The relay: any server that answers each command once, in order.         *)
(***************************************************************************)
One(code) == <<[code |-> code, last |-> TRUE]>>
Two(code) == <<[code |-> code, last |-> FALSE], [code |-> code, last |-> TRUE]>>

Reply(lines) == wire' = IF outcome = "pending" THEN wire \o lines ELSE wire

Strike(kind) ==
  /\ faults[kind] < FaultBudget[kind]
  /\ faults' = [faults EXCEPT ![kind] = @ + 1]

(* The banner has one line or several; a relay may refuse to talk at all.  *)
Greet ==
  /\ stage = "connect"
  /\ \E code \in {220} \cup Refusals :
       /\ \/ Reply(One(code))
          \/ Reply(Two(code))
       /\ IF code = 220
          THEN stage' = "EHLO" /\ UNCHANGED faults
          ELSE stage' = "closed" /\ Strike("refuse")
  /\ UNCHANGED <<inbox, taken, client>>

(* The command the relay waits for comes next in the inbox: it complies.   *)
Comply ==
  LET next == [EHLO |-> "MAIL", MAIL |-> "RCPT", RCPT |-> "DATA", DATA |-> "message",
               message |-> "MAIL"]
      code == IF stage = "DATA" THEN 354 ELSE 250 IN
  /\ stage \in DOMAIN next
  /\ inbox # <<>> /\ Head(inbox) = stage
  /\ \/ Reply(One(code))
     \/ stage = "EHLO" /\ Reply(Two(code))
  /\ stage' = next[stage]
  /\ taken' = IF stage = "message" THEN taken + 1 ELSE taken
  /\ inbox' = Tail(inbox)
  /\ UNCHANGED <<client, faults>>

(* It refuses the command, or gets one it does not wait for: a second      *)
(* EHLO, or a message it reads as commands because DATA was refused.       *)
Refuse ==
  /\ stage \notin {"connect", "closed"}
  /\ inbox # <<>> /\ Head(inbox) # "QUIT"
  /\ IF Head(inbox) = stage
     THEN Strike("refuse") /\ \E code \in Refusals : Reply(One(code))
     ELSE Reply(One(500)) /\ UNCHANGED faults
  /\ stage' = IF stage = "message" THEN "MAIL" ELSE stage
  /\ inbox' = Tail(inbox)
  /\ UNCHANGED <<taken, client>>

(* After QUIT the relay closes and reads nothing any more.                 *)
Quit ==
  /\ stage \notin {"connect", "closed", "message"}
  /\ inbox # <<>> /\ Head(inbox) = "QUIT"
  /\ Reply(One(221))
  /\ stage' = "closed"
  /\ inbox' = <<>>
  /\ UNCHANGED <<taken, client, faults>>

Shutdown ==
  /\ Strike("shutdown")
  /\ stage \notin {"connect", "closed"}
  /\ 421 \in Refusals
  /\ Reply(One(421))
  /\ stage' = "closed"
  /\ inbox' = <<>>
  /\ UNCHANGED <<taken, client>>

-----------------------------------------------------------------------------
(***************************************************************************)
(* The client.                                                             *)
(***************************************************************************)
(* Mutant: the conversation is written without its QUIT.                   *)
EnvelopeWithoutQuit == <<"EHLO", "MAIL", "RCPT", "DATA", "message">>

Envelope == <<"EHLO", "MAIL", "RCPT", "DATA", "message", "QUIT">>

(* transcript.includes('\n220 '): the first line has no newline before it. *)
Includes(lines, code) == \E i \in 2..Len(lines) : lines[i].code = code /\ lines[i].last

Ended(lines) == \E code \in {250, 421, 550, 554} : Includes(lines, code)

(* dispatch: the first code of the transcript decides; classifyFailure.    *)
Classify(lines) ==
  LET code == Head(lines).code IN
  IF code \in 200..299 THEN "accepted"
  ELSE IF code \in 400..499 THEN "failed_transient" ELSE "failed_permanent"

(* socket.on('data'): a chunk of any number of lines arrives.  On every    *)
(* chunk after the banner the envelope is written once more.               *)
Data ==
  /\ mode = "dispatch" /\ outcome = "pending"
  /\ \E n \in 1..Len(wire) :
       LET lines == transcript \o SubSeq(wire, 1, n)
           writes == Includes(lines, 220) IN
       /\ transcript' = lines
       /\ writes => written < MaxEnvelopes
       /\ written' = IF writes THEN written + 1 ELSE written
       /\ inbox' = IF writes /\ stage # "closed" THEN inbox \o Envelope ELSE inbox
       /\ IF Ended(lines)
          THEN outcome' = Classify(lines) /\ wire' = <<>>
          ELSE wire' = SubSeq(wire, n + 1, Len(wire)) /\ UNCHANGED outcome
  /\ UNCHANGED <<stage, taken, mode, faults>>

(* /(?:^|\n)250[ -]/.test(transcript): any line, the last of its reply or   *)
(* not.                                                                    *)
Says(lines, codes) == \E i \in DOMAIN lines : lines[i].code \in codes

(* The probe's handler: it writes once, and looks at answers only on the   *)
(* chunks after that.                                                      *)
ProbeData ==
  /\ mode = "probe" /\ outcome = "pending"
  /\ \E n \in 1..Len(wire) :
       LET lines == transcript \o SubSeq(wire, 1, n)
           writes == written = 0 /\ Says(lines, {220})
           result == CASE written = 0          -> "pending"
                       [] Says(lines, {250})   -> "ok"
                       [] Says(lines, 400..599) -> "not_ok"
                       [] OTHER                -> "pending" IN
       /\ transcript' = lines
       /\ written' = IF writes THEN 1 ELSE written
       /\ inbox' = IF writes /\ stage # "closed" THEN inbox \o <<"EHLO", "QUIT">> ELSE inbox
       /\ outcome' = result
       /\ wire' = IF result = "pending" THEN SubSeq(wire, n + 1, Len(wire)) ELSE <<>>
  /\ UNCHANGED <<stage, taken, mode, faults>>

Fail(result) ==
  /\ outcome = "pending"
  /\ outcome' = IF mode = "probe" THEN "not_ok" ELSE result
  /\ wire' = <<>>
  /\ UNCHANGED <<mode, transcript, written>>

(* Mutants: a timeout counts as a refusal; it is returned as it is; it     *)
(* resolves the transcript, and dispatch takes 250 for the code of an      *)
(* empty one.                                                              *)
TimeoutUnclassified ==
  /\ Fail("timeout")
  /\ UNCHANGED <<relay, faults>>

TimeoutIsFinal ==
  /\ Fail("failed_permanent")
  /\ UNCHANGED <<relay, faults>>

TimeoutResolves ==
  /\ Fail(IF transcript = <<>> THEN "accepted" ELSE Classify(transcript))
  /\ UNCHANGED <<relay, faults>>

(* socket.on('timeout'): nothing arrived for 15 seconds.                   *)
Timeout ==
  /\ Fail("failed_transient")
  /\ UNCHANGED <<relay, faults>>

(* socket.on('error') with ECONNREFUSED, ENOTFOUND or ECONNRESET.          *)
Lost ==
  /\ Strike("lost")
  /\ Fail("failed_transient")
  /\ inbox' \in {inbox, <<>>}
  /\ UNCHANGED <<stage, taken>>

(* The socket was destroyed before the relay had read everything.          *)
LoseRest ==
  /\ Strike("lost")
  /\ outcome # "pending"
  /\ inbox # <<>>
  /\ inbox' = <<>>
  /\ UNCHANGED <<stage, taken, wire, client>>

OddError ==
  /\ Strike("odd")
  /\ Fail("failed_permanent")
  /\ UNCHANGED relay

(* The relay has closed and everything it said was read: there is no       *)
(* handler for 'end' or 'close', so the promise is never settled.          *)
PeerClose ==
  /\ outcome = "pending"
  /\ stage = "closed" /\ wire = <<>>
  /\ outcome' = "hung"
  /\ UNCHANGED <<relay, wire, mode, transcript, written, faults>>

-----------------------------------------------------------------------------
Relay == Greet \/ Comply \/ Refuse \/ Quit
Next ==
  \/ Relay
  \/ Data \/ ProbeData \/ Timeout
  \/ Shutdown \/ Lost \/ LoseRest \/ OddError \/ PeerClose

(* TCP delivers and the relay reads what has arrived, also from a socket   *)
(* destroyed since; the timer of the socket runs while it is open.         *)
Fairness == WF_vars(Relay) /\ WF_vars(Data \/ ProbeData) /\ WF_vars(Timeout)
Spec == Init /\ [][Next]_vars /\ Fairness

-----------------------------------------------------------------------------
(***************************************************************************)
(* Properties.                                                             *)
(***************************************************************************)
Quiet(kinds) == \A k \in kinds : faults[k] = 0

(* However often the transcript makes dispatch write its conversation      *)
(* again, one call puts at most one mail into the relay: the QUIT at the   *)
(* end of the first conversation closes the door on the next.  A probe     *)
(* leaves none.                                                            *)
OneMailPerDialogue == taken <= IF mode = "dispatch" THEN 1 ELSE 0

(* A send is given up for good only when the relay has not, and will not   *)
(* have, the mail: a late or lost answer must end as transient.  An        *)
(* unknown error in the middle of the dialogue is the exception.           *)
PermanentIsUntaken == outcome = "failed_permanent" /\ Quiet({"odd"}) => taken = 0

(* dispatch calls a mail accepted on the relay's answer to EHLO, before    *)
(* the relay has read the rest.  It is right in the end when the relay     *)
(* reads on, stays up and refuses nothing.                                 *)
Interfered == ~Quiet({"refuse", "lost", "shutdown"})
AcceptedArrives == outcome = "accepted" ~> (taken = 1 \/ Interfered)
=============================================================================
