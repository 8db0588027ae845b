------------------------ MODULE SmtpTransportProofs ------------------------
(***************************************************************************)
(* Theorems about SmtpTransport: one dialogue leaves one mail at most, and *)
(* a send is not given up for good whose mail the relay has.               *)
(***************************************************************************)
EXTENDS SmtpTransport, SequenceTheorems, TLAPS

LEMMA Lines ==
  ASSUME NEW code \in Codes
  PROVE  One(code) \in Seq(Line) /\ Two(code) \in Seq(Line)
BY DEF One, Two, Line

LEMMA ReplyType ==
  ASSUME wire \in Seq(Line), NEW lines \in Seq(Line), Reply(lines)
  PROVE  wire' \in Seq(Line)
BY ConcatProperties DEF Reply

LEMMA StrikeType ==
  ASSUME faults \in [FaultKinds -> Nat], NEW kind \in FaultKinds, Strike(kind)
  PROVE  faults' \in [FaultKinds -> Nat]
<1>1. faults' = [faults EXCEPT ![kind] = faults[kind] + 1] /\ faults[kind] + 1 \in Nat
  BY DEF Strike
<1> QED
  BY <1>1

(* What arrives is split into the chunk read and the rest.                 *)
LEMMA Chunk ==
  ASSUME wire \in Seq(Line), transcript \in Seq(Line), NEW n \in 1..Len(wire)
  PROVE  LET lines == transcript \o SubSeq(wire, 1, n) IN
         /\ lines \in Seq(Line) /\ lines # <<>>
         /\ lines[1] = IF transcript # <<>> THEN transcript[1] ELSE wire[1]
         /\ SubSeq(wire, n + 1, Len(wire)) \in Seq(Line)
<1> DEFINE chunk == SubSeq(wire, 1, n)
<1>1. Len(wire) \in Nat /\ Len(transcript) \in Nat /\ n \in Nat /\ 1 <= n /\ n <= Len(wire)
  BY LenProperties
<1>2. \A i \in 1..Len(wire) : wire[i] \in Line
  BY ElementOfSeq
<1>3. chunk \in Seq(Line) /\ Len(chunk) = n /\ chunk[1] = wire[1]
  <2>1. \A i \in 1..n : wire[i] \in Line
    BY <1>1, <1>2
  <2>2. \A i \in 1..n - 1 + 1 : chunk[i] = wire[1 + i - 1]
    BY <1>1, <2>1, SubSeqProperties
  <2>3. 1 \in 1..n - 1 + 1
    BY <1>1
  <2>4. chunk \in Seq(Line) /\ Len(chunk) = n
    BY <1>1, <2>1, SubSeqProperties
  <2>5. chunk[1] = wire[1 + 1 - 1]
    BY <2>2, <2>3
  <2> QED
    BY <2>4, <2>5
<1>4. SubSeq(wire, n + 1, Len(wire)) \in Seq(Line)
  <2>1. \A i \in n + 1..Len(wire) : wire[i] \in Line
    BY <1>1, <1>2
  <2> QED
    BY <1>1, <2>1, SubSeqProperties
<1> HIDE DEF chunk
<1>5. /\ transcript \o chunk \in Seq(Line)
      /\ Len(transcript \o chunk) = Len(transcript) + n
      /\ (transcript \o chunk)[1] =
           IF 1 <= Len(transcript) THEN transcript[1] ELSE chunk[1 - Len(transcript)]
  <2>1. /\ transcript \o chunk \in Seq(Line)
        /\ Len(transcript \o chunk) = Len(transcript) + Len(chunk)
        /\ \A i \in 1..Len(transcript) + Len(chunk) : (transcript \o chunk)[i] =
             IF i <= Len(transcript) THEN transcript[i] ELSE chunk[i - Len(transcript)]
    BY <1>3, ConcatProperties
  <2>2. 1 \in 1..Len(transcript) + Len(chunk)
    BY <1>1, <1>3
  <2> QED
    BY <1>3, <2>1, <2>2
<1>6. transcript # <<>> <=> 1 <= Len(transcript)
  BY <1>1, EmptySeq
<1>7. transcript \o chunk # <<>>
  BY <1>1, <1>5, EmptySeq
<1> QED
  BY <1>1, <1>3, <1>4, <1>5, <1>6, <1>7 DEF chunk

LEMMA Writings ==
  ASSUME inbox \in Seq(Commands)
  PROVE  /\ inbox \o Envelope \in Seq(Commands)
         /\ inbox \o <<"EHLO", "QUIT">> \in Seq(Commands)
<1>1. Envelope \in Seq(Commands) /\ <<"EHLO", "QUIT">> \in Seq(Commands)
  BY DEF Envelope, Commands
<1> QED
  BY <1>1, ConcatProperties

LEMMA InitTypes == Init => TypeOK
<1> SUFFICES ASSUME Init PROVE TypeOK
  OBVIOUS
<1>1. <<>> \in Seq(Commands) /\ <<>> \in Seq(Line)
  BY EmptySeq
<1> QED
  BY <1>1, SmtpAssumption DEF Init, TypeOK, Stages

THEOREM NextTypes == TypeOK /\ [Next]_vars => TypeOK'
<1> SUFFICES ASSUME TypeOK, [Next]_vars PROVE TypeOK'
  OBVIOUS
<1> USE DEF TypeOK
<1>1. CASE Greet
  <2>1. PICK code \in {220} \cup Refusals :
          /\ Reply(One(code)) \/ Reply(Two(code))
          /\ IF code = 220
             THEN stage' = "EHLO" /\ UNCHANGED faults
             ELSE stage' = "closed" /\ Strike("refuse")
    BY <1>1 DEF Greet
  <2>2. wire' \in Seq(Line)
    BY <2>1, Lines, ReplyType DEF Codes
  <2>3. stage' \in Stages /\ faults' \in [FaultKinds -> Nat]
    BY <2>1, StrikeType DEF Stages, FaultKinds
  <2> QED
    BY <1>1, <2>2, <2>3 DEF Greet, client
<1>2. CASE Comply
  <2>1. wire' \in Seq(Line)
    <3>1. Reply(One(354)) \/ Reply(One(250)) \/ Reply(Two(354)) \/ Reply(Two(250))
      BY <1>2 DEF Comply
    <3> QED
      BY <3>1, Lines, ReplyType DEF Codes
  <2>2. stage' \in Stages /\ taken' \in Nat
    BY <1>2 DEF Comply, Stages
  <2>3. inbox' \in Seq(Commands)
    BY <1>2, HeadTailProperties DEF Comply
  <2> QED
    BY <1>2, <2>1, <2>2, <2>3 DEF Comply, client
<1>3. CASE Refuse
  <2>1. wire' \in Seq(Line)
    <3>1. PICK code \in Codes : Reply(One(code))
      <4>1. (\E code \in Refusals : Reply(One(code))) \/ Reply(One(500))
        BY <1>3 DEF Refuse
      <4>2. Refusals \subseteq Codes /\ 500 \in Codes
        BY DEF Codes
      <4> QED
        BY <4>1, <4>2
    <3>2. One(code) \in Seq(Line)
      BY Lines
    <3> QED
      BY <3>1, <3>2, ReplyType
  <2>2. inbox' \in Seq(Commands)
    BY <1>3, HeadTailProperties DEF Refuse
  <2>3. stage' \in Stages /\ faults' \in [FaultKinds -> Nat]
    BY <1>3, StrikeType DEF Refuse, Stages, FaultKinds
  <2> QED
    BY <1>3, <2>1, <2>2, <2>3 DEF Refuse, client
<1>4. CASE Quit
  <2>1. wire' \in Seq(Line)
    BY <1>4, Lines, ReplyType DEF Quit, Codes
  <2> QED
    BY <1>4, <2>1, EmptySeq DEF Quit, client, Stages
<1>5. CASE Shutdown
  <2>1. wire' \in Seq(Line)
    BY <1>5, Lines, ReplyType DEF Shutdown, Codes
  <2> QED
    BY <1>5, <2>1, EmptySeq, StrikeType DEF Shutdown, client, Stages, FaultKinds
<1>6. CASE Data
  <2>1. PICK n \in 1..Len(wire) :
          LET lines == transcript \o SubSeq(wire, 1, n)
              writes == Includes(lines, 220) IN
          /\ transcript' = lines
          /\ writes => written < MaxEnvelopes
          /\ written' = IF writes THEN written + 1 ELSE written
          /\ inbox' = IF writes /\ stage # "closed" THEN inbox \o Envelope ELSE inbox
          /\ IF Ended(lines)
             THEN outcome' = Classify(lines) /\ wire' = <<>>
             ELSE wire' = SubSeq(wire, n + 1, Len(wire)) /\ UNCHANGED outcome
    BY <1>6 DEF Data
  <2>2. transcript' \in Seq(Line) /\ wire' \in Seq(Line)
    BY <2>1, Chunk, EmptySeq
  <2>3. inbox' \in Seq(Commands)
    BY <2>1, Writings
  <2>4. written' \in 0..MaxEnvelopes
    BY <2>1, SmtpAssumption
  <2>5. mode = "dispatch" /\ UNCHANGED <<stage, taken, mode, faults>>
    BY <1>6 DEF Data
  <2>6. outcome' \in Outcomes[mode] \cup {"pending", "hung"}
    BY <2>1, <2>5 DEF Classify, Outcomes
  <2> QED
    BY <2>2, <2>3, <2>4, <2>5, <2>6
<1>7. CASE ProbeData
  <2>1. PICK n \in 1..Len(wire) :
          LET lines == transcript \o SubSeq(wire, 1, n)
              writes == written = 0 /\ Says(lines, {220})
              result == CASE written = 0          -> "pending"
                          [] Says(lines, {250})   -> "ok"
                          [] Says(lines, 400..599) -> "not_ok"
                          [] OTHER                -> "pending" IN
          /\ transcript' = lines
          /\ written' = IF writes THEN 1 ELSE written
          /\ inbox' = IF writes /\ stage # "closed" THEN inbox \o <<"EHLO", "QUIT">> ELSE inbox
          /\ outcome' = result
          /\ wire' = IF result = "pending" THEN SubSeq(wire, n + 1, Len(wire)) ELSE <<>>
    BY <1>7 DEF ProbeData
  <2>2. transcript' \in Seq(Line) /\ wire' \in Seq(Line)
    BY <2>1, Chunk, EmptySeq
  <2>3. inbox' \in Seq(Commands)
    BY <2>1, Writings
  <2>4. written' \in 0..MaxEnvelopes
    BY <2>1, SmtpAssumption
  <2>5. mode = "probe" /\ UNCHANGED <<stage, taken, mode, faults>>
    BY <1>7 DEF ProbeData
  <2>6. outcome' \in {"pending", "ok", "not_ok"}
    BY <2>1
  <2> QED
    BY <2>2, <2>3, <2>4, <2>5, <2>6 DEF Outcomes
<1>8. ASSUME NEW result \in {"failed_transient", "failed_permanent"}, Fail(result)
      PROVE  /\ wire' \in Seq(Line) /\ outcome' \in Outcomes[mode] \cup {"pending", "hung"}
             /\ UNCHANGED <<mode, transcript, written>>
  <2>1. mode \in {"dispatch", "probe"}
    BY SmtpAssumption
  <2> QED
    BY <1>8, <2>1, EmptySeq DEF Fail, Outcomes
<1>9. CASE Timeout
  BY <1>8, <1>9 DEF Timeout, relay
<1>10. CASE Lost
  BY <1>8, <1>10, EmptySeq, StrikeType DEF Lost, FaultKinds
<1>11. CASE LoseRest
  BY <1>11, EmptySeq, StrikeType DEF LoseRest, client, FaultKinds
<1>12. CASE OddError
  BY <1>8, <1>12, StrikeType DEF OddError, relay, FaultKinds
<1>13. CASE PeerClose
  BY <1>13 DEF PeerClose, relay
<1>14. CASE UNCHANGED vars
  BY <1>14 DEF vars
<1> QED
  BY <1>1, <1>2, <1>3, <1>4, <1>5, <1>6, <1>7, <1>9, <1>10, <1>11, <1>12, <1>13, <1>14
     DEF Next, Relay

(* Every variable keeps its type.                                          *)
THEOREM TypesHold == Spec => []TypeOK
BY InitTypes, NextTypes, PTL DEF Spec

-----------------------------------------------------------------------------
(***************************************************************************)
(* One mail in a dialogue.  What an open relay has not read yet starts     *)
(* with a suffix of the conversation, so it meets the first QUIT before    *)
(* it can meet a second message.                                           *)
(***************************************************************************)
Ahead(k) == 7 - k <= Len(inbox) /\ \A i \in 1..7 - k : inbox[i] = Envelope[k + i - 1]

DispatchInbox ==
  /\ taken <= 1
  /\ stage # "closed" /\ inbox # <<>> => \E k \in 1..6 : Ahead(k) /\ (k <= 5 => taken = 0)
  /\ stage # "closed" /\ inbox = <<>> /\ outcome = "pending" => taken = 0

ProbeInbox == taken = 0 /\ \A i \in 1..Len(inbox) : inbox[i] \in {"EHLO", "QUIT"}

InboxInv == IF mode = "dispatch" THEN DispatchInbox ELSE ProbeInbox

(* The relay reads a command other than QUIT.                              *)
LEMMA ReadOn ==
  ASSUME TypeOK, DispatchInbox, stage # "closed", inbox # <<>>, Head(inbox) # "QUIT",
         inbox' = Tail(inbox),
         \/ taken' = taken
         \/ taken' = taken + 1 /\ Head(inbox) = "message"
  PROVE  DispatchInbox'
<1>1. PICK k \in 1..6 : Ahead(k) /\ (k <= 5 => taken = 0)
  BY DEF DispatchInbox
<1>2. /\ Len(inbox) \in Nat /\ Head(inbox) = inbox[1] /\ inbox' \in Seq(Commands)
      /\ Len(inbox') = Len(inbox) - 1
      /\ \A i \in 1..Len(inbox') : inbox'[i] = inbox[i + 1]
  BY HeadTailProperties, LenProperties DEF TypeOK
<1>3. Head(inbox) = Envelope[k]
  <2>1. 1 \in 1..7 - k
    OBVIOUS
  <2>2. inbox[1] = Envelope[k + 1 - 1]
    BY <1>1, <2>1 DEF Ahead
  <2> QED
    BY <1>2, <2>2
<1>4. k \in 1..5 /\ taken = 0 /\ k + 1 \in 1..6 /\ (taken' = 1 => k = 5)
  BY <1>1, <1>3 DEF Envelope
<1>5. Ahead(k + 1)'
  <2>1. 7 - (k + 1) <= Len(inbox')
    BY <1>1, <1>2, <1>4 DEF Ahead
  <2>2. ASSUME NEW i \in 1..7 - (k + 1) PROVE inbox'[i] = Envelope[k + 1 + i - 1]
    <3>1. i \in 1..Len(inbox') /\ i + 1 \in 1..7 - k
      BY <1>2, <1>4, <2>1
    <3>2. inbox[i + 1] = Envelope[k + (i + 1) - 1]
      BY <1>1, <3>1 DEF Ahead
    <3> QED
      BY <1>2, <1>4, <3>1, <3>2
  <2> QED
    BY <2>1, <2>2 DEF Ahead
<1>6. inbox' # <<>>
  <2>1. 7 - (k + 1) <= Len(inbox')
    BY <1>5 DEF Ahead
  <2>2. Len(inbox') # 0
    BY <1>2, <1>4, <2>1
  <2> QED
    BY <2>2, EmptySeq
<1>7. taken' \in {0, 1} /\ (k + 1 <= 5 => taken' = 0)
  BY <1>4
<1> QED
  BY <1>4, <1>5, <1>6, <1>7 DEF DispatchInbox

(* dispatch writes its conversation behind what is on its way.             *)
LEMMA WriteMore ==
  ASSUME TypeOK, DispatchInbox, stage # "closed", outcome = "pending",
         inbox' = inbox \o Envelope, UNCHANGED <<stage, taken>>
  PROVE  DispatchInbox'
<1>1. Envelope \in Seq(Commands) /\ Len(Envelope) = 6
  BY DEF Envelope, Commands
<1>2. /\ Len(inbox) \in Nat /\ Len(inbox') = Len(inbox) + 6 /\ inbox' \in Seq(Commands)
      /\ \A i \in 1..Len(inbox) + 6 :
           inbox'[i] = IF i <= Len(inbox) THEN inbox[i] ELSE Envelope[i - Len(inbox)]
  <2>1. /\ inbox \o Envelope \in Seq(Commands)
        /\ Len(inbox \o Envelope) = Len(inbox) + Len(Envelope)
        /\ \A i \in 1..Len(inbox) + Len(Envelope) : (inbox \o Envelope)[i] =
             IF i <= Len(inbox) THEN inbox[i] ELSE Envelope[i - Len(inbox)]
    BY <1>1, ConcatProperties DEF TypeOK
  <2>2. Len(inbox) \in Nat
    BY LenProperties DEF TypeOK
  <2> QED
    BY <1>1, <2>1, <2>2
<1>3. inbox' # <<>>
  BY <1>2, EmptySeq
<1>4. CASE inbox = <<>>
  <2>1. Len(inbox) = 0 /\ taken = 0
    BY <1>4, EmptySeq DEF DispatchInbox
  <2>2. 7 - 1 <= Len(inbox')
    BY <1>2, <2>1
  <2>3. ASSUME NEW i \in 1..7 - 1 PROVE inbox'[i] = Envelope[1 + i - 1]
    <3>1. i \in 1..Len(inbox) + 6 /\ ~(i <= Len(inbox)) /\ i - Len(inbox) = 1 + i - 1
      BY <2>1
    <3>2. inbox'[i] = Envelope[i - Len(inbox)]
      BY <1>2, <3>1
    <3> QED
      BY <3>1, <3>2
  <2>4. Ahead(1)'
    BY <2>2, <2>3 DEF Ahead
  <2>5. 1 \in 1..6 /\ taken' = 0
    BY <2>1
  <2> QED
    BY <1>3, <2>4, <2>5 DEF DispatchInbox
<1>5. CASE inbox # <<>>
  <2>1. PICK k \in 1..6 : Ahead(k) /\ (k <= 5 => taken = 0)
    BY <1>5 DEF DispatchInbox
  <2>2. 7 - k <= Len(inbox')
    BY <1>2, <2>1 DEF Ahead
  <2>3. ASSUME NEW i \in 1..7 - k PROVE inbox'[i] = Envelope[k + i - 1]
    <3>1. i \in 1..Len(inbox) + 6 /\ i <= Len(inbox)
      BY <1>2, <2>1 DEF Ahead
    <3>2. inbox[i] = Envelope[k + i - 1]
      BY <2>1 DEF Ahead
    <3> QED
      BY <1>2, <3>1, <3>2
  <2>4. Ahead(k)'
    BY <2>2, <2>3 DEF Ahead
  <2> QED
    BY <1>3, <2>1, <2>4 DEF DispatchInbox
<1> QED
  BY <1>4, <1>5

THEOREM NextInbox == TypeOK /\ InboxInv /\ [Next]_vars => InboxInv'
<1> SUFFICES ASSUME TypeOK, InboxInv, [Next]_vars PROVE InboxInv'
  OBVIOUS
<1>0. /\ Len(inbox) \in Nat /\ inbox \in [1..Len(inbox) -> Commands]
      /\ taken \in Nat /\ Len(<<>>) = 0 /\ stage \in Stages
      /\ mode \in {"dispatch", "probe"}
  BY LenProperties, SmtpAssumption DEF TypeOK
(* Steps that leave the relay's inbox and its mails alone, or empty it.    *)
<1>1. ASSUME UNCHANGED <<inbox, taken, mode>>,
             stage' = "closed" \/ stage # "closed",
             outcome' = "pending" => outcome = "pending"
      PROVE  InboxInv'
  BY <1>0, <1>1 DEF InboxInv, DispatchInbox, ProbeInbox, Ahead
<1>2. ASSUME inbox' = <<>>, UNCHANGED <<taken, mode>>,
             stage' = "closed" \/ outcome' # "pending"
      PROVE  InboxInv'
  BY <1>0, <1>2 DEF InboxInv, DispatchInbox, ProbeInbox
(* The probe has no message in the inbox.                                  *)
<1>3. ASSUME mode = "probe", mode' = mode, inbox # <<>>, inbox' = Tail(inbox),
             taken' = taken \/ Head(inbox) = "message"
      PROVE  InboxInv'
  <2>1. /\ Head(inbox) = inbox[1] /\ 1 \in 1..Len(inbox)
        /\ Len(inbox') = Len(inbox) - 1
        /\ \A i \in 1..Len(inbox') : inbox'[i] = inbox[i + 1]
    BY <1>0, <1>3, HeadTailProperties, EmptySeq DEF TypeOK
  <2>2. taken' = 0
    BY <1>0, <1>3, <2>1 DEF InboxInv, ProbeInbox
  <2>3. \A i \in 1..Len(inbox') : i + 1 \in 1..Len(inbox)
    BY <1>0, <2>1
  <2> QED
    BY <1>3, <2>1, <2>2, <2>3 DEF InboxInv, ProbeInbox
<1>4. CASE Greet
  <2>1. UNCHANGED <<inbox, taken, mode, outcome>> /\ stage # "closed"
    BY <1>4 DEF Greet, client
  <2> QED
    BY <1>1, <2>1
<1>5. CASE Comply
  <2>1. /\ inbox # <<>> /\ inbox' = Tail(inbox) /\ Head(inbox) = stage
        /\ stage \notin {"closed", "connect"} /\ mode' = mode
        /\ taken' = IF Head(inbox) = "message" THEN taken + 1 ELSE taken
    BY <1>5 DEF Comply, client
  <2>2. Head(inbox) # "QUIT"
    BY <1>0, <2>1 DEF Stages
  <2> QED
    BY <1>0, <1>3, <2>1, <2>2, ReadOn DEF InboxInv
<1>6. CASE Refuse
  <2>1. /\ inbox # <<>> /\ inbox' = Tail(inbox) /\ Head(inbox) # "QUIT"
        /\ stage # "closed" /\ UNCHANGED <<mode, taken>>
    BY <1>6 DEF Refuse, client
  <2> QED
    BY <1>0, <1>3, <2>1, ReadOn DEF InboxInv
<1>7. CASE Quit \/ Shutdown
  BY <1>2, <1>7 DEF Quit, Shutdown, client
<1>8. CASE Data
  <2>1. /\ mode = "dispatch" /\ outcome = "pending" /\ UNCHANGED <<stage, taken, mode>>
        /\ \/ inbox' = inbox
           \/ stage # "closed" /\ inbox' = inbox \o Envelope
    BY <1>8 DEF Data
  <2>2. CASE inbox' = inbox
    <3>1. CASE stage = "closed"
      BY <1>1, <2>1, <2>2, <3>1
    <3>2. CASE stage # "closed"
      BY <1>1, <2>1, <2>2, <3>2
    <3> QED
      BY <3>1, <3>2
  <2>3. CASE stage # "closed" /\ inbox' = inbox \o Envelope
    BY <2>1, <2>3, WriteMore DEF InboxInv
  <2> QED
    BY <2>1, <2>2, <2>3
<1>9. CASE ProbeData
  <2>1. /\ mode = "probe" /\ UNCHANGED <<taken, mode>>
        /\ inbox' = inbox \/ inbox' = inbox \o <<"EHLO", "QUIT">>
    BY <1>9 DEF ProbeData
  <2>2. CASE inbox' = inbox
    BY <2>1, <2>2 DEF InboxInv, ProbeInbox
  <2>3. CASE inbox' = inbox \o <<"EHLO", "QUIT">>
    <3> DEFINE greeting == <<"EHLO", "QUIT">>
    <3>1. greeting \in Seq(Commands) /\ Len(greeting) = 2
      BY DEF Commands
    <3>2. \A i \in 1..2 : greeting[i] \in {"EHLO", "QUIT"}
      OBVIOUS
    <3> HIDE DEF greeting
    <3>3. /\ Len(inbox \o greeting) = Len(inbox) + 2
          /\ \A i \in 1..Len(inbox) + 2 : (inbox \o greeting)[i] =
               IF i <= Len(inbox) THEN inbox[i] ELSE greeting[i - Len(inbox)]
      <4>1. /\ Len(inbox \o greeting) = Len(inbox) + Len(greeting)
            /\ \A i \in 1..Len(inbox) + Len(greeting) : (inbox \o greeting)[i] =
                 IF i <= Len(inbox) THEN inbox[i] ELSE greeting[i - Len(inbox)]
        BY <3>1, ConcatProperties DEF TypeOK
      <4> QED
        BY <3>1, <4>1
    <3>4. inbox' = inbox \o greeting
      BY <2>3 DEF greeting
    <3>5. \A i \in 1..Len(inbox) : inbox[i] \in {"EHLO", "QUIT"}
      BY <2>1 DEF InboxInv, ProbeInbox
    <3>6. ASSUME NEW i \in 1..Len(inbox') PROVE inbox'[i] \in {"EHLO", "QUIT"}
      <4>1. CASE i <= Len(inbox)
        BY <1>0, <3>3, <3>4, <3>5, <4>1
      <4>2. CASE ~(i <= Len(inbox))
        <5>1. i - Len(inbox) \in 1..2 /\ i \in 1..Len(inbox) + 2
          BY <1>0, <3>3, <3>4, <4>2
        <5> QED
          BY <3>2, <3>3, <3>4, <4>2, <5>1
      <4> QED
        BY <4>1, <4>2
    <3> QED
      BY <2>1, <3>6 DEF InboxInv, ProbeInbox
  <2> QED
    BY <2>1, <2>2, <2>3
<1>10. CASE Timeout \/ OddError
  <2>1. UNCHANGED <<inbox, taken, mode, stage>> /\ outcome' # "pending"
    BY <1>10 DEF Timeout, OddError, Fail, relay
  <2> QED
    BY <1>0, <1>1, <2>1
<1>11. CASE Lost \/ LoseRest
  <2>1. /\ UNCHANGED <<taken, mode, stage>> /\ outcome' # "pending"
        /\ inbox' = inbox \/ inbox' = <<>>
    BY <1>11 DEF Lost, LoseRest, Fail, client
  <2> QED
    BY <1>0, <1>1, <1>2, <2>1
<1>12. CASE PeerClose
  BY <1>1, <1>12 DEF PeerClose, relay
<1>13. CASE UNCHANGED vars
  BY <1>0, <1>1, <1>13 DEF vars
<1> QED
  BY <1>4, <1>5, <1>6, <1>7, <1>8, <1>9, <1>10, <1>11, <1>12, <1>13 DEF Next, Relay

(* One call of dispatch puts at most one mail into the relay, however      *)
(* often it writes its conversation; a probe puts none.                    *)
THEOREM DialoguesLeaveOneMail == Spec => []OneMailPerDialogue
<1>1. Init => InboxInv
  BY EmptySeq DEF Init, InboxInv, DispatchInbox, ProbeInbox
<1>2. InboxInv => OneMailPerDialogue
  BY DEF InboxInv, DispatchInbox, ProbeInbox, OneMailPerDialogue
<1> QED
  BY <1>1, <1>2, InitTypes, NextTypes, NextInbox, PTL DEF Spec
-----------------------------------------------------------------------------
(***************************************************************************)
(* What dispatch gives up for good.  The verdict hangs on the first line   *)
(* of the transcript: if that is not the banner, the relay has closed.     *)
(***************************************************************************)
Heard == transcript # <<>> \/ wire # <<>>
First == IF transcript # <<>> THEN transcript[1] ELSE wire[1]
ClosedEmpty == stage = "closed" /\ taken = 0

FirstLine ==
  /\ stage = "connect" => taken = 0 /\ ~Heard
  /\ outcome = "pending" /\ stage # "connect" => Heard /\ (First.code = 220 \/ ClosedEmpty)
  /\ outcome = "failed_permanent" /\ Quiet({"odd"}) => ClosedEmpty

(* The relay adds to what it said before.                                  *)
LEMMA SaidMore ==
  ASSUME TypeOK, NEW lines \in Seq(Line), lines # <<>>, Reply(lines), UNCHANGED client
  PROVE  /\ outcome # "pending" => wire' = wire
         /\ outcome = "pending" => Heard'
         /\ outcome = "pending" => First' = IF Heard THEN First ELSE lines[1]
<1>1. CASE outcome # "pending"
  BY <1>1 DEF Reply, client
<1>2. CASE outcome = "pending"
  <2>1. /\ Len(wire) \in Nat /\ Len(lines) \in Nat \ {0} /\ (wire = <<>> <=> Len(wire) = 0)
    BY LenProperties, EmptySeq DEF TypeOK
  <2>2. /\ wire' = wire \o lines /\ wire' \in Seq(Line) /\ Len(wire') = Len(wire) + Len(lines)
        /\ \A i \in 1..Len(wire) + Len(lines) :
             wire'[i] = IF i <= Len(wire) THEN wire[i] ELSE lines[i - Len(wire)]
    BY <1>2, ConcatProperties DEF Reply, TypeOK
  <2>3. Len(wire') # 0 /\ 1 \in 1..Len(wire) + Len(lines)
    BY <2>1, <2>2
  <2>4. wire' # <<>> /\ wire'[1] = IF wire # <<>> THEN wire[1] ELSE lines[1]
    BY <2>1, <2>2, <2>3, EmptySeq
  <2> QED
    BY <1>2, <2>4 DEF Heard, First, client
<1> QED
  BY <1>1, <1>2

LEMMA OneLine ==
  ASSUME NEW code \in Codes
  PROVE  /\ One(code) \in Seq(Line) /\ One(code) # <<>> /\ One(code)[1].code = code
         /\ Two(code) \in Seq(Line) /\ Two(code) # <<>> /\ Two(code)[1].code = code
BY DEF One, Two, Line

LEMMA QuietBefore ==
  ASSUME TypeOK, [Next]_vars, Quiet({"odd"})'
  PROVE  Quiet({"odd"}) /\ ~OddError
<1>1. "odd" \in FaultKinds /\ faults["odd"] \in Nat
  BY DEF TypeOK, FaultKinds
<1>2. \/ faults' = faults
      \/ \E kind \in FaultKinds : Strike(kind)
  BY DEF Next, Relay, Greet, Comply, Refuse, Quit, Data, ProbeData, Timeout, Shutdown, Lost,
         LoseRest, OddError, PeerClose, vars, FaultKinds
<1>3. ASSUME NEW kind \in FaultKinds, Strike(kind)
      PROVE  faults["odd"] = 0 /\ kind # "odd"
  <2>1. faults'["odd"] = IF kind = "odd" THEN faults["odd"] + 1 ELSE faults["odd"]
    BY <1>1, <1>3 DEF Strike, TypeOK
  <2> QED
    BY <1>1, <2>1 DEF Quiet
<1> QED
  BY <1>1, <1>2, <1>3 DEF Quiet, OddError
THEOREM NextFirst == TypeOK /\ FirstLine /\ [Next]_vars => FirstLine'
<1> SUFFICES ASSUME TypeOK, FirstLine, [Next]_vars PROVE FirstLine'
  OBVIOUS
<1>1. CASE Greet
  <2>1. PICK code \in {220} \cup Refusals :
          /\ Reply(One(code)) \/ Reply(Two(code))
          /\ IF code = 220 THEN stage' = "EHLO" ELSE stage' = "closed"
    BY <1>1 DEF Greet
  <2>2. stage = "connect" /\ taken' = taken /\ UNCHANGED client /\ outcome' = outcome
    BY <1>1 DEF Greet, client
  <2>3. taken = 0 /\ ~Heard /\ stage' # "connect" /\ (code = 220 \/ stage' = "closed")
    BY <2>1, <2>2 DEF FirstLine
  <2>4. outcome = "pending" => Heard' /\ First'.code = code
    <3>1. code \in Codes
      BY <2>1 DEF Codes
    <3> QED
      BY <2>1, <2>2, <2>3, <3>1, OneLine, SaidMore
  <2>5. ~(outcome = "failed_permanent" /\ Quiet({"odd"})')
    BY <2>2, QuietBefore DEF FirstLine, ClosedEmpty
  <2> QED
    BY <2>2, <2>3, <2>4, <2>5 DEF FirstLine, ClosedEmpty
<1>2. CASE Comply \/ Refuse \/ Quit \/ Shutdown
  <2>1. /\ stage \notin {"connect", "closed"} /\ stage' # "connect"
        /\ UNCHANGED client /\ outcome' = outcome
    BY <1>2 DEF Comply, Refuse, Quit, Shutdown, client
  <2>2. PICK lines \in Seq(Line) : lines # <<>> /\ Reply(lines)
    <3>1. CASE Comply
      <4>1. Reply(One(354)) \/ Reply(One(250)) \/ Reply(Two(354)) \/ Reply(Two(250))
        BY <3>1 DEF Comply
      <4> QED
        BY <4>1, OneLine DEF Codes
    <3>2. CASE Refuse
      <4>1. (\E code \in Refusals : Reply(One(code))) \/ Reply(One(500))
        BY <3>2 DEF Refuse
      <4>2. Refusals \subseteq Codes /\ 500 \in Codes
        BY DEF Codes
      <4> QED
        BY <4>1, <4>2, OneLine
    <3>3. CASE Quit \/ Shutdown
      <4>1. \/ Reply(One(221))
            \/ Reply(One(421)) /\ 421 \in Refusals
        BY <3>3 DEF Quit, Shutdown
      <4> QED
        BY <4>1, OneLine DEF Codes
    <3> QED
      BY <1>2, <3>1, <3>2, <3>3
  <2>3. outcome = "pending" => Heard' /\ First'.code = 220
    <3>1. outcome = "pending" => Heard /\ First.code = 220
      BY <2>1 DEF FirstLine, ClosedEmpty
    <3> QED
      BY <2>1, <2>2, <3>1, SaidMore
  <2>4. ~(outcome = "failed_permanent" /\ Quiet({"odd"})')
    BY <2>1, QuietBefore DEF FirstLine, ClosedEmpty
  <2> QED
    BY <2>1, <2>3, <2>4 DEF FirstLine
<1>3. CASE Data \/ ProbeData
  <2>1. PICK n \in 1..Len(wire) :
          LET lines == transcript \o SubSeq(wire, 1, n) IN
          /\ transcript' = lines
          /\ outcome' \in {"pending", "ok", "not_ok", Classify(lines)}
    <3>1. CASE Data
      BY <3>1 DEF Data
    <3>2. CASE ProbeData
      <4>1. PICK n \in 1..Len(wire) :
              LET lines == transcript \o SubSeq(wire, 1, n)
                  writes == written = 0 /\ Says(lines, {220})
                  result == CASE written = 0          -> "pending"
                              [] Says(lines, {250})   -> "ok"
                              [] Says(lines, 400..599) -> "not_ok"
                              [] OTHER                -> "pending" IN
              /\ transcript' = lines
              /\ written' = IF writes THEN 1 ELSE written
              /\ inbox' = IF writes /\ stage # "closed"
                          THEN inbox \o <<"EHLO", "QUIT">> ELSE inbox
              /\ outcome' = result
              /\ wire' = IF result = "pending" THEN SubSeq(wire, n + 1, Len(wire)) ELSE <<>>
        BY <3>2 DEF ProbeData
      <4>2. outcome' \in {"pending", "ok", "not_ok"}
        BY <4>1
      <4> QED
        BY <4>1, <4>2
    <3> QED
      BY <1>3, <3>1, <3>2
  <2>2. outcome = "pending" /\ UNCHANGED <<stage, taken>>
    BY <1>3 DEF Data, ProbeData
  <2>3. /\ transcript' # <<>> /\ transcript' \in Seq(Line)
        /\ transcript'[1] = First
    BY <2>1, Chunk DEF TypeOK, First
  <2>4. wire # <<>>
    BY <2>1, LenProperties, EmptySeq DEF TypeOK
  <2>5. stage # "connect" /\ (First.code = 220 \/ ClosedEmpty)
    BY <2>2, <2>4 DEF FirstLine, Heard
  <2>6. Heard' /\ First' = First /\ Head(transcript') = First
    <3>1. Head(transcript') = transcript'[1]
      BY <2>3
    <3> QED
      BY <2>3, <3>1 DEF Heard, First
  <2>7. outcome' = "failed_permanent" => First.code # 220
    <3>1. First.code = 220 => Classify(transcript') = "accepted"
      <4>1. 220 \in 200..299
        OBVIOUS
      <4> QED
        BY <2>6, <4>1, Zenon DEF Classify
    <3>2. outcome' \in {"pending", "ok", "not_ok", Classify(transcript')}
      BY <2>1
    <3> QED
      BY <3>1, <3>2
  <2> QED
    BY <2>2, <2>5, <2>6, <2>7 DEF FirstLine, ClosedEmpty
<1>4. CASE Timeout \/ Lost
  <2>1. /\ outcome' \notin {"pending", "failed_permanent"}
        /\ UNCHANGED <<stage, taken, transcript>> /\ wire' = <<>>
    BY <1>4 DEF Timeout, Lost, Fail, relay
  <2> QED
    BY <2>1 DEF FirstLine, Heard
<1>5. CASE OddError
  <2>1. ~Quiet({"odd"})' /\ outcome' # "pending"
        /\ UNCHANGED <<stage, taken, transcript>> /\ wire' = <<>>
    BY <1>5, QuietBefore DEF OddError, Fail, relay
  <2> QED
    BY <2>1 DEF FirstLine, Heard
<1>6. CASE LoseRest \/ UNCHANGED vars
  <2>1. UNCHANGED <<stage, taken, outcome, transcript, wire>>
    BY <1>6 DEF LoseRest, client, vars
  <2>2. Heard' = Heard /\ First' = First /\ ClosedEmpty' = ClosedEmpty
    BY <2>1 DEF Heard, First, ClosedEmpty
  <2> QED
    BY <2>1, <2>2, QuietBefore DEF FirstLine
<1>7. CASE PeerClose
  <2>1. outcome' = "hung" /\ stage = "closed" /\ stage' = stage
    BY <1>7 DEF PeerClose, relay
  <2> QED
    BY <2>1 DEF FirstLine
<1> QED
  BY <1>1, <1>2, <1>3, <1>4, <1>5, <1>6, <1>7 DEF Next, Relay

(* A send is given up for good on the relay's answer only if the relay has *)
(* not taken its mail and never will.                                      *)
THEOREM GivenUpIsUntaken == Spec => []PermanentIsUntaken
<1>1. Init => FirstLine
  BY DEF Init, FirstLine, Heard
<1>2. FirstLine => PermanentIsUntaken
  BY DEF FirstLine, ClosedEmpty, PermanentIsUntaken
<1> QED
  BY <1>1, <1>2, InitTypes, NextTypes, NextFirst, PTL DEF Spec
=============================================================================
