-------------------------- MODULE StdioRunnerProofs --------------------------
(***************************************************************************)
(* Proofs about StdioRunner: for any settings, sizes of the pipes and      *)
(* numbers of messages, lines on standard output stay whole, each message  *)
(* of the client is forwarded or refused and never both, and the client    *)
(* has the child's messages in order and without a gap (RunnerInv,         *)
(* OutputInOrder), from an inductive invariant that says where in its      *)
(* message each goroutine is.                                              *)
(***************************************************************************)
EXTENDS StdioRunner, SequenceTheorems, TLAPS

\* The messages that a goroutine has done with: those it has taken but for the
\* one in its hands.
Holds(g) == pc[g] \in {"decide", "write", "reply"}
Done(g)  == IF Holds(g) THEN taken[g] - 1 ELSE taken[g]

\* What a line begins with.
Starts == {"text", "torn"}

\* What a goroutine has still to write is the whole line of the message in its
\* hands, or nothing.
CallsAreDue ==
  /\ pc["out"] \in {"read", "reply", "ended"}
  /\ \A g \in Goroutines :
       /\ Holds(g) => taken[g] >= 1
       /\ pc[g] # "reply" => calls[g] = <<>>
       /\ calls[g] = <<>> \/ \E text \in Starts : calls[g] = WriteCalls(g, taken[g], text)
  /\ pc["in"] = "reply" => calls["in"] # <<>>
  /\ pc["in"] = "ended" => ~inOpen

\* What PipelineIn has forwarded and refused are messages it has done with, and
\* with those whose error could not be written all of them while the child's input
\* is open.
InInv ==
  /\ Ascending(forwarded) /\ InOrder("in")
  /\ Set(forwarded) \cap Numbers("in") = {}
  /\ Set(forwarded) \cup Numbers("in") \cup unsaid \subseteq 1..Done("in")
  /\ inOpen => Set(forwarded) \cup Numbers("in") \cup unsaid = 1..Done("in")
  /\ given \o childIn = forwarded

\* PipelineOut has relayed the messages it has done with.
Relayed ==
  /\ InOrder("out")
  /\ pc["out"] # "ended" => Numbers("out") = 1..Done("out")
  /\ \E k \in 0..taken["out"] : Numbers("out") = 1..k

\* The pipe continues where it has taken the last one, to the end of what the
\* child wrote until Wait closes it.
PipeContinues ==
  /\ taken["out"] + Len(childOut) <= wrote
  /\ outOpen => wrote = taken["out"] + Len(childOut)
  /\ ~outOpen => child = "exited"
  /\ \A i \in 1..Len(childOut) : childOut[i] = taken["out"] + i

OutInv == Relayed /\ PipeContinues

\* Nothing comes after the message of the child that was cut short.
TornIsLast ==
  /\ cut["out"] # 0 => child = "exited" /\ taken["out"] + Len(childOut) <= cut["out"]
  /\ calls["out"] = WriteCalls("out", taken["out"], "torn") => cut["out"] = taken["out"]
  /\ \A i \in Texts("out") : stdout[i].part = "torn" => stdout[i].n = cut["out"]

StdioInv ==
  /\ TypeOK
  /\ CallsAreDue
  /\ LinesStayWhole
  /\ InInv
  /\ OutInv
  /\ TornIsLast

-----------------------------------------------------------------------------
(* Types *)

LEMMA TakeFirst ==
  ASSUME NEW S, NEW q \in Seq(S), q # <<>>
  PROVE  /\ Head(q) \in S /\ Tail(q) \in Seq(S)
         /\ Len(q) \in Nat \ {0} /\ Len(Tail(q)) = Len(q) - 1 /\ Head(q) = q[1]
         /\ \A i \in 1..(Len(q) - 1) : Tail(q)[i] = q[i + 1]
OBVIOUS

LEMMA PutLast ==
  ASSUME NEW S, NEW q \in Seq(S), NEW e \in S
  PROVE  /\ Append(q, e) \in Seq(S)
         /\ Len(q) \in Nat /\ Len(Append(q, e)) = Len(q) + 1
         /\ \A i \in 1..Len(q) : Append(q, e)[i] = q[i]
         /\ Append(q, e)[Len(q) + 1] = e
OBVIOUS

\* A line is one call of Write, with two pieces.
LEMMA LineTypes ==
  ASSUME NEW g \in Goroutines, NEW n \in Nat, NEW start \in Starts
  PROVE  /\ WriteCalls(g, n, start) \in Seq(Seq(Pieces))
         /\ Len(WriteCalls(g, n, start)) = 1 /\ Tail(WriteCalls(g, n, start)) = <<>>
         /\ WriteCalls(g, n, start) # <<>>
         /\ Head(WriteCalls(g, n, start)) =
              <<[from |-> g, n |-> n, part |-> start], [from |-> g, n |-> n, part |-> "newline"]>>
         /\ Head(WriteCalls(g, n, start)) \in Seq(Pieces)
<1> DEFINE text == [from |-> g, n |-> n, part |-> start]
           newline == [from |-> g, n |-> n, part |-> "newline"]
<1>1. text \in Pieces /\ newline \in Pieces
  BY DEF Pieces, Starts
<1>2. WriteCalls(g, n, start) = << <<text, newline>> >>
  BY DEF WriteCalls
<1> HIDE DEF text, newline
<1>3. <<text, newline>> \in Seq(Pieces)
  BY <1>1
<1> DEFINE line == <<text, newline>>
<1>4. line \in Seq(Pieces)
  BY <1>3
<1> HIDE DEF line
<1>5. /\ <<line>> \in Seq(Seq(Pieces)) /\ Len(<<line>>) = 1 /\ Tail(<<line>>) = <<>>
      /\ <<line>> # <<>> /\ Head(<<line>>) = line
  BY <1>4
<1> QED BY <1>2, <1>4, <1>5, Zenon DEF line, text, newline

\* The parts of TypeOK that are about numbers and sequences.
LEMMA Sizes ==
  ASSUME TypeOK
  PROVE  /\ sent \in 0..MaxInput /\ wrote \in 0..MaxOutput
         /\ given \in Seq(1..MaxInput) /\ forwarded \in Seq(1..MaxInput)
         /\ childIn \in Seq(1..MaxInput) /\ childOut \in Seq(1..MaxOutput)
         /\ Len(childIn) <= PipeSize /\ Len(childOut) <= PipeSize
         /\ stdout \in Seq(Pieces)
         /\ taken \in [Goroutines -> Nat] /\ taken["in"] <= sent /\ taken["out"] <= wrote
BY Zenon DEF TypeOK

\* The parts of the assumption that are about the setting.
LEMMA SettingIs ==
  ASSUME setting \in Settings
  PROVE  /\ MaxInput \in Nat /\ MaxOutput \in Nat /\ PipeSize \in Nat \ {0}
         /\ setting.input \in Seq(InKinds) /\ Len(setting.input) <= MaxInput
         /\ setting.output \in Seq(OutKinds) /\ Len(setting.output) <= MaxOutput
BY StdioAssumption, Zenon

\* Init has the types.
LEMMA TypeInit == Init => TypeOK
<1> SUFFICES ASSUME Init PROVE TypeOK
  OBVIOUS
<1>1. /\ sent = 0 /\ wrote = 0 /\ MaxInput \in Nat /\ MaxOutput \in Nat /\ PipeSize \in Nat \ {0}
  BY StdioAssumption DEF Init
<1> QED BY <1>1 DEF Init, TypeOK, Goroutines

\* Every step keeps the types.
LEMMA TypeNext == TypeOK /\ CallsAreDue /\ OutInv /\ [Next]_vars => TypeOK'
<1> SUFFICES ASSUME TypeOK, CallsAreDue, OutInv, [Next]_vars PROVE TypeOK'
  OBVIOUS
<1>1. /\ MaxInput \in Nat /\ MaxOutput \in Nat /\ PipeSize \in Nat \ {0}
      /\ Len(setting.input) <= MaxInput /\ Len(setting.input) \in Nat
      /\ Len(setting.output) <= MaxOutput /\ Len(setting.output) \in Nat
      /\ "in" \in Goroutines /\ "out" \in Goroutines
      /\ taken["in"] \in Nat /\ taken["out"] \in Nat
      /\ sent \in 0..MaxInput /\ wrote \in 0..MaxOutput /\ taken["in"] <= sent /\ taken["out"] <= wrote
      /\ Len(childIn) \in Nat /\ Len(childOut) \in Nat
      /\ Len(childIn) <= PipeSize /\ Len(childOut) <= PipeSize
  <2>1. setting \in Settings
    BY Zenon DEF TypeOK
  <2>2. "in" \in Goroutines /\ "out" \in Goroutines
    BY DEF Goroutines
  <2>3. Len(setting.input) \in Nat /\ Len(setting.output) \in Nat
    BY <2>1, SettingIs
  <2>4. taken["in"] \in Nat /\ taken["out"] \in Nat
    BY <2>2, Sizes, Zenon
  <2>5. Len(childIn) \in Nat /\ Len(childOut) \in Nat
    BY Sizes
  <2> QED BY <2>1, <2>2, <2>3, <2>4, <2>5, SettingIs, Sizes, Zenon
<1>2. CASE ClientSends
  <2>1. sent' \in 0..MaxInput /\ taken["in"] <= sent'
    BY <1>1, <1>2 DEF ClientSends
  <2> QED BY <1>2, <2>1 DEF TypeOK, ClientSends, pipes
<1>3. CASE ClientCloses
  <2>1. sent' \in 0..MaxInput /\ taken["in"] <= sent'
    BY <1>1, <1>3 DEF ClientCloses
  <2>2. cut' \in [Goroutines -> Nat]
    <3>1. cut \in [Goroutines -> Nat] /\ sent' \in Nat
      BY <2>1 DEF TypeOK
    <3> QED BY <1>3, <3>1 DEF ClientCloses
  <2> QED BY <1>3, <2>1, <2>2 DEF TypeOK, ClientCloses, pipes
<1>4. CASE ChildReads
  <2>1. /\ Head(childIn) \in 1..MaxInput /\ Tail(childIn) \in Seq(1..MaxInput)
        /\ Len(Tail(childIn)) = Len(childIn) - 1 /\ Len(childIn) \in Nat
    BY <1>4, TakeFirst DEF TypeOK, ChildReads
  <2>2. Append(given, Head(childIn)) \in Seq(1..MaxInput)
    BY <2>1, PutLast DEF TypeOK
  <2>3. Len(childIn') <= PipeSize
    BY <1>1, <1>4, <2>1 DEF ChildReads
  <2>4. given' \in Seq(1..MaxInput) /\ childIn' \in Seq(1..MaxInput)
    BY <1>4, <2>1, <2>2, Zenon DEF ChildReads
  <2> QED BY <1>4, <2>3, <2>4 DEF TypeOK, ChildReads
<1>20. ASSUME wrote < Len(setting.output), Len(childOut) < PipeSize, wrote' = wrote + 1,
              childOut' = Append(childOut, wrote')
       PROVE  /\ childOut' \in Seq(1..MaxOutput) /\ Len(childOut') <= PipeSize
              /\ wrote' \in 0..MaxOutput /\ taken["out"] <= wrote' /\ wrote' \in Nat
  <2>1. wrote' \in 1..MaxOutput /\ wrote' = wrote + 1
    BY <1>1, <1>20
  <2>2. childOut' \in Seq(1..MaxOutput) /\ Len(childOut') = Len(childOut) + 1 /\ Len(childOut) \in Nat
    BY <1>20, <2>1, PutLast, Sizes
  <2>3. Len(childOut') <= PipeSize
    BY <1>1, <1>20, <2>2
  <2>4. wrote' \in 0..MaxOutput /\ taken["out"] <= wrote' /\ wrote' \in Nat
    BY <1>1, <2>1
  <2> QED BY <2>2, <2>3, <2>4
<1>5. CASE ChildWrites
  <2>1. /\ childOut' \in Seq(1..MaxOutput) /\ Len(childOut') <= PipeSize
        /\ wrote' \in 0..MaxOutput /\ taken["out"] <= wrote'
    BY <1>5, <1>20 DEF ChildWrites
  <2> QED BY <1>5, <2>1 DEF TypeOK, ChildWrites
<1>21. ASSUME ChildStops
       PROVE  /\ childOut' \in Seq(1..MaxOutput) /\ Len(childOut') <= PipeSize
              /\ wrote' \in 0..MaxOutput /\ taken["out"] <= wrote'
              /\ cut' \in [Goroutines -> Nat] /\ child' = "exited"
  <2>1. CASE UNCHANGED <<wrote, childOut, cut>>
    BY <1>1, <1>21, <2>1 DEF ChildStops, TypeOK
  <2>2. CASE /\ wrote < Len(setting.output) /\ Len(childOut) < PipeSize
             /\ wrote' = wrote + 1
             /\ childOut' = Append(childOut, wrote')
             /\ cut' = [cut EXCEPT !["out"] = wrote']
    <3>1. wrote' \in Nat /\ cut \in [Goroutines -> Nat]
      BY <1>20, <2>2 DEF TypeOK
    <3>2. cut' \in [Goroutines -> Nat]
      BY <2>2, <3>1
    <3> QED BY <1>20, <1>21, <2>2, <3>2 DEF ChildStops
  <2> QED BY <1>21, <2>1, <2>2 DEF ChildStops
<1>6. CASE ChildExits
  BY <1>6, <1>21 DEF TypeOK, ChildExits
<1>7. CASE ReadIn
  <2>1. pc' \in [Goroutines -> {"read", "decide", "write", "reply", "ended"}] /\ inOpen' \in BOOLEAN
    BY <1>7, Zenon DEF ReadIn, Ends, TypeOK
  <2>2. /\ taken' \in [Goroutines -> Nat] /\ taken'["in"] <= sent /\ taken'["out"] <= wrote
    BY <1>7 DEF ReadIn, TypeOK, Goroutines
  <2> QED BY <1>7, <2>1, <2>2 DEF TypeOK, ReadIn, others
<1>8. CASE ReadInEnds
  BY <1>8 DEF TypeOK, ReadInEnds, Ends, others
<1>9. CASE Pass
  BY <1>9 DEF TypeOK, Pass, others, pipes
<1>10. CASE Refuse
  <2>1. "in" \in Goroutines /\ taken["in"] \in Nat
    BY DEF TypeOK, Goroutines
  <2>2. WriteCalls("in", taken["in"], "text") \in Seq(Seq(Pieces))
    BY <2>1, LineTypes DEF Starts
  <2>3. calls' \in [Goroutines -> Seq(Seq(Pieces))]
    BY <1>10, <2>1, <2>2 DEF Refuse, TypeOK
  <2>4. pc' \in [Goroutines -> {"read", "decide", "write", "reply", "ended"}]
    BY <1>10 DEF Refuse, TypeOK
  <2> QED BY <1>10, <2>3, <2>4 DEF TypeOK, Refuse, others, pipes
<1>11. ASSUME NEW g \in Goroutines, Write(g) PROVE TypeOK'
  <2>1. (\E start \in Starts : calls[g] = WriteCalls(g, taken[g], start)) /\ taken[g] \in Nat
    BY <1>11, Zenon DEF CallsAreDue, Write, TypeOK
  <2>2. /\ Head(calls[g]) \in Seq(Pieces) /\ Tail(calls[g]) = <<>>
    BY <2>1, LineTypes
  <2>3. stdout' \in Seq(Pieces)
    BY <1>11, <2>2, ConcatProperties DEF Write, TypeOK
  <2>4. calls' \in [Goroutines -> Seq(Seq(Pieces))]
    BY <1>11, <2>2 DEF Write, TypeOK
  <2>5. pc' \in [Goroutines -> {"read", "decide", "write", "reply", "ended"}]
    BY <1>11 DEF Write, TypeOK
  <2> QED BY <1>11, <2>3, <2>4, <2>5 DEF TypeOK, Write, others, pipes
<1>22. ASSUME NEW g \in Goroutines, WriteFails(g) PROVE TypeOK'
  <2>1. calls' \in [Goroutines -> Seq(Seq(Pieces))]
    <3>1. <<>> \in Seq(Seq(Pieces)) /\ calls \in [Goroutines -> Seq(Seq(Pieces))]
      BY DEF TypeOK
    <3> QED BY <1>22, <3>1 DEF WriteFails
  <2>2. pc' \in [Goroutines -> {"read", "decide", "write", "reply", "ended"}] /\ inOpen' \in BOOLEAN
    BY <1>22 DEF WriteFails, Ends, TypeOK
  <2>3. unsaid' \subseteq 1..MaxInput
    <3>1. unsaid \subseteq 1..MaxInput
      BY DEF TypeOK
    <3>2. CASE g = "out"
      BY <1>22, <3>1, <3>2 DEF WriteFails
    <3>3. CASE g = "in"
      <4>1. taken["in"] >= 1
        BY <1>22, <3>3 DEF WriteFails, CallsAreDue, Holds
      <4>2. taken["in"] \in 1..MaxInput
        BY <1>1, <4>1
      <4>3. unsaid' = unsaid \cup {taken["in"]}
        BY <1>22, <3>3 DEF WriteFails
      <4> QED BY <3>1, <4>2, <4>3
    <3> QED BY <3>2, <3>3 DEF Goroutines
  <2> QED BY <1>22, <2>1, <2>2, <2>3 DEF TypeOK, WriteFails, others
<1>12. CASE WriteChild
  <2>0. "in" \in Goroutines /\ taken["in"] \in Nat /\ sent \in 0..MaxInput /\ taken["in"] <= sent
    BY DEF TypeOK, Goroutines
  <2>1. taken["in"] \in 1..MaxInput
    BY <1>1, <1>12, <2>0 DEF WriteChild, CallsAreDue, Holds
  <2> DEFINE n == taken["in"]
  <2> HIDE DEF n
  <2>4. /\ Append(childIn, n) \in Seq(1..MaxInput) /\ Len(Append(childIn, n)) = Len(childIn) + 1
        /\ Append(forwarded, n) \in Seq(1..MaxInput) /\ Len(childIn) \in Nat
    BY <2>1, PutLast, Sizes DEF n
  <2>5. \/ childIn' = childIn /\ forwarded' = forwarded
        \/ childIn' = Append(childIn, n) /\ forwarded' = Append(forwarded, n) /\ Len(childIn) < PipeSize
    BY <1>12, Zenon DEF WriteChild, n
  <2>6. Len(childIn') <= PipeSize
    BY <1>1, <2>4, <2>5
  <2>2. /\ childIn' \in Seq(1..MaxInput) /\ Len(childIn') <= PipeSize /\ forwarded' \in Seq(1..MaxInput)
    BY <2>4, <2>5, <2>6, Sizes, Zenon
  <2>3. pc' \in [Goroutines -> {"read", "decide", "write", "reply", "ended"}] /\ inOpen' \in BOOLEAN
    BY <1>12, Zenon DEF WriteChild, Ends, TypeOK
  <2> QED BY <1>12, <2>2, <2>3 DEF TypeOK, WriteChild, others
<1>13. CASE ReadOut
  <2>1. pc' \in [Goroutines -> {"read", "decide", "write", "reply", "ended"}] /\ inOpen' \in BOOLEAN
    BY <1>13 DEF ReadOut, Ends, TypeOK
  <2>2. childOut' \in Seq(1..MaxOutput) /\ Len(childOut') = Len(childOut) - 1 /\ Len(childOut) \in Nat \ {0}
    BY <1>13, TakeFirst, Sizes DEF ReadOut
  <2>3. taken' \in [Goroutines -> Nat] /\ taken'["in"] = taken["in"] /\ taken'["out"] = taken["out"] + 1
    <3>1. taken \in [Goroutines -> Nat]
      BY DEF TypeOK
    <3>2. taken' = [taken EXCEPT !["out"] = taken["out"] + 1]
      BY <1>13 DEF ReadOut
    <3> QED BY <1>1, <3>1, <3>2
  <2>4. taken'["out"] <= wrote
    BY <1>1, <2>2, <2>3 DEF OutInv, PipeContinues
  <2>5. Len(childOut') <= PipeSize
    BY <1>1, <2>2
  <2> QED BY <1>13, <2>1, <2>2, <2>3, <2>4, <2>5 DEF TypeOK, ReadOut, others
<1>23. CASE ReadOutCut
  <2>1. pc' \in [Goroutines -> {"read", "decide", "write", "reply", "ended"}]
    BY <1>23 DEF ReadOutCut, TypeOK
  <2>2. childOut' \in Seq(1..MaxOutput) /\ Len(childOut') <= PipeSize /\ Len(childOut) \in Nat \ {0}
    BY <1>1, <1>23, TakeFirst, Sizes DEF ReadOutCut
  <2>3. /\ taken' \in [Goroutines -> Nat] /\ taken'["in"] = taken["in"] /\ taken'["out"] = taken["out"] + 1
        /\ cut' \in [Goroutines -> Nat]
    <3>1. taken \in [Goroutines -> Nat] /\ cut \in [Goroutines -> Nat]
      BY DEF TypeOK
    <3>2. /\ taken' = [taken EXCEPT !["out"] = taken["out"] + 1]
          /\ cut' = [cut EXCEPT !["out"] = taken["out"] + 1]
      BY <1>23 DEF ReadOutCut
    <3> QED BY <1>1, <3>1, <3>2
  <2>4. taken'["out"] <= wrote
    BY <1>1, <2>2, <2>3 DEF OutInv, PipeContinues
  <2> QED BY <1>1, <1>23, <2>1, <2>2, <2>3, <2>4 DEF TypeOK, ReadOutCut
<1>14. CASE ReadOutEnds
  BY <1>14 DEF TypeOK, ReadOutEnds, Ends, others
<1>15. CASE Relay
  <2>1. PICK start \in Starts : calls' = [calls EXCEPT !["out"] = WriteCalls("out", taken["out"], start)]
    BY <1>15 DEF Relay, Starts
  <2>3. WriteCalls("out", taken["out"], start) \in Seq(Seq(Pieces))
    BY <1>1, LineTypes
  <2>2. calls' \in [Goroutines -> Seq(Seq(Pieces))]
    BY <1>15, <2>1, <2>3 DEF TypeOK
  <2> QED BY <1>15, <2>2 DEF TypeOK, Relay, others, pipes
<1>16. CASE Wait
  BY <1>16 DEF TypeOK, Wait, others
<1>17. CASE JoinBoth
  BY <1>17 DEF TypeOK, JoinBoth, Join, others, pipes
<1>18. CASE Interrupt
  <2>1. CASE main = "waiting"
    BY <1>18, <1>21, <2>1 DEF TypeOK, Interrupt
  <2>2. CASE main # "waiting"
    BY <1>18, <2>2 DEF TypeOK, Interrupt
  <2> QED BY <2>1, <2>2
<1>19. CASE UNCHANGED vars
  BY <1>19 DEF TypeOK, vars, others, pipes
<1> QED
  BY <1>1, <1>2, <1>3, <1>4, <1>5, <1>6, <1>7, <1>8, <1>9, <1>10, <1>11, <1>12, <1>13, <1>14, <1>15,
     <1>16, <1>17, <1>18, <1>19, <1>22, <1>23, Zenon DEF Next, In, Out

-----------------------------------------------------------------------------
(* Where in its message each goroutine is *)

\* A step of a party other than the goroutines leaves their state alone.
LEMMA Elsewhere ==
  ASSUME \/ ClientSends \/ ClientCloses \/ ChildReads \/ ChildWrites \/ ChildExits
         \/ Wait \/ JoinBoth \/ Interrupt \/ UNCHANGED vars
  PROVE  /\ UNCHANGED <<pc, taken, calls, stdout, forwarded, unsaid>>
         /\ inOpen' => inOpen
BY DEF ClientSends, ClientCloses, ChildReads, ChildWrites, ChildExits, Wait, JoinBoth, Interrupt,
       vars, others, pipes

LEMMA CallsNext == TypeOK /\ CallsAreDue /\ [Next]_vars => CallsAreDue'
<1> SUFFICES ASSUME TypeOK, CallsAreDue, [Next]_vars PROVE CallsAreDue'
  OBVIOUS
<1>1. /\ taken \in [Goroutines -> Nat] /\ calls \in [Goroutines -> Seq(Seq(Pieces))]
      /\ pc \in [Goroutines -> {"read", "decide", "write", "reply", "ended"}]
      /\ Goroutines = {"in", "out"}
  BY DEF TypeOK, Goroutines
<1>2. CASE ClientSends \/ ClientCloses \/ ChildReads \/ ChildWrites \/ ChildExits
         \/ Wait \/ JoinBoth \/ Interrupt \/ UNCHANGED vars
  <2>1. UNCHANGED <<pc, taken, calls>> /\ (inOpen' => inOpen)
    BY <1>2, Elsewhere
  <2> QED BY <2>1 DEF CallsAreDue, Holds, WriteCalls
<1>3. CASE ReadIn
  <2>1. pc' = [pc EXCEPT !["in"] = pc'["in"]] /\ pc["in"] = "read"
        /\ (pc'["in"] \in {"decide", "write"} \/ (pc'["in"] = "ended" /\ ~inOpen'))
    BY <1>1, <1>3 DEF ReadIn, Ends
  <2>2. taken' = [taken EXCEPT !["in"] = taken["in"] + 1] /\ calls' = calls
    BY <1>3 DEF ReadIn
  <2>3. calls["in"] = <<>>
    BY <1>1, <2>1 DEF CallsAreDue
  <2> QED BY <1>1, <2>1, <2>2, <2>3 DEF CallsAreDue, Holds, WriteCalls
<1>4. CASE ReadInEnds
  <2>1. /\ pc["in"] = "read" /\ pc' = [pc EXCEPT !["in"] = "ended"] /\ ~inOpen'
        /\ UNCHANGED <<taken, calls>>
    BY <1>4 DEF ReadInEnds, Ends
  <2> QED BY <1>1, <2>1 DEF CallsAreDue, Holds, WriteCalls
<1>5. CASE Pass
  <2>1. /\ pc["in"] = "decide" /\ pc' = [pc EXCEPT !["in"] = "write"]
        /\ UNCHANGED <<taken, calls>>
    BY <1>5 DEF Pass
  <2> QED BY <1>1, <2>1 DEF CallsAreDue, Holds, WriteCalls
<1>6. CASE Refuse
  <2>1. /\ pc["in"] = "decide" /\ pc' = [pc EXCEPT !["in"] = "reply"] /\ taken' = taken
        /\ calls' = [calls EXCEPT !["in"] = WriteCalls("in", taken["in"], "text")]
    BY <1>6 DEF Refuse
  <2>2. WriteCalls("in", taken["in"], "text") # <<>> /\ "text" \in Starts
    BY <1>1, LineTypes DEF Starts
  <2>3. /\ calls'["in"] = WriteCalls("in", taken'["in"], "text") /\ calls'["out"] = calls["out"]
        /\ \A start \in Starts :
             WriteCalls("out", taken'["out"], start) = WriteCalls("out", taken["out"], start)
    BY <1>1, <2>1, Zenon
  <2> QED BY <1>1, <2>1, <2>2, <2>3 DEF CallsAreDue, Holds
<1>7. ASSUME NEW g \in Goroutines, Write(g) PROVE CallsAreDue'
  <2>1. /\ pc[g] = "reply" /\ taken' = taken /\ inOpen' = inOpen
        /\ calls' = [calls EXCEPT ![g] = Tail(calls[g])] /\ calls[g] # <<>>
        /\ pc' = [pc EXCEPT ![g] = IF Len(calls[g]) = 1 THEN "read" ELSE "reply"]
    BY <1>7 DEF Write, pipes
  <2>2. (\E start \in Starts : calls[g] = WriteCalls(g, taken[g], start)) /\ taken[g] \in Nat
    BY <1>1, <2>1, Zenon DEF CallsAreDue
  <2>3. Tail(calls[g]) = <<>> /\ Len(calls[g]) = 1
    BY <2>2, LineTypes
  <2>4. calls' = [calls EXCEPT ![g] = <<>>] /\ pc' = [pc EXCEPT ![g] = "read"]
    BY <2>1, <2>3, Zenon
  <2>5. \A h \in Goroutines : \A start \in Starts :
          WriteCalls(h, taken'[h], start) = WriteCalls(h, taken[h], start)
    BY <2>1, Zenon
  <2>6. "in" # "out"
    OBVIOUS
  <2>7. CASE g = "out"
    BY <1>1, <2>1, <2>4, <2>5, <2>7 DEF CallsAreDue, Holds
  <2>8. CASE g = "in"
    BY <1>1, <2>1, <2>4, <2>5, <2>8 DEF CallsAreDue, Holds
  <2> QED BY <1>1, <2>7, <2>8
<1>8. CASE WriteChild
  <2>1. /\ pc["in"] = "write" /\ UNCHANGED <<taken, calls>>
        /\ pc' = [pc EXCEPT !["in"] = pc'["in"]]
        /\ (pc'["in"] = "read" /\ inOpen' = inOpen) \/ (pc'["in"] = "ended" /\ ~inOpen')
    BY <1>1, <1>8 DEF WriteChild, Ends
  <2> QED BY <1>1, <2>1 DEF CallsAreDue, Holds, WriteCalls
<1>9. CASE ReadOut
  <2>1. pc' = [pc EXCEPT !["out"] = pc'["out"]] /\ pc["out"] = "read"
        /\ pc'["out"] \in {"reply", "ended"} /\ inOpen' = inOpen
    BY <1>1, <1>9 DEF ReadOut, Ends
  <2>2. taken' = [taken EXCEPT !["out"] = taken["out"] + 1] /\ calls' = calls
    BY <1>9 DEF ReadOut
  <2>3. calls["out"] = <<>>
    BY <1>1, <2>1 DEF CallsAreDue
  <2> QED BY <1>1, <2>1, <2>2, <2>3 DEF CallsAreDue, Holds, WriteCalls
<1>12. CASE ReadOutCut
  <2>1. pc' = [pc EXCEPT !["out"] = "reply"] /\ pc["out"] = "read" /\ inOpen' = inOpen
    BY <1>1, <1>12 DEF ReadOutCut
  <2>2. taken' = [taken EXCEPT !["out"] = taken["out"] + 1] /\ calls' = calls
    BY <1>12 DEF ReadOutCut
  <2>3. calls["out"] = <<>>
    BY <1>1, <2>1 DEF CallsAreDue
  <2> QED BY <1>1, <2>1, <2>2, <2>3 DEF CallsAreDue, Holds, WriteCalls
<1>13. ASSUME NEW g \in Goroutines, WriteFails(g) PROVE CallsAreDue'
  <2>1. /\ pc[g] = "reply" /\ taken' = taken
        /\ calls' = [calls EXCEPT ![g] = <<>>]
        /\ \/ g = "out" /\ pc' = [pc EXCEPT ![g] = "ended"] /\ inOpen' = inOpen
           \/ g = "in" /\ pc' = [pc EXCEPT ![g] = "read"] /\ inOpen' = inOpen
    BY <1>1, <1>13 DEF WriteFails, Ends
  <2>5. \A h \in Goroutines : \A start \in Starts :
          WriteCalls(h, taken'[h], start) = WriteCalls(h, taken[h], start)
    BY <2>1, Zenon
  <2>6. "in" # "out"
    OBVIOUS
  <2>2. CASE g = "out"
    <3>1. /\ pc'["out"] = "ended" /\ pc'["in"] = pc["in"] /\ inOpen' = inOpen /\ taken' = taken
          /\ calls'["out"] = <<>> /\ calls'["in"] = calls["in"]
      BY <1>1, <2>1, <2>2
    <3> QED BY <1>1, <2>5, <3>1 DEF CallsAreDue, Holds
  <2>3. CASE g = "in"
    <3>1. /\ pc'["in"] = "read" /\ pc'["out"] = pc["out"] /\ inOpen' = inOpen /\ taken' = taken
          /\ calls'["in"] = <<>> /\ calls'["out"] = calls["out"]
      BY <1>1, <2>1, <2>3
    <3> QED BY <1>1, <2>5, <3>1 DEF CallsAreDue, Holds
  <2> QED BY <1>1, <2>2, <2>3
<1>10. CASE ReadOutEnds
  <2>1. /\ pc["out"] = "read" /\ pc' = [pc EXCEPT !["out"] = "ended"] /\ inOpen' = inOpen
        /\ UNCHANGED <<taken, calls>>
    BY <1>10 DEF ReadOutEnds, Ends
  <2> QED BY <1>1, <2>1 DEF CallsAreDue, Holds, WriteCalls
<1>11. CASE Relay
  <2>1. /\ pc["out"] = "reply" /\ UNCHANGED <<pc, taken, inOpen>>
        /\ \E start \in Starts : calls' = [calls EXCEPT !["out"] = WriteCalls("out", taken["out"], start)]
    BY <1>11 DEF Relay, pipes, Starts
  <2>2. /\ \E start \in Starts : calls'["out"] = WriteCalls("out", taken'["out"], start)
        /\ calls'["in"] = calls["in"]
        /\ \A start \in Starts : WriteCalls("in", taken'["in"], start) = WriteCalls("in", taken["in"], start)
    BY <1>1, <2>1, Zenon
  <2> QED BY <1>1, <2>1, <2>2 DEF CallsAreDue, Holds
<1> QED
  BY <1>1, <1>2, <1>3, <1>4, <1>5, <1>6, <1>7, <1>8, <1>9, <1>10, <1>11, <1>12, <1>13, Zenon
     DEF Next, In, Out

-----------------------------------------------------------------------------
(* Standard output *)

Line(g, n, start) ==
  <<[from |-> g, n |-> n, part |-> start], [from |-> g, n |-> n, part |-> "newline"]>>

\* A Write puts the line of the message in hand at the end of standard output.
LEMMA WriteIs ==
  ASSUME TypeOK, CallsAreDue, NEW g \in Goroutines, Write(g)
  PROVE  /\ \E start \in Starts : /\ stdout' = stdout \o Line(g, taken[g], start)
                                  /\ calls[g] = WriteCalls(g, taken[g], start)
         /\ pc[g] = "reply" /\ pc' = [pc EXCEPT ![g] = "read"]
         /\ calls' = [calls EXCEPT ![g] = <<>>]
         /\ taken[g] \in Nat /\ taken[g] >= 1
         /\ UNCHANGED <<setting, others, pipes, taken, forwarded, unsaid, main>>
<1>1. /\ pc[g] = "reply" /\ calls[g] # <<>> /\ stdout' = stdout \o Head(calls[g])
      /\ pc' = [pc EXCEPT ![g] = IF Len(calls[g]) = 1 THEN "read" ELSE "reply"]
      /\ calls' = [calls EXCEPT ![g] = Tail(calls[g])]
      /\ UNCHANGED <<setting, others, pipes, taken, forwarded, unsaid, main>>
  BY DEF Write
<1>5. taken[g] \in Nat
  BY Zenon DEF TypeOK
<1>2. PICK start \in Starts : calls[g] = WriteCalls(g, taken[g], start)
  BY <1>1, Zenon DEF CallsAreDue
<1>3. taken[g] >= 1
  BY <1>1 DEF CallsAreDue, Holds
<1>4. Head(calls[g]) = Line(g, taken[g], start) /\ Len(calls[g]) = 1 /\ Tail(calls[g]) = <<>>
  BY <1>2, <1>5, LineTypes DEF Line
<1> QED BY <1>1, <1>2, <1>3, <1>4, <1>5, Zenon

\* What a line at the end adds to standard output.
LEMMA LineAdds ==
  ASSUME NEW out \in Seq(Pieces), NEW g \in Goroutines, NEW n \in Nat, NEW start \in Starts
  PROVE  /\ Len(out \o Line(g, n, start)) = Len(out) + 2
         /\ \A i \in 1..Len(out) : (out \o Line(g, n, start))[i] = out[i]
         /\ (out \o Line(g, n, start))[Len(out) + 1] = [from |-> g, n |-> n, part |-> start]
         /\ (out \o Line(g, n, start))[Len(out) + 2] = [from |-> g, n |-> n, part |-> "newline"]
<1> DEFINE text == [from |-> g, n |-> n, part |-> start]
           newline == [from |-> g, n |-> n, part |-> "newline"]
           line == <<text, newline>>
<1>1. text \in Pieces /\ newline \in Pieces
  BY DEF Pieces, Starts
<1> HIDE DEF text, newline
<1>2. line \in Seq(Pieces) /\ Len(line) = 2 /\ line[1] = text /\ line[2] = newline
  BY <1>1
<1> HIDE DEF line
<1>3. /\ Len(out \o line) = Len(out) + 2
      /\ \A i \in 1..Len(out) : (out \o line)[i] = out[i]
      /\ (out \o line)[Len(out) + 1] = text /\ (out \o line)[Len(out) + 2] = newline
  <2> DEFINE all == out \o line
  <2>1. /\ Len(all) = Len(out) + Len(line) /\ Len(out) \in Nat
        /\ \A i \in 1..Len(out) + Len(line) : all[i] = IF i <= Len(out) THEN out[i] ELSE line[i - Len(out)]
    <3>1. line \in Seq(Pieces) /\ Len(out) \in Nat
      BY <1>2
    <3> QED BY <3>1, ConcatProperties, Zenon
  <2> HIDE DEF all
  <2>2. \A i \in 1..Len(out) + 2 : all[i] = IF i <= Len(out) THEN out[i] ELSE line[i - Len(out)]
    BY <1>2, <2>1, Zenon
  <2> DEFINE L == Len(out)
  <2>3. /\ L + 1 \in 1..L + 2 /\ L + 2 \in 1..L + 2 /\ ~(L + 1 <= L) /\ ~(L + 2 <= L)
        /\ (L + 1) - L = 1 /\ (L + 2) - L = 2
        /\ \A i \in 1..L : i \in 1..L + 2 /\ i <= L
    BY <2>1
  <2>4. all[L + 1] = line[1] /\ all[L + 2] = line[2] /\ \A i \in 1..L : all[i] = out[i]
    BY <2>2, <2>3, Zenon
  <2> QED BY <1>2, <2>1, <2>4, Zenon DEF all, L
<1>4. line = Line(g, n, start)
  BY Zenon DEF line, Line, text, newline
<1> QED BY <1>3, <1>4, Zenon DEF text, newline

\* Steps other than a Write leave standard output alone.
LEMMA OutputStays ==
  ASSUME [Next]_vars, ~Write("in"), ~Write("out")
  PROVE  stdout' = stdout
BY DEF Next, In, Out, vars, others, pipes, ClientSends, ClientCloses, ChildReads, ChildWrites, ChildExits,
       ReadIn, ReadInEnds, Pass, Refuse, WriteFails, WriteChild, ReadOut, ReadOutCut, ReadOutEnds, Relay, Wait,
       JoinBoth, Interrupt

LEMMA LinesNext == TypeOK /\ CallsAreDue /\ LinesStayWhole /\ [Next]_vars => LinesStayWhole'
<1> SUFFICES ASSUME TypeOK, CallsAreDue, LinesStayWhole, [Next]_vars PROVE LinesStayWhole'
  OBVIOUS
<1>1. ASSUME NEW g \in Goroutines, Write(g) PROVE LinesStayWhole'
  <2>9. PICK start \in Starts : stdout' = stdout \o Line(g, taken[g], start)
    BY <1>1, WriteIs, Zenon
  <2> DEFINE n == taken[g]
             L == Len(stdout)
             text == [from |-> g, n |-> n, part |-> start]
             newline == [from |-> g, n |-> n, part |-> "newline"]
  <2>1. n \in Nat /\ stdout \in Seq(Pieces) /\ L \in Nat /\ stdout' = stdout \o Line(g, n, start)
    <3>1. n \in Nat /\ stdout' = stdout \o Line(g, n, start)
      BY <1>1, <2>9, WriteIs, Zenon
    <3>2. stdout \in Seq(Pieces)
      BY Sizes
    <3> QED BY <3>1, <3>2
  <2>2. /\ Len(stdout') = L + 2
        /\ \A i \in 1..L : stdout'[i] = stdout[i]
        /\ stdout'[L + 1] = text /\ stdout'[L + 2] = newline
    BY <2>1, LineAdds
  <2>3. text.part # "newline" /\ text \in {[newline EXCEPT !.part = t] : t \in {"text", "torn"}}
    BY DEF Starts
  <2> HIDE DEF n, L, text, newline
  <2>4. SUFFICES ASSUME NEW i \in 1..Len(stdout'), stdout'[i].part = "newline"
                 PROVE  /\ i > 1
                        /\ stdout'[i - 1] \in {[stdout'[i] EXCEPT !.part = t] : t \in {"text", "torn"}}
    BY <2>4 DEF LinesStayWhole
  <2>5. CASE i \in 1..L
    <3>1. i > 1 /\ stdout[i - 1] \in {[stdout[i] EXCEPT !.part = t] : t \in {"text", "torn"}}
      BY <2>2, <2>4, <2>5 DEF LinesStayWhole, L
    <3>3. i - 1 \in 1..L
      BY <2>1, <2>5, <3>1
    <3>2. stdout'[i - 1] = stdout[i - 1] /\ stdout'[i] = stdout[i]
      BY <2>2, <2>5, <3>3
    <3> QED BY <3>1, <3>2, Zenon
  <2>6. i # L + 1
    BY <2>2, <2>3, <2>4
  <2>7. CASE i = L + 2
    <3>1. i > 1 /\ i - 1 = L + 1
      BY <2>1, <2>7
    <3>2. stdout'[i] = newline /\ stdout'[i - 1] = text
      BY <2>2, <2>7, <3>1
    <3> QED BY <2>3, <3>1, <3>2, Zenon
  <2>8. i \in 1..L \/ i = L + 1 \/ i = L + 2
    <3>1. i \in 1..(L + 2)
      BY <2>2, <2>4, Zenon
    <3> QED BY <2>1, <3>1
  <2> QED BY <2>5, <2>6, <2>7, <2>8, Zenon
<1>2. CASE ~Write("in") /\ ~Write("out")
  BY <1>2, OutputStays DEF LinesStayWhole
<1> QED BY <1>1, <1>2 DEF Goroutines

\* What a Write does to the messages whose lines are on standard output.
LEMMA NumbersNext ==
  ASSUME TypeOK, CallsAreDue, NEW g \in Goroutines, Write(g),
         InOrder(g), Numbers(g) \subseteq 1..(taken[g] - 1)
  PROVE  /\ InOrder(g)'
         /\ Numbers(g)' = Numbers(g) \cup {taken[g]}
         /\ \A h \in Goroutines \ {g} : Numbers(h)' = Numbers(h) /\ (InOrder(h) => InOrder(h)')
         /\ \A h \in Goroutines \ {g} : Texts(h)' = Texts(h)
         /\ \A h \in Goroutines : \A i \in Texts(h) : stdout'[i] = stdout[i]
         /\ \E start \in Starts :
              /\ calls[g] = WriteCalls(g, taken[g], start)
              /\ \E last \in Nat : /\ Texts(g)' = Texts(g) \cup {last}
                                   /\ stdout'[last].part = start /\ stdout'[last].n = taken[g]
<1>13. PICK start \in Starts : /\ stdout' = stdout \o Line(g, taken[g], start)
                               /\ calls[g] = WriteCalls(g, taken[g], start)
  BY WriteIs, Zenon
<1> DEFINE n == taken[g]
           L == Len(stdout)
           text == [from |-> g, n |-> n, part |-> start]
           newline == [from |-> g, n |-> n, part |-> "newline"]
<1>1. n \in Nat /\ stdout \in Seq(Pieces) /\ L \in Nat /\ stdout' = stdout \o Line(g, n, start)
  <2>1. n \in Nat /\ stdout' = stdout \o Line(g, n, start)
    BY <1>13, WriteIs, Zenon
  <2>2. stdout \in Seq(Pieces)
    BY Sizes
  <2> QED BY <2>1, <2>2
<1>2. /\ Len(stdout') = L + 2
      /\ \A i \in 1..L : stdout'[i] = stdout[i]
      /\ stdout'[L + 1] = text /\ stdout'[L + 2] = newline
  BY <1>1, LineAdds
<1>3. text.part = start /\ start # "newline" /\ text.from = g /\ text.n = n /\ newline.part = "newline"
  BY DEF Starts
<1> HIDE DEF n, L, text, newline
<1>4. 1..(L + 2) = (1..L) \cup {L + 1, L + 2}
  BY <1>1
<1>5. Texts(g)' = Texts(g) \cup {L + 1}
  BY <1>2, <1>3, <1>4 DEF Texts, L
<1>6. \A h \in Goroutines \ {g} : Texts(h)' = Texts(h)
  BY <1>2, <1>3, <1>4 DEF Texts, L
<1>7. \A h : Texts(h) \subseteq 1..L
  BY DEF Texts, L
<1>8. \A h : \A i \in Texts(h) : stdout'[i].n = stdout[i].n /\ stdout'[i] = stdout[i]
  BY <1>2, <1>7
<1>9. Numbers(g)' = Numbers(g) \cup {n}
  BY <1>2, <1>3, <1>5, <1>8 DEF Numbers
<1>10. \A h \in Goroutines \ {g} : Numbers(h)' = Numbers(h)
  BY <1>6, <1>8 DEF Numbers
<1>11. InOrder(g)'
  <2> SUFFICES ASSUME NEW i \in Texts(g)', NEW j \in Texts(g)', i < j PROVE stdout'[i].n < stdout'[j].n
    BY DEF InOrder
  <2>1. CASE i \in Texts(g) /\ j \in Texts(g)
    BY <1>8, <2>1 DEF InOrder
  <2>2. CASE i \in Texts(g) /\ j = L + 1
    <3>1. stdout[i].n \in Numbers(g)
      BY <2>2 DEF Numbers
    <3>2. stdout[i].n < n
      BY <1>1, <3>1 DEF n
    <3> QED BY <1>2, <1>3, <1>8, <2>2, <3>2
  <2>3. ~(i = L + 1 /\ j \in Texts(g)) /\ ~(i = L + 1 /\ j = L + 1)
    BY <1>1, <1>7
  <2> QED BY <1>5, <2>1, <2>2, <2>3
<1>12. \A h \in Goroutines \ {g} : InOrder(h) => InOrder(h)'
  BY <1>6, <1>8 DEF InOrder
<1>14. \E last \in Nat : /\ Texts(g)' = Texts(g) \cup {last}
                         /\ stdout'[last].part = start /\ stdout'[last].n = n
  BY <1>1, <1>2, <1>3, <1>5
<1> QED BY <1>6, <1>8, <1>9, <1>10, <1>11, <1>12, <1>13, <1>14 DEF n

-----------------------------------------------------------------------------
(* PipelineIn *)

\* Taking the first of a queue and adding it to what was taken before.
LEMMA HandOver ==
  ASSUME NEW S, NEW s \in Seq(S), NEW q \in Seq(S), q # <<>>
  PROVE  Append(s, Head(q)) \o Tail(q) = s \o q
<1>1. /\ Head(q) \in S /\ Tail(q) \in Seq(S) /\ Len(q) \in Nat \ {0} /\ Len(Tail(q)) = Len(q) - 1
      /\ Head(q) = q[1] /\ \A i \in 1..(Len(q) - 1) : Tail(q)[i] = q[i + 1]
  BY TakeFirst
<1>2. /\ Append(s, Head(q)) \in Seq(S) /\ Len(s) \in Nat /\ Len(Append(s, Head(q))) = Len(s) + 1
      /\ \A i \in 1..Len(s) : Append(s, Head(q))[i] = s[i]
      /\ Append(s, Head(q))[Len(s) + 1] = Head(q)
  BY <1>1, PutLast
<1> DEFINE a == Append(s, Head(q))
           t == Tail(q)
<1> HIDE DEF a, t
<1>3. /\ a \o t \in Seq(S) /\ Len(a \o t) = Len(a) + Len(t)
      /\ \A i \in 1..Len(a) + Len(t) : (a \o t)[i] = IF i <= Len(a) THEN a[i] ELSE t[i - Len(a)]
  BY <1>1, <1>2, ConcatProperties, Zenon DEF a, t
<1>4. /\ s \o q \in Seq(S) /\ Len(s \o q) = Len(s) + Len(q)
      /\ \A i \in 1..Len(s) + Len(q) : (s \o q)[i] = IF i <= Len(s) THEN s[i] ELSE q[i - Len(s)]
  BY ConcatProperties, Zenon
<1>5. Len(a \o t) = Len(s \o q)
  BY <1>1, <1>2, <1>3, <1>4 DEF a, t
<1> DEFINE x == a \o t
           y == s \o q
<1>6. ASSUME NEW i \in 1..Len(y) PROVE x[i] = y[i]
  <2>1. i \in 1..Len(s) + Len(q) /\ i \in 1..Len(a) + Len(t)
    BY <1>3, <1>4, <1>5, <1>6, Zenon
  <2>2. CASE i <= Len(s)
    BY <1>1, <1>2, <1>3, <1>4, <2>1, <2>2 DEF a
  <2>3. CASE i = Len(s) + 1
    <3>1. y[i] = q[i - Len(s)] /\ i - Len(s) = 1
      BY <1>2, <1>4, <2>1, <2>3
    <3>2. x[i] = a[i]
      BY <1>2, <1>3, <2>1, <2>3 DEF a
    <3> QED BY <1>1, <1>2, <2>3, <3>1, <3>2 DEF a
  <2>4. CASE i > Len(s) + 1
    <3>1. y[i] = q[i - Len(s)]
      BY <1>2, <1>4, <2>1, <2>4
    <3>2. x[i] = t[i - Len(a)] /\ Len(a) = Len(s) + 1
      BY <1>2, <1>3, <2>1, <2>4 DEF a
    <3>3. i - Len(a) \in 1..(Len(q) - 1) /\ (i - Len(a)) + 1 = i - Len(s)
      BY <1>1, <1>2, <2>1, <2>4, <3>2
    <3>4. t[i - Len(a)] = q[(i - Len(a)) + 1]
      BY <1>1, <3>3, Zenon DEF t
    <3> QED BY <3>1, <3>2, <3>3, <3>4, Zenon
  <2> QED BY <1>2, <2>1, <2>2, <2>3, <2>4
<1>7. a \o t = s \o q
  <2> HIDE DEF x, y
  <2>1. x \in Seq(S) /\ y \in Seq(S) /\ Len(x) = Len(y)
    BY <1>3, <1>4, <1>5, Zenon DEF x, y
  <2>2. x = y
    BY <1>6, <2>1, SeqEqual
  <2> QED BY <2>2, Zenon DEF x, y
<1> QED BY <1>7, Zenon DEF a, t

\* A message that is the greatest goes to the end of an ascending sequence.
LEMMA AscendingAppend ==
  ASSUME NEW m \in Nat, NEW s \in Seq(1..m), NEW n \in Nat, Ascending(s), Set(s) \subseteq 1..(n - 1)
  PROVE  Ascending(Append(s, n)) /\ Set(Append(s, n)) = Set(s) \cup {n}
<1> DEFINE a == Append(s, n)
           L == Len(s)
<1>1. L \in Nat /\ Len(a) = L + 1 /\ (\A i \in 1..L : a[i] = s[i]) /\ a[L + 1] = n
  OBVIOUS
<1>2. 1..(L + 1) = (1..L) \cup {L + 1}
  BY <1>1
<1> HIDE DEF a
<1>3. Set(a) = Set(s) \cup {n}
  BY <1>1, <1>2 DEF Set
<1>4. Ascending(a)
  <2> SUFFICES ASSUME NEW i \in 1..(L + 1), NEW j \in 1..(L + 1), i < j PROVE a[i] < a[j]
    BY <1>1 DEF Ascending
  <2>1. i \in 1..L
    BY <1>1
  <2>2. CASE j \in 1..L
    BY <1>1, <2>1, <2>2 DEF Ascending
  <2>3. CASE j = L + 1
    <3>1. s[i] \in Set(s)
      BY <2>1 DEF Set
    <3>2. s[i] \in 1..(n - 1)
      BY <3>1
    <3> QED BY <1>1, <2>1, <2>3, <3>2
  <2> QED BY <1>2, <2>2, <2>3
<1> QED BY <1>3, <1>4 DEF a

\* InInv from what it is made of, where a step leaves it alone.
LEMMA InStays ==
  ASSUME InInv, stdout' = stdout, forwarded' = forwarded, unsaid' = unsaid, Done("in")' = Done("in"),
         inOpen' => inOpen,
         given' \o childIn' = given \o childIn
  PROVE  InInv'
<1>1. Numbers("in")' = Numbers("in") /\ Texts("in")' = Texts("in") /\ (InOrder("in") => InOrder("in")')
  BY DEF Numbers, Texts, InOrder
<1> QED BY <1>1 DEF InInv

LEMMA InNext == TypeOK /\ CallsAreDue /\ InInv /\ OutInv /\ [Next]_vars => InInv'
<1> SUFFICES ASSUME TypeOK, CallsAreDue, InInv, OutInv, [Next]_vars PROVE InInv'
  OBVIOUS
<1>1. /\ taken \in [Goroutines -> Nat]
      /\ pc \in [Goroutines -> {"read", "decide", "write", "reply", "ended"}]
      /\ "in" \in Goroutines /\ "out" \in Goroutines /\ taken["in"] \in Nat /\ taken["out"] \in Nat
      /\ MaxInput \in Nat
  BY StdioAssumption DEF TypeOK, Goroutines
<1>2. CASE ChildReads
  <2>1. /\ Append(given, Head(childIn)) \o Tail(childIn) = given \o childIn
    BY <1>2, HandOver DEF ChildReads, TypeOK
  <2>2. /\ UNCHANGED <<stdout, forwarded, unsaid, pc, taken, inOpen>>
        /\ given' = Append(given, Head(childIn)) /\ childIn' = Tail(childIn)
    BY <1>2 DEF ChildReads
  <2>3. Done("in")' = Done("in")
    BY <2>2 DEF Done, Holds
  <2> QED BY <2>1, <2>2, <2>3, InStays
<1>3. CASE ClientSends \/ ClientCloses \/ ChildWrites \/ ChildExits
             \/ Wait \/ JoinBoth \/ Interrupt \/ UNCHANGED vars
  <2>1. UNCHANGED <<pc, taken, stdout, forwarded, unsaid>> /\ (inOpen' => inOpen)
    BY <1>3, Elsewhere, Zenon
  <2>2. UNCHANGED <<given, childIn>>
    BY <1>3 DEF ClientSends, ClientCloses, ChildWrites, ChildExits, Wait, JoinBoth, Interrupt, vars,
                others, pipes
  <2>3. Done("in")' = Done("in")
    BY <2>1 DEF Done, Holds
  <2> QED BY <2>1, <2>2, <2>3, InStays
<1>4. CASE ReadOut \/ ReadOutCut \/ ReadOutEnds \/ Relay \/ WriteFails("out")
  <2>1. /\ UNCHANGED <<stdout, forwarded, unsaid, given, childIn>> /\ inOpen' = inOpen
        /\ pc'["in"] = pc["in"] /\ taken'["in"] = taken["in"]
    BY <1>1, <1>4 DEF ReadOut, ReadOutCut, ReadOutEnds, Relay, WriteFails, Ends, others, pipes
  <2>3. Done("in")' = Done("in")
    BY <2>1 DEF Done, Holds
  <2> QED BY <2>1, <2>3, InStays
<1>5. CASE Write("out")
  <2>1. /\ pc["out"] = "reply" /\ pc' = [pc EXCEPT !["out"] = "read"]
        /\ UNCHANGED <<given, childIn, inOpen, taken, forwarded, unsaid>>
    BY <1>1, <1>5, WriteIs DEF others, pipes
  <2>2. Numbers("out") \subseteq 1..(taken["out"] - 1)
    BY <2>1 DEF OutInv, Relayed, Done, Holds
  <2>3. Numbers("in")' = Numbers("in") /\ (InOrder("in") => InOrder("in")')
    BY <1>1, <1>5, <2>2, NumbersNext DEF OutInv, Relayed, Goroutines
  <2>4. pc'["in"] = pc["in"]
    BY <1>1, <2>1
  <2>5. Done("in")' = Done("in")
    BY <2>1, <2>4 DEF Done, Holds
  <2> QED BY <2>1, <2>3, <2>5 DEF InInv
<1>6. CASE ReadIn
  <2>1. /\ UNCHANGED <<stdout, forwarded, unsaid, given, childIn>>
        /\ pc["in"] = "read" /\ taken'["in"] = taken["in"] + 1
        /\ \/ pc'["in"] \in {"decide", "write"} /\ inOpen' = inOpen
           \/ pc'["in"] = "ended" /\ ~inOpen'
    BY <1>1, <1>6 DEF ReadIn, Ends, others
  <2>2. Done("in") = taken["in"]
    BY <2>1 DEF Done, Holds
  <2>3. CASE pc'["in"] \in {"decide", "write"} /\ inOpen' = inOpen
    <3>1. Done("in")' = Done("in")
      BY <1>1, <2>1, <2>2, <2>3 DEF Done, Holds
    <3> QED BY <2>1, <2>3, <3>1, InStays
  <2>4. CASE pc'["in"] = "ended" /\ ~inOpen'
    <3>1. Done("in")' = taken["in"] + 1
      BY <2>1, <2>4 DEF Done, Holds
    <3>2. 1..Done("in") \subseteq 1..Done("in")'
      BY <1>1, <2>2, <3>1
    <3>3. Numbers("in")' = Numbers("in") /\ (InOrder("in") => InOrder("in")')
      BY <2>1 DEF Numbers, Texts, InOrder
    <3> QED BY <2>1, <2>4, <3>2, <3>3 DEF InInv
  <2> QED BY <2>1, <2>3, <2>4
<1>7. CASE ReadInEnds
  <2>1. /\ UNCHANGED <<stdout, forwarded, unsaid, given, childIn, taken>> /\ ~inOpen'
        /\ pc["in"] = "read" /\ pc'["in"] = "ended"
    BY <1>1, <1>7 DEF ReadInEnds, Ends, others
  <2>2. Done("in")' = Done("in")
    BY <2>1 DEF Done, Holds
  <2> QED BY <2>1, <2>2, InStays
<1>8. CASE Pass \/ Refuse
  <2>1. /\ UNCHANGED <<stdout, forwarded, unsaid, given, childIn, taken, inOpen>>
        /\ pc["in"] = "decide" /\ pc'["in"] \in {"write", "reply"}
    BY <1>1, <1>8 DEF Pass, Refuse, others, pipes
  <2>2. Done("in")' = Done("in")
    BY <2>1 DEF Done, Holds
  <2> QED BY <2>1, <2>2, InStays
<1>9. CASE Write("in")
  <2>1. /\ pc["in"] = "reply" /\ pc' = [pc EXCEPT !["in"] = "read"] /\ taken["in"] >= 1
        /\ UNCHANGED <<given, childIn, inOpen, taken, forwarded, unsaid>>
    BY <1>1, <1>9, WriteIs DEF others, pipes
  <2>2. Done("in") = taken["in"] - 1 /\ Done("in")' = taken["in"]
    BY <1>1, <2>1 DEF Done, Holds
  <2>3. Numbers("in") \subseteq 1..(taken["in"] - 1)
    BY <2>2 DEF InInv
  <2>4. Numbers("in")' = Numbers("in") \cup {taken["in"]} /\ InOrder("in")'
    BY <1>1, <1>9, <2>3, NumbersNext DEF InInv
  <2>5. 1..taken["in"] = 1..(taken["in"] - 1) \cup {taken["in"]} /\ taken["in"] \notin 1..(taken["in"] - 1)
    BY <1>1, <2>1
  <2> QED BY <2>1, <2>2, <2>4, <2>5 DEF InInv
<1>10. CASE WriteChild
  <2> DEFINE n == taken["in"]
  <2>1. /\ pc["in"] = "write" /\ n >= 1
        /\ UNCHANGED <<stdout, given, taken, unsaid>>
        /\ \/ /\ childIn' = Append(childIn, n) /\ forwarded' = Append(forwarded, n)
              /\ pc'["in"] = "read" /\ inOpen' = inOpen
           \/ /\ UNCHANGED <<childIn, forwarded>> /\ pc'["in"] = "ended" /\ ~inOpen'
    BY <1>1, <1>10 DEF WriteChild, Ends, others, CallsAreDue, Holds
  <2>2. Done("in") = n - 1 /\ Done("in")' = n
    BY <1>1, <2>1 DEF Done, Holds
  <2>3. Numbers("in")' = Numbers("in") /\ (InOrder("in") => InOrder("in")')
    BY <2>1 DEF Numbers, Texts, InOrder
  <2>4. 1..n = 1..(n - 1) \cup {n} /\ n \notin 1..(n - 1)
    BY <1>1, <2>1
  <2>5. Set(forwarded) \cup Numbers("in") \cup unsaid \subseteq 1..(n - 1)
    BY <2>2 DEF InInv
  <2> HIDE DEF n
  <2>6. CASE childIn' = Append(childIn, n) /\ forwarded' = Append(forwarded, n)
             /\ pc'["in"] = "read" /\ inOpen' = inOpen
    <3>1. forwarded \in Seq(1..MaxInput) /\ childIn \in Seq(1..MaxInput) /\ given \in Seq(1..MaxInput) /\ n \in Nat
      BY <1>1, Sizes DEF n
    <3>2. Ascending(forwarded') /\ Set(forwarded)' = Set(forwarded) \cup {n}
      <4>1. Ascending(Append(forwarded, n)) /\ Set(Append(forwarded, n)) = Set(forwarded) \cup {n}
        BY <1>1, <2>5, <3>1, AscendingAppend DEF InInv
      <4> QED BY <2>6, <4>1, Zenon DEF Set
    <3>3. given' \o childIn' = forwarded'
      <4>1. given \o Append(childIn, n) = Append(given \o childIn, n)
        BY <3>1
      <4> QED BY <2>1, <2>6, <4>1, Zenon DEF InInv
    <3>4. inOpen => Set(forwarded) \cup Numbers("in") \cup unsaid = 1..(n - 1)
      BY <2>2 DEF InInv
    <3> DEFINE F == Set(forwarded)
               N == Numbers("in")
               was == 1..(n - 1)
    <3>5. /\ F \cup N \cup unsaid \subseteq was /\ F \cap N = {}
          /\ inOpen => F \cup N \cup unsaid = was
      BY <2>5, <3>4 DEF InInv
    <3>7. 1..Done("in")' = was \cup {n} /\ n \notin was
      BY <2>2, <2>4
    <3>8. Set(forwarded)' = F \cup {n} /\ Numbers("in")' = N /\ unsaid' = unsaid
      BY <2>1, <2>3, <3>2
    <3> HIDE DEF F, N, was
    <3>9. /\ (F \cup {n}) \cap N = {}
          /\ (F \cup {n}) \cup N \cup unsaid \subseteq was \cup {n}
          /\ inOpen => (F \cup {n}) \cup N \cup unsaid = was \cup {n}
      BY <3>5, <3>7
    <3>10. InOrder("in")'
      BY <2>3 DEF InInv
    <3> QED BY <2>6, <3>2, <3>3, <3>7, <3>8, <3>9, <3>10, Zenon DEF InInv
  <2>7. CASE UNCHANGED <<childIn, forwarded>> /\ pc'["in"] = "ended" /\ ~inOpen'
    BY <2>1, <2>2, <2>3, <2>4, <2>5, <2>7 DEF InInv
  <2> QED BY <2>1, <2>6, <2>7 DEF n
<1>11. CASE WriteFails("in")
  <2>1. /\ pc["in"] = "reply" /\ pc' = [pc EXCEPT !["in"] = "read"] /\ taken["in"] >= 1
        /\ UNCHANGED <<given, childIn, inOpen, taken, forwarded, stdout>>
        /\ unsaid' = unsaid \cup {taken["in"]}
    BY <1>1, <1>11 DEF WriteFails, Ends, others, CallsAreDue, Holds
  <2>2. Done("in") = taken["in"] - 1 /\ Done("in")' = taken["in"]
    BY <1>1, <2>1 DEF Done, Holds
  <2>4. Numbers("in")' = Numbers("in") /\ (InOrder("in") => InOrder("in")')
    BY <2>1 DEF Numbers, Texts, InOrder
  <2>5. 1..taken["in"] = 1..(taken["in"] - 1) \cup {taken["in"]} /\ taken["in"] \notin 1..(taken["in"] - 1)
    BY <1>1, <2>1
  <2> QED BY <2>1, <2>2, <2>4, <2>5 DEF InInv
<1> QED
  BY <1>2, <1>3, <1>4, <1>5, <1>6, <1>7, <1>8, <1>9, <1>10, <1>11, Zenon DEF Next, In, Out

-----------------------------------------------------------------------------
(* PipelineOut *)

\* What PipelineOut has relayed, where a step leaves it alone.
LEMMA RelayedStays ==
  ASSUME Relayed, stdout' = stdout, pc'["out"] = pc["out"], taken'["out"] = taken["out"]
  PROVE  Relayed'
<1>1. Numbers("out")' = Numbers("out") /\ (InOrder("out") => InOrder("out")')
  BY DEF Numbers, Texts, InOrder
<1>2. Done("out")' = Done("out")
  BY DEF Done, Holds
<1> QED BY <1>1, <1>2 DEF Relayed

\* And the pipe.
LEMMA PipeStays ==
  ASSUME PipeContinues, UNCHANGED <<wrote, childOut, outOpen>>, taken'["out"] = taken["out"],
         child = "exited" => child' = "exited"
  PROVE  PipeContinues'
BY DEF PipeContinues

\* What a step of the child does to the pipe, a line or a part of one.
LEMMA PipeGrows ==
  ASSUME TypeOK, PipeContinues, child = "up", wrote' = wrote + 1, childOut' = Append(childOut, wrote'),
         UNCHANGED outOpen, taken'["out"] = taken["out"]
  PROVE  PipeContinues'
<1> DEFINE n == wrote + 1
           L == Len(childOut)
           T == taken["out"]
<1>1. /\ outOpen /\ wrote = T + L /\ wrote \in Nat /\ T \in Nat /\ L \in Nat
      /\ childOut \in Seq(1..MaxOutput) /\ MaxOutput \in Nat
  BY StdioAssumption DEF PipeContinues, TypeOK, Goroutines
<1>7. n = T + (L + 1)
  <2> HIDE DEF T, L
  <2> QED BY <1>1
<1>2. Len(childOut') = L + 1 /\ (\A i \in 1..L : childOut'[i] = childOut[i]) /\ childOut'[L + 1] = n
  <2>1. childOut \in Seq(Nat) /\ n \in Nat
    BY <1>1
  <2> HIDE DEF n
  <2>2. childOut' = Append(childOut, n)
    BY DEF n
  <2> QED BY <2>1, <2>2, PutLast
<1>6. wrote' = n /\ taken'["out"] = T
  OBVIOUS
<1>3. wrote' = taken'["out"] + Len(childOut')
  BY <1>2, <1>6, <1>7, Zenon
<1>4. \A i \in 1..Len(childOut') : childOut'[i] = taken'["out"] + i
  <2> SUFFICES ASSUME NEW i \in 1..(L + 1) PROVE childOut'[i] = T + i
    BY <1>2
  <2>1. CASE i \in 1..L
    BY <1>2, <2>1 DEF PipeContinues
  <2>2. CASE i = L + 1
    <3> HIDE DEF n, T, L
    <3> QED BY <1>2, <1>7, <2>2
  <2> QED BY <1>1, <2>1, <2>2
<1>5. outOpen' /\ taken'["out"] + Len(childOut') <= wrote'
  BY <1>1, <1>2
<1> QED BY <1>3, <1>4, <1>5 DEF PipeContinues

\* Every step keeps the pipe.
LEMMA PipeNext == TypeOK /\ CallsAreDue /\ PipeContinues /\ [Next]_vars => PipeContinues'
<1> SUFFICES ASSUME TypeOK, CallsAreDue, PipeContinues, [Next]_vars PROVE PipeContinues'
  OBVIOUS
<1>1. /\ taken \in [Goroutines -> Nat] /\ "in" \in Goroutines /\ "out" \in Goroutines
      /\ taken["out"] \in Nat /\ wrote \in Nat /\ childOut \in Seq(1..MaxOutput) /\ Len(childOut) \in Nat
  BY StdioAssumption DEF TypeOK, Goroutines
<1>2. CASE ChildWrites
  BY <1>2, PipeGrows DEF ChildWrites
<1>3. ASSUME ChildStops, UNCHANGED <<outOpen, taken>> PROVE PipeContinues'
  <2>1. CASE UNCHANGED <<wrote, childOut, cut>>
    BY <1>3, <2>1, PipeStays DEF ChildStops
  <2>2. CASE ~UNCHANGED <<wrote, childOut, cut>>
    BY <1>3, <2>2, PipeGrows DEF ChildStops
  <2> QED BY <2>1, <2>2
<1>4. CASE ChildExits
  BY <1>3, <1>4 DEF ChildExits
<1>5. CASE Interrupt
  <2>1. CASE main = "waiting"
    BY <1>3, <1>5, <2>1 DEF Interrupt
  <2>2. CASE main # "waiting"
    BY <1>5, <2>2, PipeStays DEF Interrupt
  <2> QED BY <2>1, <2>2
<1>6. CASE Wait
  BY <1>6 DEF Wait, others, PipeContinues
<1>7. CASE ClientSends \/ ClientCloses \/ ChildReads \/ JoinBoth \/ UNCHANGED vars
  BY <1>7, PipeStays DEF ClientSends, ClientCloses, ChildReads, JoinBoth, vars, others, pipes
<1>8. CASE ReadIn
  <2>1. taken'["out"] = taken["out"]
    BY <1>1, <1>8 DEF ReadIn
  <2> QED BY <1>8, <2>1, PipeStays DEF ReadIn, others
<1>9. CASE ReadInEnds \/ Pass \/ Refuse \/ WriteChild \/ ReadOutEnds \/ Relay
  BY <1>9, PipeStays DEF ReadInEnds, Pass, Refuse, WriteChild, ReadOutEnds, Relay, others, pipes
<1>10. ASSUME NEW g \in Goroutines, Write(g) \/ WriteFails(g) PROVE PipeContinues'
  BY <1>10, PipeStays DEF Write, WriteFails, others, pipes
<1>11. CASE ReadOut
  <2> DEFINE T == taken["out"]
             L == Len(childOut)
  <2>1. /\ UNCHANGED <<wrote, outOpen, child>> /\ childOut # <<>> /\ childOut' = Tail(childOut)
        /\ taken'["out"] = T + 1
    BY <1>1, <1>11 DEF ReadOut, others
  <2>2. L \in Nat \ {0} /\ Len(childOut') = L - 1 /\ \A i \in 1..(L - 1) : childOut'[i] = childOut[i + 1]
    BY <1>1, <2>1, TakeFirst
  <2>3. taken'["out"] + Len(childOut') = T + L
    BY <1>1, <2>1, <2>2
  <2>4. \A i \in 1..Len(childOut') : childOut'[i] = taken'["out"] + i
    <3> SUFFICES ASSUME NEW i \in 1..(L - 1) PROVE childOut'[i] = (T + 1) + i
      BY <2>1, <2>2
    <3>1. i + 1 \in 1..L
      BY <2>2
    <3>2. childOut[i + 1] = T + (i + 1)
      BY <3>1 DEF PipeContinues
    <3> QED BY <1>1, <2>2, <3>2
  <2> QED BY <2>1, <2>3, <2>4 DEF PipeContinues
<1>12. CASE ReadOutCut
  <2>1. /\ UNCHANGED <<wrote, outOpen, child>> /\ childOut # <<>> /\ childOut' = <<>> /\ ~outOpen
        /\ taken'["out"] = taken["out"] + 1
    BY <1>1, <1>12 DEF ReadOutCut
  <2>2. Len(childOut) >= 1 /\ Len(childOut') = 0
    BY <1>1, <2>1
  <2>3. taken'["out"] + Len(childOut') <= wrote
    BY <1>1, <2>1, <2>2 DEF PipeContinues
  <2> QED BY <2>1, <2>2, <2>3 DEF PipeContinues
<1> QED
  BY <1>2, <1>4, <1>5, <1>6, <1>7, <1>8, <1>9, <1>10, <1>11, <1>12, Zenon DEF Next, In, Out, Goroutines

LEMMA OutNext == TypeOK /\ CallsAreDue /\ InInv /\ OutInv /\ [Next]_vars => OutInv'
<1> SUFFICES ASSUME TypeOK, CallsAreDue, InInv, Relayed, PipeContinues, [Next]_vars PROVE Relayed'
  BY PipeNext DEF OutInv
<1>1. /\ taken \in [Goroutines -> Nat]
      /\ pc \in [Goroutines -> {"read", "decide", "write", "reply", "ended"}]
      /\ "in" \in Goroutines /\ "out" \in Goroutines /\ taken["in"] \in Nat /\ taken["out"] \in Nat
  BY DEF TypeOK, Goroutines
<1>2. CASE ClientSends \/ ClientCloses \/ ChildReads \/ ChildWrites \/ ChildExits
             \/ Wait \/ JoinBoth \/ Interrupt \/ UNCHANGED vars
  <2>1. UNCHANGED <<pc, taken, stdout>>
    BY <1>2, Elsewhere, Zenon
  <2> QED BY <2>1, RelayedStays
<1>3. CASE ReadIn \/ ReadInEnds \/ Pass \/ Refuse \/ WriteChild \/ WriteFails("in")
  <2>1. /\ stdout' = stdout /\ pc'["out"] = pc["out"] /\ taken'["out"] = taken["out"]
    BY <1>1, <1>3 DEF ReadIn, ReadInEnds, Pass, Refuse, WriteChild, WriteFails, Ends
  <2> QED BY <2>1, RelayedStays
<1>4. CASE Relay
  <2>1. UNCHANGED <<stdout, pc, taken>>
    BY <1>4 DEF Relay
  <2> QED BY <2>1, RelayedStays
<1>5. CASE Write("in")
  <2>1. /\ pc["in"] = "reply" /\ pc' = [pc EXCEPT !["in"] = "read"] /\ UNCHANGED taken
    BY <1>1, <1>5, WriteIs
  <2>2. Numbers("in") \subseteq 1..(taken["in"] - 1)
    BY <2>1 DEF InInv, Done, Holds
  <2>3. Numbers("out")' = Numbers("out") /\ (InOrder("out") => InOrder("out")')
    BY <1>1, <1>5, <2>2, NumbersNext DEF InInv, Goroutines
  <2>4. pc'["out"] = pc["out"]
    BY <1>1, <2>1
  <2>5. Done("out")' = Done("out")
    BY <2>1, <2>4 DEF Done, Holds
  <2> QED BY <2>1, <2>3, <2>4, <2>5 DEF Relayed
<1>6. CASE ReadOut \/ ReadOutCut
  <2> DEFINE T == taken["out"]
  <2>1. /\ UNCHANGED stdout /\ pc["out"] = "read" /\ taken'["out"] = T + 1
        /\ pc'["out"] \in {"reply", "ended"}
    BY <1>1, <1>6 DEF ReadOut, ReadOutCut, Ends
  <2>3. Numbers("out")' = Numbers("out") /\ (InOrder("out") => InOrder("out")')
    BY <2>1 DEF Numbers, Texts, InOrder
  <2>4. Done("out") = T /\ (pc'["out"] # "ended" => Done("out")' = T)
    <3>1. Done("out") = T
      BY <2>1 DEF Done, Holds
    <3>2. pc'["out"] # "ended" => Done("out")' = taken'["out"] - 1
      BY <2>1 DEF Done, Holds
    <3> QED BY <1>1, <2>1, <3>1, <3>2
  <2>5. Numbers("out") = 1..T
    BY <2>1, <2>4 DEF Relayed
  <2>6. T \in 0..taken'["out"]
    BY <1>1, <2>1
  <2> HIDE DEF T
  <2> QED BY <2>3, <2>4, <2>5, <2>6 DEF Relayed
<1>7. CASE ReadOutEnds \/ WriteFails("out")
  <2>1. UNCHANGED <<stdout, taken>> /\ pc'["out"] = "ended"
    BY <1>1, <1>7 DEF ReadOutEnds, WriteFails, Ends
  <2>2. Numbers("out")' = Numbers("out") /\ (InOrder("out") => InOrder("out")')
    BY <2>1 DEF Numbers, Texts, InOrder
  <2> QED BY <2>1, <2>2 DEF Relayed
<1>8. CASE Write("out")
  <2>1. /\ pc["out"] = "reply" /\ pc' = [pc EXCEPT !["out"] = "read"] /\ taken["out"] >= 1
        /\ UNCHANGED taken
    BY <1>1, <1>8, WriteIs
  <2>2. Done("out") = taken["out"] - 1 /\ Done("out")' = taken["out"]
    BY <1>1, <2>1 DEF Done, Holds
  <2>3. Numbers("out") = 1..(taken["out"] - 1)
    BY <2>1, <2>2 DEF Relayed
  <2>4. Numbers("out")' = Numbers("out") \cup {taken["out"]} /\ InOrder("out")'
    BY <1>1, <1>8, <2>3, NumbersNext DEF Relayed
  <2>5. 1..taken["out"] = 1..(taken["out"] - 1) \cup {taken["out"]} /\ taken["out"] \in 0..taken["out"]
    BY <1>1, <2>1
  <2> QED BY <2>1, <2>2, <2>3, <2>4, <2>5 DEF Relayed
<1> QED
  BY <1>2, <1>3, <1>4, <1>5, <1>6, <1>7, <1>8, Zenon DEF Next, In, Out

-----------------------------------------------------------------------------
(* A line that is cut short *)

\* The two lines with which a message can begin differ.
LEMMA TornIsTorn ==
  ASSUME NEW g, NEW n PROVE WriteCalls(g, n, "torn") # WriteCalls(g, n, "text")
<1>1. /\ WriteCalls(g, n, "torn")[1][1].part = "torn"
      /\ WriteCalls(g, n, "text")[1][1].part = "text"
  BY DEF WriteCalls
<1> QED BY <1>1

\* Of the state that TornIsLast is about, a step leaves alone all but perhaps the
\* child, which stays gone.
LEMMA TornStays ==
  ASSUME TornIsLast, stdout' = stdout, cut'["out"] = cut["out"], calls'["out"] = calls["out"],
         taken'["out"] = taken["out"], childOut' = childOut, child = "exited" => child' = "exited"
  PROVE  TornIsLast'
<1>1. Texts("out")' = Texts("out")
  BY DEF Texts
<1>2. WriteCalls("out", taken["out"], "torn")' = WriteCalls("out", taken["out"], "torn")
  BY DEF WriteCalls
<1> QED BY <1>1, <1>2 DEF TornIsLast

LEMMA TornNext == TypeOK /\ CallsAreDue /\ InInv /\ OutInv /\ TornIsLast /\ [Next]_vars => TornIsLast'
<1> SUFFICES ASSUME TypeOK, CallsAreDue, InInv, Relayed, PipeContinues, TornIsLast, [Next]_vars
             PROVE TornIsLast'
  BY DEF OutInv
<1>1. /\ taken \in [Goroutines -> Nat] /\ cut \in [Goroutines -> Nat]
      /\ calls \in [Goroutines -> Seq(Seq(Pieces))]
      /\ "in" \in Goroutines /\ "out" \in Goroutines /\ taken["out"] \in Nat /\ taken["in"] \in Nat
      /\ cut["out"] \in Nat
      /\ wrote \in Nat /\ childOut \in Seq(1..MaxOutput) /\ Len(childOut) \in Nat
  BY StdioAssumption DEF TypeOK, Goroutines
<1>2. CASE ChildWrites
  <2>1. cut["out"] = 0 /\ UNCHANGED <<stdout, cut, calls, taken>>
    BY <1>2 DEF ChildWrites, TornIsLast
  <2>2. Texts("out")' = Texts("out")
    BY <2>1 DEF Texts
  <2>3. WriteCalls("out", taken["out"], "torn")' = WriteCalls("out", taken["out"], "torn")
    BY <2>1 DEF WriteCalls
  <2> QED BY <2>1, <2>2, <2>3 DEF TornIsLast
<1>3. ASSUME ChildStops, UNCHANGED <<stdout, calls, taken>> PROVE TornIsLast'
  <2>1. CASE UNCHANGED <<wrote, childOut, cut>>
    BY <1>3, <2>1, TornStays DEF ChildStops
  <2>2. CASE ~UNCHANGED <<wrote, childOut, cut>>
    <3>1. /\ child = "up" /\ child' = "exited" /\ wrote' = wrote + 1
          /\ childOut' = Append(childOut, wrote') /\ cut' = [cut EXCEPT !["out"] = wrote']
      BY <1>3, <2>2 DEF ChildStops
    <3>2. cut["out"] = 0 /\ wrote = taken["out"] + Len(childOut)
      BY <3>1 DEF TornIsLast, PipeContinues
    <3>3. cut'["out"] = wrote + 1 /\ Len(childOut') = Len(childOut) + 1 /\ taken'["out"] = taken["out"]
      <4>1. childOut \in Seq(Nat) /\ wrote + 1 \in Nat /\ cut'["out"] = wrote + 1
        BY <1>1, <3>1, StdioAssumption
      <4>2. Len(childOut') = Len(childOut) + 1
        BY <3>1, <4>1, PutLast
      <4> QED BY <1>3, <4>1, <4>2
    <3>4. taken'["out"] + Len(childOut') <= cut'["out"]
      BY <1>1, <3>2, <3>3
    \* Nothing torn was said: it would have the number 0.
    <3>5. calls'["out"] # WriteCalls("out", taken'["out"], "torn")
      <4>1. CASE calls["out"] = <<>>
        <5>1. WriteCalls("out", taken'["out"], "torn") # <<>>
          BY DEF WriteCalls
        <5> QED BY <1>3, <4>1, <5>1
      <4>2. CASE calls["out"] # <<>>
        <5>1. pc["out"] = "reply" /\ taken["out"] >= 1
          BY <1>1, <4>2 DEF CallsAreDue, Holds
        <5>2. calls["out"] # WriteCalls("out", taken["out"], "torn")
          BY <1>1, <3>2, <5>1 DEF TornIsLast
        <5> QED BY <1>3, <5>2, Zenon
      <4> QED BY <4>1, <4>2
    <3>6. \A i \in Texts("out")' : stdout'[i].part # "torn"
      <4> SUFFICES ASSUME NEW i \in Texts("out"), stdout[i].part = "torn" PROVE FALSE
        BY <1>3 DEF Texts
      <4>1. stdout[i].n = 0 /\ stdout[i].n \in Numbers("out")
        BY <3>2 DEF TornIsLast, Numbers
      <4>2. PICK k \in 0..taken["out"] : Numbers("out") = 1..k
        BY DEF Relayed
      <4> QED BY <4>1, <4>2
    <3> QED BY <3>1, <3>4, <3>5, <3>6 DEF TornIsLast
  <2> QED BY <2>1, <2>2
<1>4. CASE ChildExits
  BY <1>3, <1>4 DEF ChildExits
<1>5. CASE Interrupt
  <2>1. CASE main = "waiting"
    BY <1>3, <1>5, <2>1 DEF Interrupt
  <2>2. CASE main # "waiting"
    BY <1>5, <2>2, TornStays DEF Interrupt
  <2> QED BY <2>1, <2>2
<1>6. CASE ClientSends \/ ChildReads \/ Wait \/ JoinBoth \/ UNCHANGED vars
  BY <1>6, TornStays DEF ClientSends, ChildReads, Wait, JoinBoth, vars, others, pipes
<1>7. CASE ClientCloses
  <2>1. cut'["out"] = cut["out"]
    BY <1>1, <1>7 DEF ClientCloses
  <2> QED BY <1>7, <2>1, TornStays DEF ClientCloses, pipes
<1>8. CASE ReadIn \/ ReadInEnds \/ Pass \/ Refuse \/ WriteChild \/ WriteFails("in") \/ ReadOutEnds
  <2>1. calls'["out"] = calls["out"] /\ taken'["out"] = taken["out"]
    BY <1>1, <1>8 DEF ReadIn, ReadInEnds, Pass, Refuse, WriteChild, WriteFails, ReadOutEnds
  <2>2. UNCHANGED <<stdout, cut, childOut, child>>
    BY <1>8 DEF ReadIn, ReadInEnds, Pass, Refuse, WriteChild, WriteFails, ReadOutEnds, others, pipes
  <2> QED BY <2>1, <2>2, TornStays
<1>9. CASE WriteFails("out")
  <2>1. calls'["out"] = <<>> /\ UNCHANGED <<stdout, cut, childOut, child, taken>>
    BY <1>1, <1>9 DEF WriteFails, others
  <2>2. WriteCalls("out", taken["out"], "torn")' # <<>>
    BY DEF WriteCalls
  <2>3. Texts("out")' = Texts("out")
    BY <2>1 DEF Texts
  <2> QED BY <2>1, <2>2, <2>3 DEF TornIsLast
<1>10. CASE Write("in")
  <2>1. /\ pc["in"] = "reply" /\ calls' = [calls EXCEPT !["in"] = <<>>]
        /\ UNCHANGED <<taken, cut, childOut, child>>
    BY <1>1, <1>10, WriteIs, Zenon DEF others, pipes
  <2>2. Numbers("in") \subseteq 1..(taken["in"] - 1)
    BY <2>1 DEF InInv, Done, Holds
  <2>3. Texts("out")' = Texts("out") /\ \A i \in Texts("out") : stdout'[i] = stdout[i]
    BY <1>1, <1>10, <2>2, NumbersNext DEF InInv, Goroutines
  <2>4. calls'["out"] = calls["out"]
    BY <1>1, <2>1
  <2>5. WriteCalls("out", taken["out"], "torn")' = WriteCalls("out", taken["out"], "torn")
    BY <2>1 DEF WriteCalls
  <2> QED BY <2>1, <2>3, <2>4, <2>5 DEF TornIsLast
<1>11. CASE Write("out")
  <2>1. /\ pc["out"] = "reply" /\ calls' = [calls EXCEPT !["out"] = <<>>]
        /\ UNCHANGED <<taken, cut, childOut, child>>
    BY <1>1, <1>11, WriteIs, Zenon DEF others, pipes
  <2>2. Numbers("out") \subseteq 1..(taken["out"] - 1)
    BY <2>1 DEF Relayed, Done, Holds
  <2>3. PICK start \in Starts, last \in Nat :
          /\ calls["out"] = WriteCalls("out", taken["out"], start)
          /\ Texts("out")' = Texts("out") \cup {last}
          /\ stdout'[last].part = start /\ stdout'[last].n = taken["out"]
    BY <1>1, <1>11, <2>2, NumbersNext DEF Relayed
  <2>4. \A i \in Texts("out") : stdout'[i] = stdout[i]
    BY <1>1, <1>11, <2>2, NumbersNext DEF Relayed
  <2>5. start = "torn" => taken["out"] = cut["out"]
    BY <2>3 DEF TornIsLast
  <2>6. \A i \in Texts("out")' : stdout'[i].part = "torn" => stdout'[i].n = cut["out"]
    BY <2>3, <2>4, <2>5, Zenon DEF TornIsLast
  <2>7. calls'["out"] = <<>> /\ WriteCalls("out", taken["out"], "torn")' # <<>>
    BY <1>1, <2>1 DEF WriteCalls
  <2> QED BY <2>1, <2>6, <2>7 DEF TornIsLast
<1>12. CASE Relay
  <2>1. UNCHANGED <<taken, cut, childOut, child, stdout>>
    BY <1>12 DEF Relay, others, pipes
  <2>2. calls'["out"] = WriteCalls("out", taken["out"], IF cut["out"] = taken["out"] THEN "torn" ELSE "text")
    BY <1>1, <1>12 DEF Relay
  <2>3. calls'["out"] = WriteCalls("out", taken["out"], "torn") => cut["out"] = taken["out"]
    BY <2>2, TornIsTorn
  <2>4. Texts("out")' = Texts("out")
    BY <2>1 DEF Texts
  <2>5. WriteCalls("out", taken["out"], "torn")' = WriteCalls("out", taken["out"], "torn")
    BY <2>1 DEF WriteCalls
  <2> QED BY <2>1, <2>3, <2>4, <2>5 DEF TornIsLast
<1>13. ASSUME childOut # <<>>, taken'["out"] = taken["out"] + 1, pc["out"] = "read",
              UNCHANGED <<stdout, calls>>,
              Len(childOut') <= Len(childOut) - 1, Len(childOut') \in Nat,
              \/ UNCHANGED <<cut, child>>
              \/ cut'["out"] = taken'["out"] /\ Len(childOut') = 0 /\ child' = "exited"
       PROVE  TornIsLast'
  \* What is torn would be the last, but there is more.
  <2>1. \A i \in Texts("out") : stdout[i].part # "torn"
    <3> SUFFICES ASSUME NEW i \in Texts("out"), stdout[i].part = "torn" PROVE FALSE
      OBVIOUS
    <3>1. stdout[i].n = cut["out"] /\ stdout[i].n \in Numbers("out")
      BY DEF TornIsLast, Numbers
    <3>2. PICK k \in 0..taken["out"] : Numbers("out") = 1..k
      BY DEF Relayed
    <3>3. cut["out"] # 0 /\ cut["out"] <= taken["out"]
      BY <1>1, <3>1, <3>2
    <3>4. Len(childOut) >= 1
      BY <1>1, <1>13
    <3> QED BY <1>1, <3>3, <3>4 DEF TornIsLast
  <2>2. calls'["out"] = <<>>
    BY <1>1, <1>13 DEF CallsAreDue
  <2>3. WriteCalls("out", taken["out"], "torn")' # <<>>
    BY DEF WriteCalls
  <2>4. \A i \in Texts("out")' : stdout'[i].part # "torn"
    BY <1>13, <2>1 DEF Texts
  <2>5. cut'["out"] # 0 => child' = "exited" /\ taken'["out"] + Len(childOut') <= cut'["out"]
    BY <1>1, <1>13 DEF TornIsLast
  <2> QED BY <2>2, <2>3, <2>4, <2>5 DEF TornIsLast
<1>14. CASE ReadOut
  <2>1. Len(childOut') = Len(childOut) - 1 /\ Len(childOut') \in Nat
    BY <1>1, <1>14, TakeFirst DEF ReadOut
  <2>2. taken'["out"] = taken["out"] + 1
    BY <1>1, <1>14 DEF ReadOut
  <2> QED BY <1>1, <1>13, <1>14, <2>1, <2>2 DEF ReadOut, others
<1>15. CASE ReadOutCut
  <2>1. taken'["out"] = taken["out"] + 1 /\ cut'["out"] = taken'["out"]
    BY <1>1, <1>15 DEF ReadOutCut
  <2>2. Len(childOut') = 0 /\ Len(childOut) >= 1
    BY <1>1, <1>15 DEF ReadOutCut
  <2>3. child' = "exited"
    BY <1>15 DEF ReadOutCut, PipeContinues
  <2> QED BY <1>1, <1>13, <1>15, <2>1, <2>2, <2>3 DEF ReadOutCut
<1> QED
  BY <1>2, <1>4, <1>5, <1>6, <1>7, <1>8, <1>9, <1>10, <1>11, <1>12, <1>14, <1>15, Zenon DEF Next, In, Out

-----------------------------------------------------------------------------
(* The theorems *)

LEMMA StdioInit == Init => StdioInv
<1> SUFFICES ASSUME Init PROVE StdioInv
  OBVIOUS
<1>1. /\ stdout = <<>> /\ forwarded = <<>> /\ given = <<>> /\ childIn = <<>> /\ childOut = <<>>
      /\ wrote = 0 /\ unsaid = {} /\ outOpen /\ cut = [g \in Goroutines |-> 0]
      /\ \A g \in Goroutines : pc[g] = "read" /\ taken[g] = 0 /\ calls[g] = <<>>
  BY DEF Init
<1>2. "in" \in Goroutines /\ "out" \in Goroutines
  BY DEF Goroutines
<1>3. \A g \in Goroutines : Texts(g) = {} /\ Numbers(g) = {} /\ Done(g) = 0 /\ InOrder(g)
  BY <1>1 DEF Texts, Numbers, Done, Holds, InOrder
<1>4. CallsAreDue /\ LinesStayWhole
  BY <1>1, <1>2 DEF CallsAreDue, Holds, LinesStayWhole
<1>5. 1..0 = {}
  OBVIOUS
<1>6. InInv
  <2>1. Ascending(forwarded) /\ Set(forwarded) = {}
    BY <1>1 DEF Ascending, Set
  <2>2. given \o childIn = forwarded
    BY <1>1
  <2>3. Set(forwarded) \cup Numbers("in") \cup unsaid = 1..Done("in")
    BY <1>1, <1>2, <1>3, <1>5, <2>1
  <2> QED BY <1>2, <1>3, <2>1, <2>2, <2>3 DEF InInv
<1>7. OutInv
  <2>1. Len(childOut) = 0 /\ taken["out"] = 0 /\ 0 \in 0..taken["out"] /\ wrote = 0
    BY <1>1, <1>2
  <2>2. Numbers("out") = 1..0 /\ Done("out") = 0 /\ InOrder("out")
    BY <1>2, <1>3, <1>5
  <2>3. Relayed
    BY <2>1, <2>2, Zenon DEF Relayed
  <2>4. PipeContinues
    BY <1>1, <2>1 DEF PipeContinues
  <2> QED BY <2>3, <2>4 DEF OutInv
<1>8. TornIsLast
  <2>1. cut["out"] = 0 /\ calls["out"] = <<>> /\ WriteCalls("out", taken["out"], "torn") # <<>>
    BY <1>1, <1>2 DEF WriteCalls
  <2> QED BY <1>2, <1>3, <2>1 DEF TornIsLast
<1> QED BY <1>4, <1>6, <1>7, <1>8, TypeInit DEF StdioInv

LEMMA StdioNext == StdioInv /\ [Next]_vars => StdioInv'
BY TypeNext, CallsNext, LinesNext, InNext, OutNext, TornNext, Zenon DEF StdioInv

THEOREM StdioInvariant == Spec => []StdioInv
BY StdioInit, StdioNext, PTL DEF Spec

\* pipeline.go:36-70, 108-120: types, whole lines, and each message of the
\* client forwarded or refused and never both (RunnerInv), for any settings.
THEOREM RunnerCorrect == Spec => []RunnerInv
<1>1. StdioInv => RunnerInv
  <2> SUFFICES ASSUME StdioInv PROVE RunnerInv
    OBVIOUS
  <2>1. ForwardedOrRefused
    BY DEF StdioInv, InInv, ForwardedOrRefused, Done, Holds
  <2> QED BY <2>1 DEF StdioInv, RunnerInv
<1> QED BY <1>1, StdioInvariant, PTL

\* pipeline.go:71-119, parser.go:75: the client has the first messages of the child,
\* once each and in order, whole but perhaps the last, and the rest is on its way
\* until the pipe is closed (OutputInOrder), for any settings.
THEOREM OutputCorrect == Spec => []OutputInOrder
<1>1. StdioInv => OutputInOrder
  <2> SUFFICES ASSUME StdioInv PROVE OutputInOrder
    OBVIOUS
  <2> DEFINE T == taken["out"]
             L == Len(childOut)
             hand == IF pc["out"] = "reply" THEN 1 ELSE 0
             Torn(k) == \A i \in Texts("out") :
                          stdout[i].part = "torn" => stdout[i].n = k /\ child = "exited"
             Rest(k) == outOpen /\ pc["out"] # "ended" =>
                          /\ pc["out"] = "reply" => taken["out"] = k + 1
                          /\ childOut = [i \in 1..Len(childOut) |-> k + hand + i]
                          /\ wrote = k + hand + Len(childOut)
  <2>1. /\ T \in Nat /\ L \in Nat /\ T + L <= wrote /\ wrote \in Nat /\ (outOpen => wrote = T + L)
        /\ childOut \in Seq(1..MaxOutput)
        /\ \A i \in 1..L : childOut[i] = T + i
        /\ InOrder("out")
    BY StdioAssumption DEF StdioInv, TypeOK, OutInv, Relayed, PipeContinues, Goroutines
  <2>2. childOut = [i \in 1..L |-> T + i]
    BY <2>1
  <2>3. PICK k \in 0..T : Numbers("out") = 1..k
    BY DEF StdioInv, OutInv, Relayed
  <2>4. Torn(k)
    <3> SUFFICES ASSUME NEW i \in Texts("out"), stdout[i].part = "torn"
                 PROVE  stdout[i].n = k /\ child = "exited"
      OBVIOUS
    <3>1. stdout[i].n = cut["out"] /\ stdout[i].n \in 1..k
      BY <2>3 DEF StdioInv, TornIsLast, Numbers
    <3>2. child = "exited" /\ T + L <= cut["out"]
      BY <3>1 DEF StdioInv, TornIsLast
    <3> QED BY <2>1, <2>3, <3>1, <3>2
  <2>5. Rest(k)
    <3> SUFFICES ASSUME outOpen, pc["out"] # "ended"
                 PROVE  /\ pc["out"] = "reply" => T = k + 1
                        /\ childOut = [i \in 1..L |-> k + hand + i]
                        /\ wrote = k + hand + L
      BY Zenon
    <3>1. T = k + hand
      <4>1. pc["out"] \in {"read", "reply"} /\ (pc["out"] = "reply" => T >= 1)
        BY DEF StdioInv, CallsAreDue, Holds, Goroutines
      <4>2. Done("out") = T - hand /\ Numbers("out") = 1..Done("out")
        BY <2>1, <4>1 DEF StdioInv, OutInv, Relayed, Done, Holds
      <4>3. T - hand \in Nat /\ hand \in {0, 1} /\ k \in Nat /\ 1..k = 1..(T - hand)
        BY <2>1, <2>3, <4>1, <4>2
      <4> HIDE DEF T, hand
      <4>4. k = T - hand
        <5> DEFINE m == T - hand
        <5>1. m \in Nat /\ 1..k = 1..m
          BY <4>3
        <5> HIDE DEF m
        <5>2. k <= m
          <6>1. CASE k = 0
            BY <5>1, <6>1
          <6>2. CASE k # 0
            BY <4>3, <5>1, <6>2
          <6> QED BY <6>1, <6>2
        <5>3. m <= k
          <6>1. CASE m = 0
            BY <4>3, <6>1
          <6>2. CASE m # 0
            BY <4>3, <5>1, <6>2
          <6> QED BY <6>1, <6>2
        <5> QED BY <4>3, <5>1, <5>2, <5>3 DEF m
      <4> QED BY <2>1, <4>3, <4>4
    <3>2. childOut = [i \in 1..L |-> k + hand + i]
      BY <2>2, <3>1
    <3>3. hand = 1 \/ pc["out"] # "reply"
      OBVIOUS
    <3> HIDE DEF hand
    <3> QED BY <2>1, <3>1, <3>2, <3>3
  <2>6. k \in 0..wrote
    BY <2>1, <2>3
  <2> QED BY <2>1, <2>3, <2>4, <2>5, <2>6 DEF OutputInOrder
<1> QED BY <1>1, StdioInvariant, PTL
=============================================================================
