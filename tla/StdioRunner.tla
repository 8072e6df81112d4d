----------------------------- MODULE StdioRunner -----------------------------
(***************************************************************************)
(* Stdio mode: the client's messages go through a goroutine (PipelineIn)   *)
(* to the child's standard input, or are answered with an error; the       *)
(* child's messages go through another one (PipelineOut) to the client;    *)
(* both write to our standard output.  The main goroutine waits for the    *)
(* child, which closes both pipes, and then for the two.                   *)
(*                                                                         *)
(* Messages are numbered per direction; one that its sender does not finish *)
(* counts as sent.  The client reads all the time; the chain's own state is *)
(* IngressLog's, here it refuses requests or does not.                     *)
(***************************************************************************)
EXTENDS Integers, Sequences, FiniteSets

CONSTANTS
  Settings,  \* what a process may meet: kinds of the client's messages and of
             \* the child's (sequences), whether it exits or is interrupted
  MaxInput, MaxOutput, \* messages of each (bounds)
  PipeSize   \* messages that a pipe holds, unfinished ones included

InKinds  == { "request",   \* JSON-RPC with a method
              "other",     \* other lines, blank ones aside
              "long" }     \* a line the scanner cannot hold
OutKinds == { "response",  \* JSON-RPC without a method
              "other", "long" }
Goroutines == {"in", "out"}

ASSUME StdioAssumption ==
  /\ MaxInput \in Nat /\ MaxOutput \in Nat /\ PipeSize \in Nat \ {0}
  /\ \A s \in Settings :
       /\ s.input \in Seq(InKinds) /\ Len(s.input) <= MaxInput
       /\ s.output \in Seq(OutKinds) /\ Len(s.output) <= MaxOutput
       /\ s.exits \in BOOLEAN /\ s.interrupted \in BOOLEAN

VARIABLES
  setting,
  \* the client and the child
  sent,      \* messages the client has written
  stdinOpen, \* it has not closed our standard input
  child,     \* "up", "exited"
  wrote,     \* messages the child has written
  given,     \* messages the child has read
  cut,       \* per direction, the message cut short, or 0
  \* pipes
  childIn, childOut, \* what is in them
  inOpen,    \* we have not closed the child's standard input
  outOpen,   \* Wait has not closed our end of the child's standard output
  \* goroutines
  pc,        \* "read", "decide", "write", "reply", "ended" (done has been sent)
  taken,     \* messages each has read
  calls,     \* the calls of Write it has still to make
  stdout,    \* what we have written: pieces [from, n, part]
  forwarded, \* history: messages written to the child's standard input
  unsaid,    \* history: refused messages whose error could not be written
  main       \* "waiting", "in", "out" (for that goroutine), "returned", "killed"

others == <<sent, stdinOpen, child, wrote, given, cut>>
pipes  == <<childIn, childOut, inOpen, outOpen>>
vars   == <<setting, others, pipes, pc, taken, calls, stdout, forwarded, unsaid, main>>

Init ==
  /\ setting \in Settings
  /\ sent = 0 /\ stdinOpen = TRUE
  /\ child = "up" /\ wrote = 0 /\ given = <<>>
  /\ cut = [g \in Goroutines |-> 0]
  /\ childIn = <<>> /\ childOut = <<>> /\ inOpen = TRUE /\ outOpen = TRUE
  /\ pc = [g \in Goroutines |-> "read"]
  /\ taken = [g \in Goroutines |-> 0]
  /\ calls = [g \in Goroutines |-> <<>>]
  /\ stdout = <<>> /\ forwarded = <<>> /\ unsaid = {}
  /\ main = "waiting"

Up == main # "killed" /\ main # "returned"

-----------------------------------------------------------------------------
(* The client and the child *)

ClientSends ==
  /\ stdinOpen /\ sent < Len(setting.input)
  /\ sent' = sent + 1
  /\ UNCHANGED <<setting, stdinOpen, child, wrote, given, cut, pipes, pc, taken, calls, stdout,
                 forwarded, unsaid, main>>

\* Perhaps within a line.
ClientCloses ==
  /\ stdinOpen
  /\ stdinOpen' = FALSE
  /\ \/ UNCHANGED <<sent, cut>>
     \/ /\ sent < Len(setting.input)
        /\ sent' = sent + 1
        /\ cut' = [cut EXCEPT !["in"] = sent']
  /\ UNCHANGED <<setting, child, wrote, given, pipes, pc, taken, calls, stdout, forwarded, unsaid,
                 main>>

ChildReads ==
  /\ child = "up" /\ childIn # <<>>
  /\ childIn' = Tail(childIn)
  /\ given' = Append(given, Head(childIn))
  /\ UNCHANGED <<setting, sent, stdinOpen, child, wrote, cut, childOut, inOpen, outOpen, pc, taken,
                 calls, stdout, forwarded, unsaid, main>>

ChildWrites ==
  /\ child = "up" /\ wrote < Len(setting.output)
  /\ Len(childOut) < PipeSize
  /\ wrote' = wrote + 1
  /\ childOut' = Append(childOut, wrote')
  /\ UNCHANGED <<setting, sent, stdinOpen, child, given, cut, childIn, inOpen, outOpen, pc, taken,
                 calls, stdout, forwarded, unsaid, main>>

\* The child is no more, perhaps while it was writing a line.
ChildStops ==
  /\ child = "up"
  /\ child' = "exited"
  /\ \/ UNCHANGED <<wrote, childOut, cut>>
     \/ /\ wrote < Len(setting.output) /\ Len(childOut) < PipeSize
        /\ wrote' = wrote + 1
        /\ childOut' = Append(childOut, wrote')
        /\ cut' = [cut EXCEPT !["out"] = wrote']

\* It exits at the end of its input, or when it likes.
ChildExits ==
  /\ setting.exits \/ (~inOpen /\ childIn = <<>>)
  /\ ChildStops
  /\ UNCHANGED <<setting, sent, stdinOpen, given, childIn, inOpen, outOpen, pc, taken, calls,
                 stdout, forwarded, unsaid, main>>

-----------------------------------------------------------------------------
(* The two goroutines *)

\* A goroutine returns; its done is sent.  PipelineIn's closes the child's
\* standard input first.
Ends(g) ==
  /\ pc' = [pc EXCEPT ![g] = "ended"]
  /\ inOpen' = IF g = "in" THEN FALSE ELSE inOpen

\* The kind of its next line; what is cut short is no JSON.
Kind(g) ==
  IF cut[g] = taken[g] + 1 THEN "other"
  ELSE IF g = "in" THEN setting.input[taken[g] + 1] ELSE setting.output[taken[g] + 1]

\* PipelineIn: the next line, or what there is of one at the end of the input; a
\* line that is too long ends it.
ReadIn ==
  /\ Up /\ pc["in"] = "read"
  /\ taken["in"] < sent
  /\ IF Kind("in") = "long"
       THEN Ends("in")
       ELSE /\ pc' = [pc EXCEPT !["in"] = IF Kind("in") = "request" THEN "decide" ELSE "write"]
            /\ UNCHANGED inOpen
  /\ taken' = [taken EXCEPT !["in"] = @ + 1]
  /\ UNCHANGED <<setting, others, childIn, childOut, outOpen, calls, stdout, forwarded, unsaid, main>>

\* PipelineIn: the end of its input.
ReadInEnds ==
  /\ Up /\ pc["in"] = "read"
  /\ taken["in"] = sent /\ ~stdinOpen
  /\ Ends("in")
  /\ UNCHANGED <<setting, others, childIn, childOut, outOpen, taken, calls, stdout, forwarded, unsaid, main>>

\* Fault: what is not a response is not forwarded.
ReadOut_OnlyResponses ==
  /\ Up /\ pc["out"] = "read"
  /\ childOut # <<>>
  /\ IF Kind("out") = "long"
       THEN Ends("out")
       ELSE /\ pc' = [pc EXCEPT !["out"] = IF Kind("out") = "response" THEN "reply" ELSE "read"]
            /\ UNCHANGED inOpen
  /\ childOut' = Tail(childOut)
  /\ taken' = [taken EXCEPT !["out"] = @ + 1]
  /\ UNCHANGED <<setting, others, childIn, outOpen, calls, stdout, forwarded, unsaid, main>>

\* PipelineOut: the next line, or what there is of one when the child has gone.
\* Lines that its scanner has buffered count as in the pipe; they are still there
\* when it is closed.
ReadOut ==
  /\ Up /\ pc["out"] = "read"
  /\ childOut # <<>>
  /\ IF Kind("out") = "long"
       THEN Ends("out")
       ELSE pc' = [pc EXCEPT !["out"] = "reply"] /\ UNCHANGED inOpen
  /\ childOut' = Tail(childOut)
  /\ taken' = [taken EXCEPT !["out"] = @ + 1]
  /\ UNCHANGED <<setting, others, childIn, outOpen, calls, stdout, forwarded, unsaid, main>>

\* PipelineOut's pipe is closed when its scanner has a part of a line, which it
\* takes for one; the rest is lost.
ReadOutCut ==
  /\ Up /\ pc["out"] = "read"
  /\ ~outOpen /\ childOut # <<>>
  /\ pc' = [pc EXCEPT !["out"] = "reply"]
  /\ taken' = [taken EXCEPT !["out"] = @ + 1]
  /\ cut' = [cut EXCEPT !["out"] = taken["out"] + 1]
  /\ childOut' = <<>>
  /\ UNCHANGED <<setting, sent, stdinOpen, child, wrote, given, childIn, inOpen, outOpen, calls,
                 stdout, forwarded, unsaid, main>>

\* Fault: PipelineOut reads on from a pipe that was closed under it.
ReadOutEnds_NotClosed ==
  /\ Up /\ pc["out"] = "read"
  /\ outOpen /\ child = "exited" /\ childOut = <<>>
  /\ Ends("out")
  /\ UNCHANGED <<setting, others, childIn, childOut, outOpen, taken, calls, stdout, forwarded, unsaid, main>>

\* PipelineOut: the child's end is closed and the pipe empty, or our end is closed.
ReadOutEnds ==
  /\ Up /\ pc["out"] = "read"
  /\ ~outOpen \/ (child = "exited" /\ childOut = <<>>)
  /\ Ends("out")
  /\ UNCHANGED <<setting, others, childIn, childOut, outOpen, taken, calls, stdout, forwarded, unsaid, main>>

\* The chain passes the request.
Pass ==
  /\ Up /\ pc["in"] = "decide"
  /\ pc' = [pc EXCEPT !["in"] = "write"]
  /\ UNCHANGED <<setting, others, pipes, taken, calls, stdout, forwarded, unsaid, main>>

\* Fault: text and newline are written by two calls.
WriteCalls_Newline(from, n, text) ==
  << <<[from |-> from, n |-> n, part |-> text]>>, <<[from |-> from, n |-> n, part |-> "newline"]>> >>

\* The calls of Write for a line on standard output, each of which keeps the
\* file's lock for all of its bytes.
WriteCalls(from, n, text) ==
  << <<[from |-> from, n |-> n, part |-> text], [from |-> from, n |-> n, part |-> "newline"]>> >>

\* The chain refuses it: an error to the client.
Refuse ==
  /\ Up /\ pc["in"] = "decide"
  /\ calls' = [calls EXCEPT !["in"] = WriteCalls("in", taken["in"], "text")]
  /\ pc' = [pc EXCEPT !["in"] = "reply"]
  /\ UNCHANGED <<setting, others, pipes, taken, stdout, forwarded, unsaid, main>>

\* PipelineOut has the line it will write.
Relay ==
  /\ Up /\ pc["out"] = "reply" /\ calls["out"] = <<>>
  /\ calls' = [calls EXCEPT !["out"] =
       WriteCalls("out", taken["out"], IF cut["out"] = taken["out"] THEN "torn" ELSE "text")]
  /\ UNCHANGED <<setting, others, pipes, pc, taken, stdout, forwarded, unsaid, main>>

\* A call of Write on standard output.
Write(g) ==
  /\ Up /\ pc[g] = "reply" /\ calls[g] # <<>>
  /\ stdout' = stdout \o Head(calls[g])
  /\ calls' = [calls EXCEPT ![g] = Tail(@)]
  /\ pc' = [pc EXCEPT ![g] = IF Len(calls[g]) = 1 THEN "read" ELSE "reply"]
  /\ UNCHANGED <<setting, others, pipes, taken, forwarded, unsaid, main>>

\* One that fails, and writes nothing: PipelineOut ends, PipelineIn goes on.
WriteFails(g) ==
  /\ Up /\ pc[g] = "reply" /\ calls[g] # <<>>
  /\ calls' = [calls EXCEPT ![g] = <<>>]
  /\ IF g = "out" THEN Ends(g) /\ UNCHANGED unsaid
     ELSE /\ pc' = [pc EXCEPT ![g] = "read"]
          /\ unsaid' = unsaid \cup {taken[g]}
          /\ UNCHANGED inOpen
  /\ UNCHANGED <<setting, others, childIn, childOut, outOpen, taken, stdout, forwarded, main>>

\* PipelineIn writes to the child, which has room or is gone.
WriteChild ==
  /\ Up /\ pc["in"] = "write"
  /\ IF child = "up" /\ inOpen
       THEN /\ Len(childIn) < PipeSize
            /\ childIn' = Append(childIn, taken["in"])
            /\ forwarded' = Append(forwarded, taken["in"])
            /\ pc' = [pc EXCEPT !["in"] = "read"]
            /\ UNCHANGED inOpen
       ELSE Ends("in") /\ UNCHANGED <<childIn, forwarded>>
  /\ UNCHANGED <<setting, others, childOut, outOpen, taken, calls, stdout, unsaid, main>>

-----------------------------------------------------------------------------
(* The main goroutine *)

\* Wait returns: the child has exited, and our ends of both pipes are closed.
Wait ==
  /\ main = "waiting" /\ child = "exited"
  /\ inOpen' = FALSE /\ outOpen' = FALSE
  /\ main' = "in"
  /\ UNCHANGED <<setting, others, childIn, childOut, pc, taken, calls, stdout, forwarded, unsaid>>

\* waitForDone.
Join ==
  \/ main = "in" /\ pc["in"] = "ended" /\ main' = "out"
  \/ main = "out" /\ pc["out"] = "ended" /\ main' = "returned"
JoinBoth ==
  /\ Join
  /\ UNCHANGED <<setting, others, pipes, pc, taken, calls, stdout, forwarded, unsaid>>

\* SIGINT or SIGTERM: forwarded to the child, which exits or does not; after
\* Wait nobody catches it.
Interrupt ==
  /\ setting.interrupted /\ Up
  /\ IF main = "waiting"
       THEN ChildStops /\ UNCHANGED main
       ELSE main' = "killed" /\ UNCHANGED <<child, wrote, childOut, cut>>
  /\ UNCHANGED <<setting, sent, stdinOpen, given, childIn, inOpen, outOpen, pc, taken, calls, stdout,
                 forwarded, unsaid>>

-----------------------------------------------------------------------------

In  == ReadIn \/ ReadInEnds \/ Pass \/ Refuse \/ Write("in") \/ WriteFails("in") \/ WriteChild
Out == ReadOut \/ ReadOutCut \/ ReadOutEnds \/ Relay \/ Write("out") \/ WriteFails("out")

Next ==
  \/ ClientSends \/ ClientCloses \/ ChildReads \/ ChildWrites \/ ChildExits
  \/ In \/ Out \/ Wait \/ JoinBoth \/ Interrupt

Spec == Init /\ [][Next]_vars

\* Goroutines that can run do.  The child, while it is up, reads what it is
\* given, and ends when its input does.
FairSpec ==
  /\ Spec
  /\ WF_vars(In) /\ WF_vars(Out) /\ WF_vars(Wait) /\ WF_vars(JoinBoth)
  /\ WF_vars(ChildReads) /\ WF_vars(~inOpen /\ ChildExits)

-----------------------------------------------------------------------------
(* Properties *)

Pieces == [from : Goroutines, n : Nat, part : {"text", "torn", "newline"}]

\* Types, and pipes within their size.
TypeOK ==
  /\ setting \in Settings
  /\ sent \in 0..MaxInput /\ stdinOpen \in BOOLEAN
  /\ child \in {"up", "exited"} /\ wrote \in 0..MaxOutput
  /\ cut \in [Goroutines -> Nat]
  /\ given \in Seq(1..MaxInput)
  /\ childIn \in Seq(1..MaxInput) /\ childOut \in Seq(1..MaxOutput)
  /\ Len(childIn) <= PipeSize /\ Len(childOut) <= PipeSize
  /\ inOpen \in BOOLEAN /\ outOpen \in BOOLEAN
  /\ pc \in [Goroutines -> {"read", "decide", "write", "reply", "ended"}]
  /\ taken \in [Goroutines -> Nat] /\ taken["in"] <= sent /\ taken["out"] <= wrote
  /\ calls \in [Goroutines -> Seq(Seq(Pieces))]
  /\ stdout \in Seq(Pieces)
  /\ forwarded \in Seq(1..MaxInput) /\ unsaid \subseteq 1..MaxInput
  /\ main \in {"waiting", "in", "out", "returned", "killed"}

\* pipeline.go:49, 114, middleware.go:39: errors to the client and messages of
\* the child, which two goroutines write, never get into each other's lines.
LinesStayWhole ==
  \A i \in 1..Len(stdout) :
    stdout[i].part = "newline" =>
      /\ i > 1
      /\ stdout[i - 1] \in {[stdout[i] EXCEPT !.part = t] : t \in {"text", "torn"}}

\* The places on standard output where a goroutine's lines begin, the messages
\* these lines are, and that they come in the messages' order.
Texts(g)   == {i \in 1..Len(stdout) : stdout[i].from = g /\ stdout[i].part # "newline"}
Numbers(g) == {stdout[i].n : i \in Texts(g)}
InOrder(g) == \A i, j \in Texts(g) : i < j => stdout[i].n < stdout[j].n

Set(s)       == {s[i] : i \in 1..Len(s)}
Ascending(s) == \A i, j \in 1..Len(s) : i < j => s[i] < s[j]

\* pipeline.go:36-65: of the client's messages, taken one by one, each is
\* forwarded or answered with an error or neither, when the child is gone or the
\* error cannot be written; none is both, none is repeated, none overtakes another.
ForwardedOrRefused ==
  /\ Ascending(forwarded) /\ InOrder("in")
  /\ Set(forwarded) \cap Numbers("in") = {}
  /\ inOpen /\ pc["in"] = "read" => Set(forwarded) \cup Numbers("in") \cup unsaid = 1..taken["in"]
  /\ given \o childIn = forwarded

\* pipeline.go:71-119, parser.go:75: the client has the first k of the child's
\* messages, once each and in their order, all of them whole but perhaps the last,
\* when the child is gone; until Wait closes the pipe, a line is too long or a write
\* fails, the rest of what the child wrote is on its way: one in hand, then the pipe.
OutputInOrder ==
  LET hand == IF pc["out"] = "reply" THEN 1 ELSE 0 IN
  /\ InOrder("out")
  /\ \E k \in 0..wrote :
       /\ Numbers("out") = 1..k
       /\ \A i \in Texts("out") : stdout[i].part = "torn" => stdout[i].n = k /\ child = "exited"
       /\ outOpen /\ pc["out"] # "ended" =>
            /\ pc["out"] = "reply" => taken["out"] = k + 1
            /\ childOut = [i \in 1..Len(childOut) |-> k + hand + i]
            /\ wrote = k + hand + Len(childOut)

\* runner_middleware.go:80-84: the child's input ends when the client's does,
\* whatever waits in the pipes.
InputEnds == ~stdinOpen ~> (~inOpen \/ ~Up)

\* runner_middleware.go:107-113: when the child has exited, the run ends, unless
\* the client neither writes nor closes our standard input.
RunEnds ==
  child = "exited" ~>
    (~Up \/ (main = "in" /\ pc["in"] = "read" /\ stdinOpen /\ taken["in"] = sent))

\* What holds of the two pipelines at all times: types, lines whole on standard
\* output, and each message of the client forwarded or refused, not both.
RunnerInv ==
  /\ TypeOK
  /\ LinesStayWhole
  /\ ForwardedOrRefused

\* runner_middleware.go:80-132: the run winds down from either end: the client
\* closing takes the child's input with it, the child's exit the run.
RunWindsDown ==
  /\ InputEnds
  /\ RunEnds

\* README.md:122: "Automatically forwards SIGINT/SIGTERM and propagates exit codes".
ExitCodePropagates == child = "exited" ~> ~Up
=============================================================================
