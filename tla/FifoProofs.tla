----------------------------- MODULE FifoProofs -----------------------------
(***************************************************************************)
(* The FIFO client and server for any number of requests, attempts to      *)
(* open, runs of the script and killed servers: the answers are the right  *)
(* ones, nobody writes to a pipe the other end has closed, and a client    *)
(* that gets past its first open talks to the server of its own run.       *)
(***************************************************************************)
EXTENDS Fifo, TLAPS

\* the two pipes of the run in progress
cs == pipe["client_to_server"][run]
sc == pipe["server_to_client"][run]

EndState == {"none", "opening", "open", "closed"}
Pipes    == [reader : EndState, writer : EndState, data : Seq(Nat)]

SettingUpPcs == {"start", "make_receive", "unlink_send_first", "make_send"}
ServerPcs == SettingUpPcs \union {"open_receive", "open_send", "read", "write", "close",
                                  "unlink_receive", "unlink_send", "exit", "stopped",
                                  "killed", "sigpipe"}
ClientPcs == {"open_send", "open_receive", "write", "read", "close_receive", "close_send",
              "close_failed", "exit", "failed", "sigpipe"}

Typed ==
  /\ run \in Runs /\ name \in [Names -> 0..run] /\ fd \in [Names -> 0..run]
  /\ pipe \in [Names -> [Runs -> Pipes]]
  /\ s_pc \in ServerPcs /\ c_pc \in ClientPcs
  /\ value \in Nat /\ tries \in Nat /\ kills \in Nat
  /\ i \in 1..Requests + 1 /\ answers \in Seq(Nat)

\* the pipes of other runs: a dead server has closed its ends for good, so that nobody
\* can open the other one any more, and a server to come has made none
OtherRuns ==
  \A r \in Runs :
    /\ r < run => /\ pipe["client_to_server"][r].reader = "closed"
                  /\ pipe["client_to_server"][r].writer # "open"
                  /\ pipe["server_to_client"][r].writer = "closed"
                  /\ Len(pipe["client_to_server"][r].data)
                       + Len(pipe["server_to_client"][r].data) <= 1
    /\ r > run => \A n \in Names : pipe[n][r] = NewPipe

\* what each name stands for at each place of the server, which makes both pipes before
\* it opens one
NamesMade ==
  /\ s_pc = "start" => name["client_to_server"] # run
  /\ s_pc = "make_receive" => name["client_to_server"] = Gone
  /\ s_pc \in {"start", "make_receive", "unlink_send_first"} => name["server_to_client"] # run
  /\ s_pc = "make_send" => name["server_to_client"] = Gone
  /\ s_pc \in {"open_receive", "open_send", "read", "write", "close", "unlink_receive",
               "unlink_send"} => name["server_to_client"] = run
  /\ s_pc = "exit" => name["server_to_client"] = Gone
  /\ cs.writer = "open" => name["server_to_client"] \in {Gone, run}

\* the server's ends of the run's pipes at each of its places
ServerPipes ==
  /\ s_pc \in SettingUpPcs => cs.reader = "none"
  /\ s_pc = "open_receive" => cs.reader \in {"none", "opening", "open"}
  /\ s_pc \in SettingUpPcs \union {"open_receive"} => sc.writer = "none"
  /\ s_pc \in {"open_send", "read", "write", "close"} => cs.reader = "open"
  /\ s_pc = "open_send" => sc.writer \in {"none", "opening", "open"}
  /\ s_pc \in {"read", "write", "close"} => sc.writer = "open"
  /\ s_pc \in {"unlink_receive", "unlink_send", "exit", "stopped", "killed", "sigpipe"} =>
       cs.reader = "closed" /\ sc.writer = "closed"

\* the client's ends at each of its places
ClientPipes ==
  /\ fd["server_to_client"] \in {Gone, run}
  /\ fd["client_to_server"] = run \/ c_pc \in {"open_send", "failed"}
  /\ c_pc = "open_send" /\ fd["client_to_server"] # run => cs.writer = "none"
  /\ c_pc = "open_send" /\ fd["client_to_server"] = run => cs.writer \in {"opening", "open"}
  /\ c_pc \in {"open_send", "close_failed"}
       \/ (c_pc = "open_receive" /\ fd["server_to_client"] = Gone) =>
       fd["server_to_client"] = Gone /\ sc.reader = "none"
  /\ c_pc = "open_receive" /\ fd["server_to_client"] = run => sc.reader \in {"opening", "open"}
  /\ c_pc \in {"open_receive", "write", "read", "close_receive", "close_send", "close_failed"} =>
       cs.writer = "open"
  /\ c_pc \in {"write", "read", "close_receive"} =>
       fd["server_to_client"] = run /\ sc.reader = "open"
  /\ c_pc = "close_send" => sc.reader = "closed"
  /\ ClientEnded => cs.writer \in {"none", "closed"} /\ sc.reader \in {"none", "closed"}

\* an end is open when the other one has come too
BothEnds ==
  \A p \in {cs, sc} : /\ p.reader = "open" => p.writer \in {"open", "closed"}
                      /\ p.writer = "open" => p.reader \in {"open", "closed"}
                      /\ p.reader = "opening" => p.writer \in {"none", "closed"}
                      /\ p.writer = "opening" => p.reader \in {"none", "closed"}

\* request and reply alternate: the number the client has sent last is in the first
\* pipe, with the server, or squared in the second pipe, unless a killed server lost it
Alternation ==
  /\ c_pc = "read" =>
       \/ cs.data = <<i>> /\ sc.data = <<>> /\ s_pc \in {"open_send", "read", "killed"}
       \/ cs.data = <<>> /\ sc.data = <<>> /\ s_pc = "write" /\ value = i
       \/ cs.data = <<>> /\ sc.data = <<i * i>> /\ s_pc \in {"read", "killed"}
       \/ cs.data = <<>> /\ sc.data = <<>> /\ s_pc = "killed"
  /\ c_pc # "read" => /\ s_pc # "write" /\ sc.data = <<>> /\ Len(cs.data) <= 1
                      /\ s_pc # "killed" => cs.data = <<>>
  /\ c_pc \in {"open_send", "open_receive", "write"} => cs.data = <<>>

\* the answers so far
Answered ==
  /\ Len(answers) = i - 1
  /\ \A k \in 1..i - 1 : answers[k] = k * k
  /\ c_pc \in {"open_send", "open_receive", "write", "read"} => i <= Requests

\* who is gone, and why: the server leaves a client that has not ended only when
\* somebody else kills it
Endings ==
  /\ s_pc \in {"close", "unlink_receive", "unlink_send", "exit", "stopped"} => ClientEnded
  /\ c_pc \in {"close_receive", "close_send", "exit"} => i = Requests + 1 \/ s_pc = "killed"
  /\ c_pc = "sigpipe" => s_pc = "killed"
  /\ s_pc # "sigpipe"

FifoInv == /\ Typed /\ OtherRuns /\ NamesMade /\ ServerPipes /\ ClientPipes /\ BothEnds
           /\ Alternation /\ Answered /\ Endings

LEMMA ConstantFacts ==
  /\ Requests \in Nat \ {0} /\ Tries \in Nat \ {0} /\ MaxRuns \in Nat \ {0} /\ MaxKills \in Nat
  /\ "client_to_server" \in Names /\ "server_to_client" \in Names
  /\ 1 \in Runs /\ Runs \subseteq Nat \ {0} /\ Gone = 0
  BY FifoAssumption DEF Names, Runs, Gone

LEMMA EndFacts ==
  /\ ServerEnd("client_to_server") = "reader" /\ ServerEnd("server_to_client") = "writer"
  /\ ClientEnd("client_to_server") = "writer" /\ ClientEnd("server_to_client") = "reader"
  BY DEF ServerEnd, ClientEnd, Peer

\* what open and close do to the pipe's two ends
LEMMA OpenedFacts ==
  ASSUME NEW p \in Pipes
  PROVE  /\ Opened(p, "reader") =
              IF p.writer \in {"opening", "open"}
              THEN [reader |-> "open", writer |-> "open", data |-> p.data]
              ELSE [reader |-> "opening", writer |-> p.writer, data |-> p.data]
         /\ Opened(p, "writer") =
              IF p.reader \in {"opening", "open"}
              THEN [reader |-> "open", writer |-> "open", data |-> p.data]
              ELSE [reader |-> p.reader, writer |-> "opening", data |-> p.data]
         /\ Closed(p, "reader") = [reader |-> "closed", writer |-> p.writer, data |-> p.data]
         /\ Closed(p, "writer") = [reader |-> p.reader, writer |-> "closed", data |-> p.data]
         /\ Opened(p, "reader") \in Pipes /\ Opened(p, "writer") \in Pipes
         /\ Closed(p, "reader") \in Pipes /\ Closed(p, "writer") \in Pipes
<1>1. PICK r \in EndState, w \in EndState, d \in Seq(Nat) : p = [reader |-> r, writer |-> w, data |-> d]
  BY DEF Pipes
<1>2. p.reader = r /\ p.writer = w /\ p.data = d
  BY <1>1
<1>3. /\ [p EXCEPT !.reader = "opening"] = [reader |-> "opening", writer |-> w, data |-> d]
      /\ [p EXCEPT !.reader = "closed"] = [reader |-> "closed", writer |-> w, data |-> d]
      /\ [p EXCEPT !.writer = "opening"] = [reader |-> r, writer |-> "opening", data |-> d]
      /\ [p EXCEPT !.writer = "closed"] = [reader |-> r, writer |-> "closed", data |-> d]
  <2>1. ASSUME NEW x \in EndState  PROVE [p EXCEPT !.reader = x] = [reader |-> x, writer |-> w, data |-> d]
    BY <1>1
  <2>2. ASSUME NEW x \in EndState  PROVE [p EXCEPT !.writer = x] = [reader |-> r, writer |-> x, data |-> d]
    BY <1>1
  <2> QED  BY <2>1, <2>2 DEF EndState
<1>8. [p EXCEPT !.reader = "open", !.writer = "open"] = [reader |-> "open", writer |-> "open", data |-> d]
  <2> DEFINE q == [p EXCEPT !.reader = "open"]
  <2>1. q = [reader |-> "open", writer |-> w, data |-> d]
    BY <1>1
  <2>2. [p EXCEPT !.reader = "open", !.writer = "open"] = [q EXCEPT !.writer = "open"]
    OBVIOUS
  <2> HIDE DEF q
  <2>3. [q EXCEPT !.writer = "open"] = [reader |-> "open", writer |-> "open", data |-> d]
    BY <2>1
  <2> QED  BY <2>2, <2>3
<1>4. \A x \in EndState, y \in EndState : [reader |-> x, writer |-> y, data |-> d] \in Pipes
  BY DEF Pipes
<1>5. /\ Opened(p, "reader") = IF p.writer \in {"opening", "open"}
                               THEN [p EXCEPT !.reader = "open", !.writer = "open"]
                               ELSE [p EXCEPT !.reader = "opening"]
      /\ Opened(p, "writer") = IF p.reader \in {"opening", "open"}
                               THEN [p EXCEPT !.reader = "open", !.writer = "open"]
                               ELSE [p EXCEPT !.writer = "opening"]
  BY DEF Opened, Peer
<1>6. /\ Closed(p, "reader") = [p EXCEPT !.reader = "closed"]
      /\ Closed(p, "writer") = [p EXCEPT !.writer = "closed"]
  BY DEF Closed
<1>7. {"opening", "open", "closed"} \subseteq EndState
  BY DEF EndState
<1> HIDE <1>1
<1> QED  BY <1>2, <1>3, <1>4, <1>5, <1>6, <1>7, <1>8

LEMMA OtherRunsKept ==
  ASSUME OtherRuns, run' = run,
         \A m \in Names, r \in Runs : r # run => pipe'[m][r] = pipe[m][r],
         run \in Runs
  PROVE  OtherRuns'
<1>1. ASSUME NEW r \in Runs, r < run \/ r > run
      PROVE  \A n \in Names : pipe'[n][r] = pipe[n][r]
  BY <1>1, ConstantFacts
<1> QED  BY <1>1, ConstantFacts DEF OtherRuns

LEMMA PipesTyped ==
  ASSUME Typed
  PROVE  /\ cs \in Pipes /\ sc \in Pipes
         /\ cs.reader \in EndState /\ cs.writer \in EndState /\ cs.data \in Seq(Nat)
         /\ sc.reader \in EndState /\ sc.writer \in EndState /\ sc.data \in Seq(Nat)
<1>1. cs \in Pipes /\ sc \in Pipes
  BY ConstantFacts DEF Typed, cs, sc
<1> QED  BY <1>1 DEF Pipes

\* a step on one pipe of the run in progress leaves all others alone
LEMMA CsStep ==
  ASSUME Typed, OtherRuns, run' = run, NEW x \in Pipes,
         pipe' = [pipe EXCEPT !["client_to_server"][run] = x]
  PROVE  pipe' \in [Names -> [Runs -> Pipes]] /\ cs' = x /\ sc' = sc /\ OtherRuns'
<1>1. /\ pipe' \in [Names -> [Runs -> Pipes]] /\ cs' = x /\ sc' = sc
      /\ \A m \in Names, r \in Runs : r # run => pipe'[m][r] = pipe[m][r]
  BY ConstantFacts DEF Typed, cs, sc, Names
<1> QED  BY <1>1, OtherRunsKept DEF Typed

LEMMA ScStep ==
  ASSUME Typed, OtherRuns, run' = run, NEW x \in Pipes,
         pipe' = [pipe EXCEPT !["server_to_client"][run] = x]
  PROVE  pipe' \in [Names -> [Runs -> Pipes]] /\ cs' = cs /\ sc' = x /\ OtherRuns'
<1>1. /\ pipe' \in [Names -> [Runs -> Pipes]] /\ cs' = cs /\ sc' = x
      /\ \A m \in Names, r \in Runs : r # run => pipe'[m][r] = pipe[m][r]
  BY ConstantFacts DEF Typed, cs, sc, Names
<1> QED  BY <1>1, OtherRunsKept DEF Typed

LEMMA WithData ==
  ASSUME NEW p \in Pipes, NEW d \in Seq(Nat)
  PROVE  /\ [p EXCEPT !.data = d] = [reader |-> p.reader, writer |-> p.writer, data |-> d]
         /\ [p EXCEPT !.data = d] \in Pipes
<1>1. PICK r \in EndState, w \in EndState, e \in Seq(Nat) : p = [reader |-> r, writer |-> w, data |-> e]
  BY DEF Pipes
<1>2. p.reader = r /\ p.writer = w
  BY <1>1
<1>3. [p EXCEPT !.data = d] = [reader |-> r, writer |-> w, data |-> d]
  BY <1>1
<1>4. [reader |-> r, writer |-> w, data |-> d] \in Pipes
  BY DEF Pipes
<1> QED  BY <1>2, <1>3, <1>4

\* data written to or read from one
LEMMA CsData ==
  ASSUME Typed, OtherRuns, run' = run, NEW d \in Seq(Nat),
         pipe' = [pipe EXCEPT !["client_to_server"][run].data = d]
  PROVE  /\ pipe' \in [Names -> [Runs -> Pipes]] /\ sc' = sc /\ OtherRuns'
         /\ cs' = [reader |-> cs.reader, writer |-> cs.writer, data |-> d]
<1>1. [cs EXCEPT !.data = d] \in Pipes /\ [cs EXCEPT !.data = d] = [reader |-> cs.reader, writer |-> cs.writer, data |-> d]
  BY PipesTyped, WithData
<1>2. pipe' = [pipe EXCEPT !["client_to_server"][run] = [cs EXCEPT !.data = d]]
  BY DEF cs
<1> QED  BY <1>1, <1>2, CsStep

LEMMA ScData ==
  ASSUME Typed, OtherRuns, run' = run, NEW d \in Seq(Nat),
         pipe' = [pipe EXCEPT !["server_to_client"][run].data = d]
  PROVE  /\ pipe' \in [Names -> [Runs -> Pipes]] /\ cs' = cs /\ OtherRuns'
         /\ sc' = [reader |-> sc.reader, writer |-> sc.writer, data |-> d]
<1>1. [sc EXCEPT !.data = d] \in Pipes /\ [sc EXCEPT !.data = d] = [reader |-> sc.reader, writer |-> sc.writer, data |-> d]
  BY PipesTyped, WithData
<1>2. pipe' = [pipe EXCEPT !["server_to_client"][run] = [sc EXCEPT !.data = d]]
  BY DEF sc
<1> QED  BY <1>1, <1>2, ScStep

\* the server closes its ends: of the pipes of its run
LEMMA ServerEndsFacts ==
  ASSUME Typed, run' = run, pipe' = ServerEnds(pipe)
  PROVE  /\ pipe' \in [Names -> [Runs -> Pipes]]
         /\ cs' = [reader |-> "closed", writer |-> cs.writer, data |-> cs.data]
         /\ sc' = [reader |-> sc.reader, writer |-> "closed", data |-> sc.data]
         /\ \A m \in Names, r \in Runs : r # run => pipe'[m][r] = pipe[m][r]
<1> USE ConstantFacts, EndFacts
<1>1. /\ Closed(cs, "reader") = [reader |-> "closed", writer |-> cs.writer, data |-> cs.data]
      /\ Closed(sc, "writer") = [reader |-> sc.reader, writer |-> "closed", data |-> sc.data]
  BY OpenedFacts DEF Typed, cs, sc
<1>2. \A n \in Names : Closed(pipe[n][run], ServerEnd(n)) \in Pipes
  BY OpenedFacts DEF Typed, Names
<1>3. \A n \in Names : pipe'[n] = [pipe[n] EXCEPT ![run] = Closed(pipe[n][run], ServerEnd(n))]
  BY DEF ServerEnds
<1>4. pipe' \in [Names -> [Runs -> Pipes]]
  BY <1>2, <1>3 DEF ServerEnds, Typed
<1> QED  BY <1>1, <1>3, <1>4 DEF Typed, cs, sc

LEMMA FifoStarts == Init => FifoInv
<1> SUFFICES ASSUME Init  PROVE FifoInv
  OBVIOUS
<1> USE ConstantFacts DEF Init
<1>1. NewPipe \in Pipes /\ NewPipe.reader = "none" /\ NewPipe.writer = "none" /\ NewPipe.data = <<>>
  BY DEF NewPipe, Pipes, EndState
<1>2. cs = NewPipe /\ sc = NewPipe
  BY DEF cs, sc
<1>3. Typed
  BY <1>1 DEF Typed, ServerPcs, SettingUpPcs, ClientPcs
<1>4. OtherRuns
  BY DEF OtherRuns
<1>5. NamesMade /\ ServerPipes /\ ClientPipes /\ BothEnds
  BY <1>1, <1>2 DEF NamesMade, ServerPipes, ClientPipes, BothEnds, SettingUpPcs, ClientEnded
<1>6. Alternation /\ Answered /\ Endings
  BY <1>1, <1>2 DEF Alternation, Answered, Endings, ClientEnded
<1> QED  BY <1>3, <1>4, <1>5, <1>6 DEF FifoInv

\* the part of the invariant about the run in progress
RunInv == NamesMade /\ ServerPipes /\ ClientPipes /\ BothEnds /\ Alternation /\ Answered /\ Endings

\* a step that touches no pipe
LEMMA NoPipe ==
  ASSUME FifoInv, UNCHANGED <<run, pipe>>
  PROVE  cs' = cs /\ sc' = sc /\ OtherRuns'
<1>1. cs' = cs /\ sc' = sc
  BY DEF cs, sc
<1>2. OtherRuns'
  BY OtherRunsKept DEF FifoInv, Typed
<1> QED  BY <1>1, <1>2

\* no more than one number is on its way
LEMMA OneOnItsWay ==
  ASSUME FifoInv
  PROVE  /\ Len(cs.data) <= 1 /\ Len(cs.data) + Len(sc.data) <= 1
         /\ Len(cs.data) \in Nat /\ Len(sc.data) \in Nat
<1>1. Len(<<i>>) = 1 /\ Len(<<i * i>>) = 1 /\ Len(<<>>) = 0
  OBVIOUS
<1>2. cs.data \in Seq(Nat) /\ sc.data \in Seq(Nat)
  BY PipesTyped DEF FifoInv
<1>3. CASE c_pc = "read"
  <2>1. \/ cs.data = <<i>> /\ sc.data = <<>>
        \/ cs.data = <<>> /\ sc.data = <<>>
        \/ cs.data = <<>> /\ sc.data = <<i * i>>
    BY <1>3 DEF FifoInv, Alternation
  <2>2. \/ Len(cs.data) = 1 /\ Len(sc.data) = 0
        \/ Len(cs.data) = 0 /\ Len(sc.data) = 0
        \/ Len(cs.data) = 0 /\ Len(sc.data) = 1
    BY <1>1, <2>1, Zenon
  <2>3. \A a, b : (a = 1 /\ b = 0) \/ (a = 0 /\ b = 0) \/ (a = 0 /\ b = 1) =>
                    a <= 1 /\ a + b <= 1 /\ a \in Nat /\ b \in Nat
    OBVIOUS
  <2> QED  BY <2>2, <2>3, Zenon
<1>4. CASE c_pc # "read"
  <2>1. Len(cs.data) <= 1 /\ sc.data = <<>>
    BY <1>4 DEF FifoInv, Alternation
  <2>2. Len(sc.data) = 0
    BY <1>1, <2>1, Zenon
  <2>3. Len(cs.data) \in Nat
    BY <1>2
  <2> HIDE <1>1
  <2> QED  BY <2>1, <2>2, <2>3
<1> QED  BY <1>3, <1>4

LEMMA UnlinkKeeps ==
  ASSUME FifoInv,
         \/ Unlink("client_to_server", "start", "make_receive")
         \/ Unlink("server_to_client", "unlink_send_first", "make_send")
         \/ Unlink("client_to_server", "unlink_receive", "unlink_send")
         \/ Unlink("server_to_client", "unlink_send", "exit")
  PROVE  FifoInv'
<1> USE ConstantFacts DEF Unlink, ServerGoto, clientVars
<1>1. cs' = cs /\ sc' = sc /\ OtherRuns'
  BY NoPipe
<1>2. Typed'
  BY DEF FifoInv, Typed, ServerPcs, SettingUpPcs, Names
<1>3. RunInv'
  BY <1>1 DEF FifoInv, Typed, RunInv, NamesMade, ServerPipes, ClientPipes, BothEnds, Alternation,
     Answered, Endings, SettingUpPcs, ClientEnded, Names
<1> QED  BY <1>1, <1>2, <1>3 DEF FifoInv, RunInv

LEMMA MakeFifoKeeps ==
  ASSUME FifoInv,
         \/ MakeFifo("client_to_server", "make_receive", "unlink_send_first")
         \/ MakeFifo("server_to_client", "make_send", "open_receive")
  PROVE  FifoInv'
<1> USE ConstantFacts DEF MakeFifo, ServerGoto, clientVars
<1>1. cs' = cs /\ sc' = sc /\ OtherRuns'
  BY NoPipe
<1>2. Typed'
  BY DEF FifoInv, Typed, ServerPcs, SettingUpPcs, Names
<1>3. RunInv'
  BY <1>1 DEF FifoInv, Typed, RunInv, NamesMade, ServerPipes, ClientPipes, BothEnds, Alternation,
     Answered, Endings, SettingUpPcs, ClientEnded, Names
<1> QED  BY <1>1, <1>2, <1>3 DEF FifoInv, RunInv

LEMMA ServerOpenKeeps ==
  ASSUME FifoInv,
         \/ ServerOpen("client_to_server", "open_receive", "open_send")
         \/ ServerOpen("server_to_client", "open_send", "read")
  PROVE  FifoInv'
<1> USE ConstantFacts, EndFacts DEF ServerOpen, ServerGoto, clientVars
<1>1. CASE s_pc = "open_receive" /\ s_pc' = s_pc /\ cs.reader = "none"
           /\ pipe' = [pipe EXCEPT !["client_to_server"][run] = Opened(@, "reader")]
  <2>1. UNCHANGED <<run, name, value, clientVars, kills, s_pc>>
    BY <1>1
  <2>2. /\ Opened(cs, "reader") \in Pipes
        /\ Opened(cs, "reader") = IF cs.writer \in {"opening", "open"}
                                 THEN [reader |-> "open", writer |-> "open", data |-> cs.data]
                                 ELSE [reader |-> "opening", writer |-> cs.writer, data |-> cs.data]
    BY PipesTyped, OpenedFacts DEF FifoInv
  <2>3. pipe' \in [Names -> [Runs -> Pipes]] /\ cs' = Opened(cs, "reader") /\ sc' = sc /\ OtherRuns'
    <3>1. pipe' = [pipe EXCEPT !["client_to_server"][run] = Opened(cs, "reader")]
      BY <1>1 DEF cs
    <3> QED  BY <2>1, <2>2, <3>1, CsStep DEF FifoInv
  <2>4. Typed'
    BY <2>1, <2>3 DEF FifoInv, Typed
  <2>5. /\ cs'.data = cs.data
        /\ IF cs.writer \in {"opening", "open"} THEN cs'.reader = "open" /\ cs'.writer = "open"
           ELSE cs'.reader = "opening" /\ cs'.writer = cs.writer
    BY <2>2, <2>3
  <2> HIDE <2>2
  <2>6. NamesMade' /\ ServerPipes' /\ ClientPipes'
    BY <1>1, <2>1, <2>3, <2>5
       DEF FifoInv, Typed, NamesMade, ServerPipes, ClientPipes, BothEnds, SettingUpPcs, ClientEnded
  <2>7. BothEnds'
    BY <2>3, <2>5, PipesTyped DEF FifoInv, BothEnds, EndState
  <2>8. Alternation' /\ Answered' /\ Endings'
    BY <1>1, <2>1, <2>3, <2>5 DEF FifoInv, Alternation, Answered, Endings, ClientEnded
  <2> QED  BY <2>3, <2>4, <2>6, <2>7, <2>8 DEF FifoInv
<1>2. CASE s_pc = "open_send" /\ s_pc' = s_pc /\ sc.writer = "none"
           /\ pipe' = [pipe EXCEPT !["server_to_client"][run] = Opened(@, "writer")]
  <2>1. UNCHANGED <<run, name, value, clientVars, kills, s_pc>>
    BY <1>2
  <2>2. /\ Opened(sc, "writer") \in Pipes
        /\ Opened(sc, "writer") = IF sc.reader \in {"opening", "open"}
                                 THEN [reader |-> "open", writer |-> "open", data |-> sc.data]
                                 ELSE [reader |-> sc.reader, writer |-> "opening", data |-> sc.data]
    BY PipesTyped, OpenedFacts DEF FifoInv
  <2>3. pipe' \in [Names -> [Runs -> Pipes]] /\ sc' = Opened(sc, "writer") /\ cs' = cs /\ OtherRuns'
    <3>1. pipe' = [pipe EXCEPT !["server_to_client"][run] = Opened(sc, "writer")]
      BY <1>2 DEF sc
    <3> QED  BY <2>1, <2>2, <3>1, ScStep DEF FifoInv
  <2>4. Typed'
    BY <2>1, <2>3 DEF FifoInv, Typed
  <2>5. /\ sc'.data = sc.data
        /\ IF sc.reader \in {"opening", "open"} THEN sc'.reader = "open" /\ sc'.writer = "open"
           ELSE sc'.writer = "opening" /\ sc'.reader = sc.reader
    BY <2>2, <2>3
  <2> HIDE <2>2
  <2>6. NamesMade' /\ ServerPipes' /\ ClientPipes'
    BY <1>2, <2>1, <2>3, <2>5
       DEF FifoInv, Typed, NamesMade, ServerPipes, ClientPipes, BothEnds, SettingUpPcs, ClientEnded
  <2>7. BothEnds'
    BY <2>3, <2>5, PipesTyped DEF FifoInv, BothEnds, EndState
  <2>8. Alternation' /\ Answered' /\ Endings'
    BY <1>2, <2>1, <2>3, <2>5 DEF FifoInv, Alternation, Answered, Endings, ClientEnded
  <2> QED  BY <2>3, <2>4, <2>6, <2>7, <2>8 DEF FifoInv
<1>3. CASE /\ \/ s_pc = "open_receive" /\ s_pc' = "open_send" /\ cs.reader = "open"
              \/ s_pc = "open_send" /\ s_pc' = "read" /\ sc.writer = "open"
           /\ UNCHANGED pipe
  <2>1. UNCHANGED <<run, name, value, clientVars, kills>> /\ cs' = cs /\ sc' = sc /\ OtherRuns'
    BY <1>3, NoPipe
  <2>2. Typed'
    BY <1>3, <2>1 DEF FifoInv, Typed, ServerPcs
  <2>3. RunInv'
    BY <1>3, <2>1, PipesTyped
       DEF FifoInv, Typed, RunInv, NamesMade, ServerPipes, ClientPipes, BothEnds, Alternation,
           Answered, Endings, SettingUpPcs, ClientEnded, Names
  <2> QED  BY <2>1, <2>2, <2>3 DEF FifoInv, RunInv
<1> QED  BY <1>1, <1>2, <1>3 DEF cs, sc

LEMMA ServerReadKeeps ==
  ASSUME FifoInv, ServerRead \/ ServerReadEof
  PROVE  FifoInv'
<1> USE ConstantFacts DEF ServerGoto, clientVars
<1>1. CASE ServerRead
  <2>1. /\ s_pc = "read" /\ s_pc' = "write" /\ cs.data # <<>> /\ value' = Head(cs.data)
        /\ pipe' = [pipe EXCEPT !["client_to_server"][run].data = <<>>]
        /\ UNCHANGED <<run, name, clientVars, kills>>
    BY <1>1 DEF ServerRead, cs
  <2>2. /\ pipe' \in [Names -> [Runs -> Pipes]] /\ sc' = sc /\ OtherRuns'
        /\ cs' = [reader |-> cs.reader, writer |-> cs.writer, data |-> <<>>]
    <3>1. <<>> \in Seq(Nat)
      OBVIOUS
    <3> QED  BY <2>1, <3>1, CsData DEF FifoInv
  <2>3. cs'.reader = cs.reader /\ cs'.writer = cs.writer /\ cs'.data = <<>>
    BY <2>2
  <2>4. c_pc = "read" /\ cs.data = <<i>> /\ sc.data = <<>> /\ i \in Nat
    BY <2>1 DEF FifoInv, Alternation, Typed
  <2>5. value' = i
    BY <2>1, <2>4
  <2>6. Typed'
    BY <2>1, <2>2, <2>4, <2>5 DEF FifoInv, Typed, ServerPcs
  <2>7. NamesMade' /\ ServerPipes' /\ ClientPipes'
    BY <2>1, <2>2, <2>3, <2>4
       DEF FifoInv, Typed, NamesMade, ServerPipes, ClientPipes, SettingUpPcs, ClientEnded
  <2>8. BothEnds'
    BY <2>2, <2>3 DEF FifoInv, BothEnds
  <2>9. Alternation' /\ Answered' /\ Endings'
    BY <2>1, <2>2, <2>3, <2>4, <2>5 DEF FifoInv, Alternation, Answered, Endings, ClientEnded
  <2> QED  BY <2>2, <2>6, <2>7, <2>8, <2>9 DEF FifoInv
<1>2. CASE ServerReadEof
  <2>1. /\ s_pc = "read" /\ s_pc' = "close" /\ cs.data = <<>> /\ cs.writer # "open"
        /\ UNCHANGED <<run, name, pipe, value, clientVars, kills>>
    BY <1>2 DEF ServerReadEof, Eof, cs
  <2>2. cs' = cs /\ sc' = sc /\ OtherRuns'
    BY <2>1, NoPipe
  <2>3. Typed'
    BY <2>1 DEF FifoInv, Typed, ServerPcs
  <2>4. ClientEnded /\ ClientEnded'
    BY <2>1 DEF FifoInv, Typed, BothEnds, ServerPipes, ClientPipes, ClientPcs, ClientEnded
  <2>5. NamesMade' /\ ServerPipes' /\ ClientPipes' /\ BothEnds'
    BY <2>1, <2>2, <2>4
       DEF FifoInv, Typed, NamesMade, ServerPipes, ClientPipes, BothEnds, SettingUpPcs, ClientEnded
  <2>6. Alternation' /\ Answered' /\ Endings'
    BY <2>1, <2>2, <2>4 DEF FifoInv, Alternation, Answered, Endings, ClientEnded
  <2> QED  BY <2>2, <2>3, <2>5, <2>6 DEF FifoInv
<1> QED  BY <1>1, <1>2

\* The server writes while the client is waiting for the reply, so that nobody has
\* closed the pipe.
LEMMA ServerWriteKeeps ==
  ASSUME FifoInv, ServerWrite
  PROVE  FifoInv'
<1> USE ConstantFacts DEF clientVars
<1>1. /\ s_pc = "write" /\ c_pc = "read" /\ cs.data = <<>> /\ sc.data = <<>> /\ value = i
      /\ sc.reader = "open" /\ i \in Nat
  BY DEF FifoInv, Alternation, ClientPipes, Typed, ServerWrite
<1>2. /\ s_pc' = "read" /\ UNCHANGED <<run, name, value, clientVars, kills>>
      /\ pipe' = [pipe EXCEPT !["server_to_client"][run].data = Append(sc.data, i * i)]
  BY <1>1 DEF ServerWrite, sc
<1>3. Append(sc.data, i * i) = <<i * i>> /\ <<i * i>> \in Seq(Nat)
  <2>1. i * i \in Nat
    BY <1>1
  <2> QED  BY <1>1, <2>1
<1>4. /\ pipe' \in [Names -> [Runs -> Pipes]] /\ cs' = cs /\ OtherRuns'
      /\ sc' = [reader |-> sc.reader, writer |-> sc.writer, data |-> <<i * i>>]
  BY <1>2, <1>3, ScData DEF FifoInv
<1>5. sc'.reader = sc.reader /\ sc'.writer = sc.writer /\ sc'.data = <<i * i>>
  BY <1>4
<1>6. Typed'
  BY <1>2, <1>4 DEF FifoInv, Typed, ServerPcs
<1>7. NamesMade' /\ ServerPipes' /\ ClientPipes'
  BY <1>1, <1>2, <1>4, <1>5
     DEF FifoInv, Typed, NamesMade, ServerPipes, ClientPipes, SettingUpPcs, ClientEnded
<1>8. BothEnds'
  BY <1>4, <1>5 DEF FifoInv, BothEnds
<1>9. Alternation' /\ Answered' /\ Endings'
  BY <1>1, <1>2, <1>4, <1>5 DEF FifoInv, Alternation, Answered, Endings, ClientEnded
<1> QED  BY <1>4, <1>6, <1>7, <1>8, <1>9 DEF FifoInv

\* the server ends by itself or is killed
LEMMA ServerEndKeeps ==
  ASSUME FifoInv, ServerClose \/ ScriptKill \/ SomebodyKills
  PROVE  FifoInv'
<1> USE ConstantFacts DEF clientVars
<1>1. /\ s_pc' \in {"unlink_receive", "stopped", "killed"} /\ pipe' = ServerEnds(pipe)
      /\ s_pc' = "unlink_receive" => s_pc = "close"
      /\ s_pc' # "unlink_receive" => s_pc \notin {"exit", "stopped", "killed"}
      /\ s_pc' = "stopped" => ClientEnded
      /\ kills' \in {kills, kills + 1}
      /\ UNCHANGED <<run, name, value, clientVars>>
  BY DEF ServerClose, ServerGoto, ScriptKill, SomebodyKills, KillServer, ServerAlive, FifoInv, Typed
<1>2. /\ pipe' \in [Names -> [Runs -> Pipes]]
      /\ cs' = [reader |-> "closed", writer |-> cs.writer, data |-> cs.data]
      /\ sc' = [reader |-> sc.reader, writer |-> "closed", data |-> sc.data]
      /\ \A m \in Names, r \in Runs : r # run => pipe'[m][r] = pipe[m][r]
  BY <1>1, ServerEndsFacts DEF FifoInv
<1>3. /\ cs'.reader = "closed" /\ cs'.writer = cs.writer /\ cs'.data = cs.data
      /\ sc'.reader = sc.reader /\ sc'.writer = "closed" /\ sc'.data = sc.data
  BY <1>2
<1>4. OtherRuns'
  BY <1>1, <1>2, OtherRunsKept DEF FifoInv, Typed
<1>5. Typed'
  BY <1>1, <1>2 DEF FifoInv, Typed, ServerPcs
<1>6. NamesMade' /\ ServerPipes' /\ ClientPipes'
  BY <1>1, <1>3
     DEF FifoInv, Typed, NamesMade, ServerPipes, ClientPipes, SettingUpPcs, ClientEnded
<1>7. BothEnds'
  BY <1>3, PipesTyped DEF FifoInv, BothEnds, EndState
<1>8. Alternation'
  BY <1>1, <1>3 DEF FifoInv, Alternation, Endings, ClientEnded
<1>9. Answered' /\ Endings'
  BY <1>1, <1>3 DEF FifoInv, Typed, Answered, Endings, ClientEnded
<1> QED  BY <1>4, <1>5, <1>6, <1>7, <1>8, <1>9 DEF FifoInv

\* an attempt to open a name that is not there
LEMMA ClientTriesKeeps ==
  ASSUME FifoInv, UNCHANGED <<run, name, pipe, s_pc, value, fd, i, answers, kills>>, tries' \in Nat,
         \/ c_pc' = c_pc
         \/ c_pc = "open_send" /\ fd["client_to_server"] = Gone /\ c_pc' = "failed"
         \/ c_pc = "open_receive" /\ fd["server_to_client"] = Gone /\ c_pc' = "close_failed"
  PROVE  FifoInv'
<1> USE ConstantFacts
<1>1. cs' = cs /\ sc' = sc /\ OtherRuns'
  BY NoPipe
<1>2. Typed'
  BY DEF FifoInv, Typed, ClientPcs
<1>3. NamesMade' /\ ServerPipes' /\ ClientPipes' /\ BothEnds'
  BY <1>1 DEF FifoInv, Typed, NamesMade, ServerPipes, ClientPipes, BothEnds, SettingUpPcs, ClientEnded
<1>4. Alternation' /\ Answered' /\ Endings'
  BY <1>1 DEF FifoInv, Alternation, Answered, Endings, ClientEnded
<1> QED  BY <1>1, <1>2, <1>3, <1>4 DEF FifoInv

\* The client opens the pipe an earlier server has left: it waits for a reader that has
\* closed its end for good.
LEMMA ClientOpensOldKeeps ==
  ASSUME FifoInv, UNCHANGED <<run, name, s_pc, value, c_pc, i, answers, kills>>, tries' \in Nat,
         c_pc = "open_send", fd["client_to_server"] = Gone,
         NEW r \in Runs, r < run, name["client_to_server"] = r,
         fd' = [fd EXCEPT !["client_to_server"] = r],
         pipe' = [pipe EXCEPT !["client_to_server"][r] = Opened(@, "writer")]
  PROVE  FifoInv'
<1> USE ConstantFacts
<1> DEFINE old == pipe["client_to_server"][r]
<1>1. old \in Pipes /\ old.reader = "closed"
  BY DEF FifoInv, Typed, OtherRuns
<1>2. Opened(old, "writer") \in Pipes
      /\ Opened(old, "writer") = [reader |-> "closed", writer |-> "opening", data |-> old.data]
  BY <1>1, OpenedFacts
<1>3. /\ pipe' \in [Names -> [Runs -> Pipes]]
      /\ pipe'["client_to_server"][r] = Opened(old, "writer")
      /\ pipe'["server_to_client"] = pipe["server_to_client"]
      /\ \A q \in Runs : q # r => pipe'["client_to_server"][q] = pipe["client_to_server"][q]
      /\ \A n \in Names, q \in Runs : q # r => pipe'[n][q] = pipe[n][q]
  <2>1. pipe' = [pipe EXCEPT !["client_to_server"][r] = Opened(old, "writer")]
    OBVIOUS
  <2> HIDE DEF old
  <2> QED  BY <1>2, <2>1 DEF FifoInv, Typed, Names
<1>4. cs' = cs /\ sc' = sc
  BY <1>3 DEF FifoInv, Typed, cs, sc
<1>5. OtherRuns'
  <2>1. /\ pipe'["client_to_server"][r].reader = "closed" /\ pipe'["client_to_server"][r].data = old.data
        /\ pipe'["client_to_server"][r].writer = "opening"
    BY <1>2, <1>3
  <2>2. ASSUME NEW q \in Runs, q > run  PROVE \A n \in Names : pipe'[n][q] = NewPipe
    <3>1. q # r
      BY <2>2 DEF FifoInv, Typed
    <3>2. \A n \in Names : pipe[n][q] = NewPipe
      BY <2>2 DEF FifoInv, OtherRuns
    <3> QED  BY <1>3, <3>1, <3>2
  <2>3. ASSUME NEW q \in Runs, q < run
        PROVE  /\ pipe'["client_to_server"][q].reader = "closed"
               /\ pipe'["client_to_server"][q].writer # "open"
               /\ pipe'["client_to_server"][q].data = pipe["client_to_server"][q].data
               /\ pipe'["server_to_client"][q] = pipe["server_to_client"][q]
    <3>1. CASE q = r
      BY <1>3, <2>1, <3>1
    <3>2. CASE q # r
      BY <1>3, <2>3, <3>2 DEF FifoInv, OtherRuns
    <3> QED  BY <3>1, <3>2
  <2> QED  BY <2>2, <2>3 DEF FifoInv, OtherRuns
<1>6. Typed'
  BY <1>3 DEF FifoInv, Typed
<1>7. NamesMade' /\ ServerPipes' /\ ClientPipes' /\ BothEnds'
  BY <1>4 DEF FifoInv, Typed, NamesMade, ServerPipes, ClientPipes, BothEnds, SettingUpPcs,
     ClientEnded, Names
<1>8. Alternation' /\ Answered' /\ Endings'
  BY <1>4 DEF FifoInv, Alternation, Answered, Endings, ClientEnded
<1> QED  BY <1>4, <1>5, <1>6, <1>7, <1>8 DEF FifoInv

\* the client opens the pipes of its own run
LEMMA ClientOpensSendKeeps ==
  ASSUME FifoInv, UNCHANGED <<run, name, s_pc, value, c_pc, i, answers, kills>>, tries' \in Nat,
         c_pc = "open_send", fd["client_to_server"] = Gone, name["client_to_server"] = run,
         fd' = [fd EXCEPT !["client_to_server"] = run],
         pipe' = [pipe EXCEPT !["client_to_server"][run] = Opened(@, "writer")]
  PROVE  FifoInv'
<1> USE ConstantFacts
<1>1. Gone # run
  BY DEF FifoInv, Typed
<1>2. /\ Opened(cs, "writer") \in Pipes
      /\ Opened(cs, "writer") = IF cs.reader \in {"opening", "open"}
                               THEN [reader |-> "open", writer |-> "open", data |-> cs.data]
                               ELSE [reader |-> cs.reader, writer |-> "opening", data |-> cs.data]
  BY PipesTyped, OpenedFacts DEF FifoInv
<1>3. pipe' \in [Names -> [Runs -> Pipes]] /\ cs' = Opened(cs, "writer") /\ sc' = sc /\ OtherRuns'
  <2>1. pipe' = [pipe EXCEPT !["client_to_server"][run] = Opened(cs, "writer")]
    BY DEF cs
  <2> QED  BY <1>2, <2>1, CsStep DEF FifoInv
<1>4. /\ cs'.data = cs.data
      /\ IF cs.reader \in {"opening", "open"} THEN cs'.reader = "open" /\ cs'.writer = "open"
         ELSE cs'.writer = "opening" /\ cs'.reader = cs.reader
  BY <1>2, <1>3
<1> HIDE <1>2
<1>5. Typed'
  BY <1>3 DEF FifoInv, Typed
<1>6. fd'["client_to_server"] = run /\ fd'["server_to_client"] = fd["server_to_client"]
  BY DEF FifoInv, Typed
<1>7. cs.writer = "none"
  BY <1>1 DEF FifoInv, ClientPipes
<1>8. NamesMade' /\ ServerPipes' /\ ClientPipes'
  BY <1>1, <1>3, <1>4, <1>6, <1>7, PipesTyped
     DEF FifoInv, Typed, NamesMade, ServerPipes, ClientPipes, SettingUpPcs, ServerPcs, ClientEnded
<1>9. BothEnds'
  BY <1>3, <1>4, <1>7, PipesTyped DEF FifoInv, BothEnds, EndState
<1>10. Alternation' /\ Answered' /\ Endings'
  BY <1>3, <1>4 DEF FifoInv, Alternation, Answered, Endings, ClientEnded
<1> QED  BY <1>3, <1>5, <1>8, <1>9, <1>10 DEF FifoInv

LEMMA ClientOpensReceiveKeeps ==
  ASSUME FifoInv, UNCHANGED <<run, name, s_pc, value, c_pc, i, answers, kills>>, tries' \in Nat,
         c_pc = "open_receive", fd["server_to_client"] = Gone, name["server_to_client"] = run,
         fd' = [fd EXCEPT !["server_to_client"] = run],
         pipe' = [pipe EXCEPT !["server_to_client"][run] = Opened(@, "reader")]
  PROVE  FifoInv'
<1> USE ConstantFacts
<1>1. Gone # run
  BY DEF FifoInv, Typed
<1>2. /\ Opened(sc, "reader") \in Pipes
      /\ Opened(sc, "reader") = IF sc.writer \in {"opening", "open"}
                               THEN [reader |-> "open", writer |-> "open", data |-> sc.data]
                               ELSE [reader |-> "opening", writer |-> sc.writer, data |-> sc.data]
  BY PipesTyped, OpenedFacts DEF FifoInv
<1>3. pipe' \in [Names -> [Runs -> Pipes]] /\ sc' = Opened(sc, "reader") /\ cs' = cs /\ OtherRuns'
  <2>1. pipe' = [pipe EXCEPT !["server_to_client"][run] = Opened(sc, "reader")]
    BY DEF sc
  <2> QED  BY <1>2, <2>1, ScStep DEF FifoInv
<1>4. /\ sc'.data = sc.data
      /\ IF sc.writer \in {"opening", "open"} THEN sc'.reader = "open" /\ sc'.writer = "open"
         ELSE sc'.reader = "opening" /\ sc'.writer = sc.writer
  BY <1>2, <1>3
<1> HIDE <1>2
<1>5. Typed'
  BY <1>3 DEF FifoInv, Typed
<1>6. fd'["server_to_client"] = run /\ fd'["client_to_server"] = fd["client_to_server"]
  BY DEF FifoInv, Typed
<1>7. sc.reader = "none"
  BY <1>1 DEF FifoInv, ClientPipes
<1>8. NamesMade' /\ ServerPipes' /\ ClientPipes'
  BY <1>1, <1>3, <1>4, <1>6, <1>7, PipesTyped
     DEF FifoInv, Typed, NamesMade, ServerPipes, ClientPipes, SettingUpPcs, ServerPcs, ClientEnded
<1>9. BothEnds'
  BY <1>3, <1>4, <1>7, PipesTyped DEF FifoInv, BothEnds, EndState
<1>10. Alternation' /\ Answered' /\ Endings'
  BY <1>3, <1>4 DEF FifoInv, Alternation, Answered, Endings, ClientEnded
<1> QED  BY <1>3, <1>5, <1>8, <1>9, <1>10 DEF FifoInv

LEMMA ClientOpenKeeps ==
  ASSUME FifoInv,
         \/ ClientOpen("client_to_server", "open_send", "open_receive", "failed")
         \/ ClientOpen("server_to_client", "open_receive", "write", "close_failed")
  PROVE  FifoInv'
<1> USE ConstantFacts, EndFacts
<1>1. ASSUME NEW n \in Names, NEW from, NEW to, NEW failed, ClientOpen(n, from, to, failed),
             \/ n = "client_to_server" /\ from = "open_send" /\ to = "open_receive" /\ failed = "failed"
             \/ n = "server_to_client" /\ from = "open_receive" /\ to = "write" /\ failed = "close_failed"
      PROVE  FifoInv'
  <2>1. UNCHANGED <<run, name, s_pc, value, i, answers, kills>>
    BY <1>1 DEF ClientOpen
  <2>2. CASE fd[n] = Gone /\ name[n] = Gone /\ c_pc = from
    <3>1. tries' \in Nat /\ UNCHANGED <<pipe, fd>> /\ (c_pc' = c_pc \/ c_pc' = failed)
      BY <1>1, <2>2 DEF ClientOpen, FifoInv, Typed
    <3> QED  BY <1>1, <2>1, <2>2, <3>1, ClientTriesKeeps
  <2>3. CASE fd[n] = Gone /\ name[n] # Gone /\ c_pc = from
    <3>1. /\ fd' = [fd EXCEPT ![n] = name[n]] /\ tries' = 0 /\ UNCHANGED c_pc
          /\ pipe' = [pipe EXCEPT ![n][name[n]] = Opened(@, ClientEnd(n))]
      BY <1>1, <2>3 DEF ClientOpen
    <3>2. CASE n = "server_to_client"
      <4>1. name[n] = run
        BY <1>1, <2>3, <3>2 DEF FifoInv, Typed, NamesMade, ClientPipes
      <4>2. /\ fd' = [fd EXCEPT !["server_to_client"] = run]
            /\ pipe' = [pipe EXCEPT !["server_to_client"][run] = Opened(@, "reader")]
        BY <3>1, <3>2, <4>1
      <4> QED  BY <1>1, <2>1, <2>3, <3>1, <3>2, <4>1, <4>2, ClientOpensReceiveKeeps
    <3>3. CASE n = "client_to_server" /\ name[n] = run
      <4>1. /\ fd' = [fd EXCEPT !["client_to_server"] = run]
            /\ pipe' = [pipe EXCEPT !["client_to_server"][run] = Opened(@, "writer")]
        BY <3>1, <3>3
      <4> QED  BY <1>1, <2>1, <2>3, <3>1, <3>3, <4>1, ClientOpensSendKeeps
    <3>4. CASE n = "client_to_server" /\ name[n] # run
      <4> DEFINE r == name["client_to_server"]
      <4>1. r \in Runs /\ r < run
        BY <2>3, <3>4 DEF FifoInv, Typed, Runs
      <4>2. /\ fd' = [fd EXCEPT !["client_to_server"] = r]
            /\ pipe' = [pipe EXCEPT !["client_to_server"][r] = Opened(@, "writer")]
        BY <3>1, <3>4
      <4>3. c_pc = "open_send" /\ fd["client_to_server"] = Gone /\ tries' \in Nat
        BY <1>1, <2>3, <3>1, <3>4
      <4> HIDE DEF r
      <4>4. name["client_to_server"] = r
        BY DEF r
      <4> QED  BY <2>1, <3>1, <4>1, <4>2, <4>3, <4>4, ClientOpensOldKeeps
    <3> QED  BY <1>1, <3>2, <3>3, <3>4
  <2>4. CASE /\ fd[n] # Gone /\ pipe[n][fd[n]][ClientEnd(n)] = "open"
             /\ c_pc = from /\ c_pc' = to /\ UNCHANGED <<pipe, tries, fd>>
    <3>1. cs' = cs /\ sc' = sc /\ OtherRuns'
      BY <2>1, <2>4, NoPipe
    <3>2. fd[n] = run
      <4>1. CASE n = "client_to_server"
        <5>1. fd[n] \in Runs /\ fd[n] <= run
          BY <2>4 DEF FifoInv, Typed, Runs
        <5>2. pipe["client_to_server"][fd[n]].writer = "open"
          BY <2>4, <4>1
        <5>3. ~(fd[n] < run)
          BY <5>1, <5>2 DEF FifoInv, OtherRuns
        <5> QED  BY <5>1, <5>3 DEF FifoInv, Typed
      <4>2. CASE n = "server_to_client"
        BY <2>4, <4>2 DEF FifoInv, ClientPipes
      <4> QED  BY <1>1, <4>1, <4>2
    <3>3. n = "client_to_server" => cs.writer = "open" /\ sc.reader = "none" /\ fd["server_to_client"] = Gone
      BY <1>1, <2>4, <3>2 DEF FifoInv, ClientPipes, cs
    <3>4. n = "server_to_client" => sc.reader = "open"
      BY <2>4, <3>2 DEF sc
    <3>5. Typed'
      BY <1>1, <2>1, <2>4 DEF FifoInv, Typed, ClientPcs
    <3>6. NamesMade' /\ ServerPipes' /\ ClientPipes' /\ BothEnds'
      BY <1>1, <2>1, <2>4, <3>1, <3>2, <3>3, <3>4
         DEF FifoInv, Typed, NamesMade, ServerPipes, ClientPipes, BothEnds, SettingUpPcs, ClientEnded
    <3>7. Alternation' /\ Answered' /\ Endings'
      BY <1>1, <2>1, <2>4, <3>1 DEF FifoInv, Alternation, Answered, Endings, ClientEnded
    <3> QED  BY <3>1, <3>5, <3>6, <3>7 DEF FifoInv
  <2> QED  BY <1>1, <2>2, <2>3, <2>4 DEF ClientOpen, ClientGoto
<1> QED  BY <1>1

\* The client writes while the server is at its read, so that nobody has closed the pipe,
\* unless the server was killed.
LEMMA ClientWriteKeeps ==
  ASSUME FifoInv, ClientWrite
  PROVE  FifoInv'
<1> USE ConstantFacts, EndFacts
<1>1. /\ c_pc = "write" /\ fd["client_to_server"] = run /\ fd["server_to_client"] = run
      /\ UNCHANGED <<run, name, s_pc, value, tries, fd, i, answers, kills>>
      /\ cs.data = <<>> /\ sc.data = <<>> /\ cs.writer = "open" /\ sc.reader = "open"
  BY DEF ClientWrite, FifoInv, ClientPipes, Alternation
<1>2. CASE cs.reader = "open"
  <2>1. c_pc' = "read" /\ pipe' = [pipe EXCEPT !["client_to_server"][run].data = Append(@, i)]
    BY <1>1, <1>2 DEF ClientWrite, cs
  <2>2. Append(cs.data, i) = <<i>> /\ <<i>> \in Seq(Nat)
    BY <1>1 DEF FifoInv, Typed
  <2>3. /\ pipe' \in [Names -> [Runs -> Pipes]] /\ sc' = sc /\ OtherRuns'
        /\ cs' = [reader |-> cs.reader, writer |-> cs.writer, data |-> <<i>>]
    <3>1. pipe' = [pipe EXCEPT !["client_to_server"][run].data = <<i>>]
      BY <2>1, <2>2 DEF cs
    <3> QED  BY <1>1, <2>2, <3>1, CsData DEF FifoInv
  <2>4. cs'.reader = cs.reader /\ cs'.writer = cs.writer /\ cs'.data = <<i>>
    BY <2>3
  <2>5. Typed'
    BY <1>1, <2>1, <2>3 DEF FifoInv, Typed, ClientPcs
  <2>6. s_pc \in {"open_send", "read"}
    BY <1>1, <1>2 DEF FifoInv, Typed, ServerPcs, ServerPipes, Alternation, BothEnds, Endings,
       SettingUpPcs, ClientEnded
  <2>7. NamesMade' /\ ServerPipes' /\ ClientPipes'
    BY <1>1, <2>1, <2>3, <2>4
       DEF FifoInv, NamesMade, ServerPipes, ClientPipes, SettingUpPcs, ClientEnded
  <2>8. BothEnds'
    BY <2>3, <2>4 DEF FifoInv, BothEnds
  <2>9. Alternation' /\ Answered' /\ Endings'
    BY <1>1, <2>1, <2>3, <2>4, <2>6 DEF FifoInv, Alternation, Answered, Endings, ClientEnded
  <2> QED  BY <2>3, <2>5, <2>7, <2>8, <2>9 DEF FifoInv
<1>3. CASE cs.reader # "open"
  <2>1. c_pc' = "sigpipe" /\ pipe' = ClientEnds(pipe)
    BY <1>1, <1>3 DEF ClientWrite, cs
  <2>2. /\ Closed(cs, "writer") \in Pipes /\ Closed(sc, "reader") \in Pipes
        /\ Closed(cs, "writer") = [reader |-> cs.reader, writer |-> "closed", data |-> cs.data]
        /\ Closed(sc, "reader") = [reader |-> "closed", writer |-> sc.writer, data |-> sc.data]
    BY PipesTyped, OpenedFacts DEF FifoInv
  <2>3. /\ pipe' \in [Names -> [Runs -> Pipes]]
        /\ cs' = Closed(cs, "writer") /\ sc' = Closed(sc, "reader")
        /\ \A m \in Names, r \in Runs : r # run => pipe'[m][r] = pipe[m][r]
    <3>1. \A n \in Names : fd[n] = run /\ fd[n] # Gone
      BY <1>1 DEF FifoInv, Typed, Names
    <3>2. \A n \in Names : pipe'[n] = [pipe[n] EXCEPT ![run] = Closed(pipe[n][run], ClientEnd(n))]
      BY <2>1, <3>1 DEF ClientEnds
    <3>3. DOMAIN pipe' = Names /\ pipe' = [n \in Names |-> pipe'[n]]
      BY <2>1 DEF ClientEnds
    <3>4. \A n \in Names : Closed(pipe[n][run], ClientEnd(n)) \in Pipes
      BY <2>2 DEF cs, sc, Names
    <3>5. pipe' \in [Names -> [Runs -> Pipes]]
      <4>1. ASSUME NEW n \in Names  PROVE pipe'[n] \in [Runs -> Pipes]
        <5>1. pipe[n] \in [Runs -> Pipes] /\ run \in Runs
          BY DEF FifoInv, Typed
        <5>2. pipe'[n] = [pipe[n] EXCEPT ![run] = Closed(pipe[n][run], ClientEnd(n))]
          BY <3>2
        <5>3. Closed(pipe[n][run], ClientEnd(n)) \in Pipes
          BY <3>4
        <5> QED  BY <5>1, <5>2, <5>3
      <4> QED  BY <3>3, <4>1
    <3> QED  BY <1>1, <3>2, <3>5 DEF FifoInv, Typed, cs, sc
  <2>4. /\ cs'.reader = cs.reader /\ cs'.writer = "closed" /\ cs'.data = cs.data
        /\ sc'.reader = "closed" /\ sc'.writer = sc.writer /\ sc'.data = sc.data
    BY <2>2, <2>3
  <2>5. OtherRuns'
    BY <1>1, <2>3, OtherRunsKept DEF FifoInv, Typed
  <2>6. Typed'
    BY <1>1, <2>1, <2>3 DEF FifoInv, Typed, ClientPcs
  <2>7. s_pc = "killed"
    BY <1>1, <1>3 DEF FifoInv, Typed, ServerPcs, ServerPipes, Alternation, BothEnds, Endings,
       SettingUpPcs, ClientEnded
  <2>8. NamesMade' /\ ServerPipes' /\ ClientPipes'
    BY <1>1, <2>1, <2>4, <2>7
       DEF FifoInv, NamesMade, ServerPipes, ClientPipes, SettingUpPcs, ClientEnded
  <2>9. BothEnds'
    BY <2>4, <1>1, PipesTyped DEF FifoInv, BothEnds, EndState
  <2>10. Alternation' /\ Answered' /\ Endings'
    BY <1>1, <2>1, <2>4, <2>7 DEF FifoInv, Alternation, Answered, Endings, ClientEnded
  <2> QED  BY <2>5, <2>6, <2>8, <2>9, <2>10 DEF FifoInv
<1> QED  BY <1>2, <1>3

LEMMA ClientReadKeeps ==
  ASSUME FifoInv, ClientRead \/ ClientReadEof
  PROVE  FifoInv'
<1> USE ConstantFacts
<1>1. /\ c_pc = "read" /\ fd["server_to_client"] = run /\ i \in 1..Requests
      /\ cs.writer = "open" /\ sc.reader = "open" /\ fd["client_to_server"] = run
  BY DEF ClientRead, ClientReadEof, FifoInv, ClientPipes, Answered, Typed
<1>2. CASE ClientRead
  <2>1. /\ UNCHANGED <<run, name, s_pc, value, tries, fd, kills>> /\ i' = i + 1
        /\ c_pc' = IF i < Requests THEN "write" ELSE "close_receive"
        /\ sc.data # <<>> /\ answers' = Append(answers, Head(sc.data))
        /\ pipe' = [pipe EXCEPT !["server_to_client"][run].data = <<>>]
    BY <1>1, <1>2 DEF ClientRead, ClientGoto, sc
  <2>2. cs.data = <<>> /\ sc.data = <<i * i>> /\ s_pc \in {"read", "killed"} /\ i * i \in Nat
    BY <1>1, <2>1 DEF FifoInv, Alternation
  <2>3. /\ pipe' \in [Names -> [Runs -> Pipes]] /\ cs' = cs /\ OtherRuns'
        /\ sc' = [reader |-> sc.reader, writer |-> sc.writer, data |-> <<>>]
    <3>1. <<>> \in Seq(Nat)
      OBVIOUS
    <3> QED  BY <2>1, <3>1, ScData DEF FifoInv
  <2>4. sc'.reader = sc.reader /\ sc'.writer = sc.writer /\ sc'.data = <<>>
    BY <2>3
  <2>5. answers' = Append(answers, i * i) /\ answers \in Seq(Nat) /\ answers' \in Seq(Nat)
    BY <2>1, <2>2 DEF FifoInv, Typed
  <2>6. Typed'
    <3>1. i' \in 1..Requests + 1 /\ c_pc' \in ClientPcs
      BY <1>1, <2>1 DEF ClientPcs
    <3> QED  BY <2>1, <2>3, <2>5, <3>1 DEF FifoInv, Typed
  <2>7. NamesMade' /\ ServerPipes' /\ ClientPipes'
    BY <1>1, <2>1, <2>3, <2>4
       DEF FifoInv, NamesMade, ServerPipes, ClientPipes, SettingUpPcs, ClientEnded
  <2>8. BothEnds'
    BY <2>3, <2>4 DEF FifoInv, BothEnds
  <2>9. Answered'
    <3>1. Len(answers) = i - 1
      BY DEF FifoInv, Answered
    <3>2. Len(answers') = i /\ answers'[i] = i * i /\ \A k \in 1..i - 1 : answers'[k] = answers[k]
      BY <1>1, <2>2, <2>5, <3>1
    <3> QED  BY <1>1, <2>1, <3>2 DEF FifoInv, Answered
  <2>10. Alternation' /\ Endings'
    BY <1>1, <2>1, <2>2, <2>3, <2>4 DEF FifoInv, Alternation, Endings, ClientEnded
  <2> QED  BY <2>3, <2>6, <2>7, <2>8, <2>9, <2>10 DEF FifoInv
<1>3. CASE ClientReadEof
  <2>1. /\ UNCHANGED <<run, name, pipe, s_pc, value, tries, fd, i, answers, kills>>
        /\ c_pc' = "close_receive" /\ sc.data = <<>> /\ sc.writer # "open"
    BY <1>1, <1>3 DEF ClientReadEof, Eof, sc
  <2>2. cs' = cs /\ sc' = sc /\ OtherRuns'
    BY <2>1, NoPipe
  <2>3. Typed'
    BY <2>1 DEF FifoInv, Typed, ClientPcs
  <2>4. s_pc = "killed"
    BY <1>1, <2>1 DEF FifoInv, Typed, Alternation, BothEnds, ServerPipes, Endings, ClientEnded
  <2>5. NamesMade' /\ ServerPipes' /\ ClientPipes' /\ BothEnds'
    BY <1>1, <2>1, <2>2
       DEF FifoInv, NamesMade, ServerPipes, ClientPipes, BothEnds, SettingUpPcs, ClientEnded
  <2>6. Alternation' /\ Answered' /\ Endings'
    <3>1. Len(cs.data) <= 1
      BY OneOnItsWay, Zenon
    <3> QED  BY <1>1, <2>1, <2>2, <2>4, <3>1 DEF FifoInv, Alternation, Answered, Endings, ClientEnded
  <2> QED  BY <2>2, <2>3, <2>5, <2>6 DEF FifoInv
<1> QED  BY <1>2, <1>3

LEMMA ClientCloseKeeps ==
  ASSUME FifoInv,
         \/ ClientClose("server_to_client", "close_receive", "close_send")
         \/ ClientClose("client_to_server", "close_send", "exit")
         \/ ClientClose("client_to_server", "close_failed", "failed")
  PROVE  FifoInv'
<1> USE ConstantFacts, EndFacts
<1>1. UNCHANGED <<run, name, s_pc, value, tries, fd, i, answers, kills>>
  BY DEF ClientClose
<1>2. /\ Closed(cs, "writer") \in Pipes /\ Closed(sc, "reader") \in Pipes
      /\ Closed(cs, "writer") = [reader |-> cs.reader, writer |-> "closed", data |-> cs.data]
      /\ Closed(sc, "reader") = [reader |-> "closed", writer |-> sc.writer, data |-> sc.data]
  BY PipesTyped, OpenedFacts DEF FifoInv
<1>3. CASE c_pc = "close_receive" /\ ClientClose("server_to_client", "close_receive", "close_send")
  <2>1. /\ c_pc' = "close_send"
        /\ pipe' = [pipe EXCEPT !["server_to_client"][run] = Closed(sc, "reader")]
    <3>1. fd["server_to_client"] = run
      BY <1>3 DEF FifoInv, ClientPipes
    <3> QED  BY <1>3, <3>1 DEF ClientClose, ClientGoto, sc
  <2>2. /\ pipe' \in [Names -> [Runs -> Pipes]] /\ cs' = cs /\ sc' = Closed(sc, "reader") /\ OtherRuns'
    BY <1>1, <1>2, <2>1, ScStep DEF FifoInv
  <2>3. sc'.reader = "closed" /\ sc'.writer = sc.writer /\ sc'.data = sc.data
    BY <1>2, <2>2
  <2>4. Typed'
    BY <1>1, <2>1, <2>2 DEF FifoInv, Typed, ClientPcs
  <2>5. NamesMade' /\ ServerPipes' /\ ClientPipes'
    BY <1>1, <1>3, <2>1, <2>2, <2>3
       DEF FifoInv, NamesMade, ServerPipes, ClientPipes, SettingUpPcs, ClientEnded
  <2>6. BothEnds'
    BY <2>2, <2>3, PipesTyped DEF FifoInv, BothEnds, EndState
  <2>7. Alternation' /\ Answered' /\ Endings'
    BY <1>1, <1>3, <2>1, <2>2, <2>3 DEF FifoInv, Alternation, Answered, Endings, ClientEnded
  <2> QED  BY <2>2, <2>4, <2>5, <2>6, <2>7 DEF FifoInv
<1>4. CASE \/ c_pc = "close_send" /\ ClientClose("client_to_server", "close_send", "exit")
           \/ c_pc = "close_failed" /\ ClientClose("client_to_server", "close_failed", "failed")
  <2>1. /\ c_pc' = IF c_pc = "close_send" THEN "exit" ELSE "failed"
        /\ pipe' = [pipe EXCEPT !["client_to_server"][run] = Closed(cs, "writer")]
    <3>1. fd["client_to_server"] = run
      BY <1>4 DEF FifoInv, ClientPipes
    <3> QED  BY <1>4, <3>1 DEF ClientClose, ClientGoto, cs
  <2>2. /\ pipe' \in [Names -> [Runs -> Pipes]] /\ sc' = sc /\ cs' = Closed(cs, "writer") /\ OtherRuns'
    BY <1>1, <1>2, <2>1, CsStep DEF FifoInv
  <2>3. cs'.reader = cs.reader /\ cs'.writer = "closed" /\ cs'.data = cs.data
    BY <1>2, <2>2
  <2>4. Typed'
    BY <1>1, <2>1, <2>2 DEF FifoInv, Typed, ClientPcs
  <2>5. NamesMade' /\ ServerPipes'
    BY <1>1, <2>2, <2>3 DEF FifoInv, NamesMade, ServerPipes, SettingUpPcs
  <2>6. ClientPipes'
    BY <1>1, <1>4, <2>1, <2>2, <2>3 DEF FifoInv, ClientPipes, ClientEnded
  <2>7. BothEnds'
    BY <2>2, <2>3, PipesTyped DEF FifoInv, BothEnds, EndState
  <2>8. Alternation' /\ Answered' /\ Endings'
    BY <1>1, <1>4, <2>1, <2>2, <2>3 DEF FifoInv, Alternation, Answered, Endings, ClientEnded
  <2> QED  BY <2>2, <2>4, <2>5, <2>6, <2>7, <2>8 DEF FifoInv
<1> QED  BY <1>3, <1>4 DEF ClientClose, ClientGoto

LEMMA NextRunKeeps ==
  ASSUME FifoInv, NextRun
  PROVE  FifoInv'
<1> USE ConstantFacts
<1>1. /\ ClientEnded /\ run' = run + 1 /\ run' \in Runs /\ run \in Nat /\ UNCHANGED <<name, pipe, kills>>
      /\ s_pc \in {"exit", "stopped", "killed"}
      /\ s_pc' = "start" /\ value' = 0 /\ c_pc' = "open_send" /\ tries' = 0
      /\ fd' = [n \in Names |-> Gone] /\ i' = 1 /\ answers' = <<>>
  BY DEF NextRun, FifoInv, Typed, Runs, ServerAlive, Endings
<1>2. cs' = NewPipe /\ sc' = NewPipe
  <2>1. run' > run
    BY <1>1
  <2> QED  BY <1>1, <2>1 DEF FifoInv, OtherRuns, cs, sc
<1>3. /\ cs'.reader = "none" /\ cs'.writer = "none" /\ cs'.data = <<>>
      /\ sc'.reader = "none" /\ sc'.writer = "none" /\ sc'.data = <<>>
  BY <1>2 DEF NewPipe
<1>4. /\ pipe["client_to_server"][run].reader = "closed"
      /\ pipe["client_to_server"][run].writer # "open"
      /\ pipe["server_to_client"][run].writer = "closed"
      /\ Len(pipe["client_to_server"][run].data) + Len(pipe["server_to_client"][run].data) <= 1
  <2>1. /\ cs.reader = "closed" /\ cs.writer # "open" /\ sc.writer = "closed"
        /\ sc.data = <<>> /\ Len(cs.data) <= 1 /\ Len(cs.data) \in Nat
    BY <1>1, PipesTyped DEF FifoInv, ServerPipes, ClientPipes, Alternation, ClientEnded
  <2> QED  BY <2>1 DEF cs, sc
<1>5. OtherRuns'
  <2>1. ASSUME NEW r \in Runs  PROVE (r < run' => r < run \/ r = run) /\ (r > run' => r > run)
    BY <1>1
  <2> QED  BY <1>1, <1>4, <2>1 DEF FifoInv, OtherRuns
<1>6. Typed'
  <2>1. name \in [Names -> 0..run'] /\ fd' \in [Names -> 0..run']
    BY <1>1 DEF FifoInv, Typed
  <2> QED  BY <1>1, <2>1 DEF FifoInv, Typed, ServerPcs, SettingUpPcs, ClientPcs
<1>7. \A n \in Names : name'[n] # run' /\ name'[n] \in Nat /\ fd'[n] = Gone
  BY <1>1 DEF FifoInv, Typed
<1>8. NamesMade' /\ ServerPipes' /\ ClientPipes' /\ BothEnds'
  BY <1>1, <1>3, <1>7 DEF NamesMade, ServerPipes, ClientPipes, BothEnds, SettingUpPcs, ClientEnded
<1>9. Alternation' /\ Answered' /\ Endings'
  BY <1>1, <1>3 DEF FifoInv, Alternation, Answered, Endings, ClientEnded
<1> QED  BY <1>5, <1>6, <1>8, <1>9 DEF FifoInv

LEMMA FifoKeeps == FifoInv /\ [Next]_vars => FifoInv'
<1> SUFFICES ASSUME FifoInv, [Next]_vars  PROVE FifoInv'
  OBVIOUS
<1>1. CASE UNCHANGED vars
  <2>1. cs' = cs /\ sc' = sc /\ OtherRuns'
    BY <1>1, NoPipe DEF vars
  <2>2. Typed' /\ NamesMade' /\ ServerPipes'
    BY <1>1, <2>1 DEF vars, FifoInv, Typed, NamesMade, ServerPipes
  <2>3. ClientPipes' /\ BothEnds'
    BY <1>1, <2>1 DEF vars, FifoInv, ClientPipes, BothEnds, ClientEnded
  <2>4. Alternation' /\ Answered' /\ Endings'
    BY <1>1, <2>1 DEF vars, FifoInv, Alternation, Answered, Endings, ClientEnded
  <2> QED  BY <2>1, <2>2, <2>3, <2>4 DEF FifoInv
<1>2. CASE ServerStep
  BY <1>2, UnlinkKeeps, MakeFifoKeeps, ServerOpenKeeps, ServerReadKeeps, ServerWriteKeeps,
     ServerEndKeeps DEF ServerStep, ServerSetUp, ServerCleanUp
<1>3. CASE ClientStep
  BY <1>3, ClientOpenKeeps, ClientWriteKeeps, ClientReadKeeps, ClientCloseKeeps DEF ClientStep
<1> QED  BY <1>1, <1>2, <1>3, ServerEndKeeps, NextRunKeeps DEF Next

LEMMA Invariance == Spec => []FifoInv
  BY FifoStarts, FifoKeeps, PTL DEF Spec

-----------------------------------------------------------------------------
\* For any number of requests, runs and killed servers: the k-th reply the client reads is
\* k * k, and the two pipes of a run never hold more than one number between them.
THEOREM RequestAndReplyAlternate == Spec => []RepliesMatch
<1>1. FifoInv => RepliesMatch
  <2> SUFFICES ASSUME FifoInv  PROVE RepliesMatch
    OBVIOUS
  <2> USE ConstantFacts
  <2>1. ASSUME NEW k \in DOMAIN answers  PROVE answers[k] = k * k
    <3>1. k \in 1..i - 1
      BY DEF FifoInv, Typed, Answered
    <3> QED  BY <3>1 DEF FifoInv, Answered
  <2>2. Len(cs.data) + Len(sc.data) <= 1
    BY OneOnItsWay, Zenon
  <2>3. ASSUME NEW r \in Runs
        PROVE  Len(pipe["client_to_server"][r].data) + Len(pipe["server_to_client"][r].data) <= 1
    <3>1. CASE r < run
      BY <3>1 DEF FifoInv, OtherRuns
    <3>2. CASE r = run
      BY <2>2, <3>2 DEF cs, sc
    <3>3. CASE r > run
      <4>1. \A n \in Names : pipe[n][r].data = <<>>
        <5>1. \A n \in Names : pipe[n][r] = NewPipe
          BY <3>3 DEF FifoInv, OtherRuns
        <5>2. NewPipe.data = <<>>
          BY DEF NewPipe
        <5> QED  BY <5>1, <5>2
      <4>2. Len(<<>>) = 0
        OBVIOUS
      <4>3. Len(pipe["client_to_server"][r].data) = 0 /\ Len(pipe["server_to_client"][r].data) = 0
        BY <4>1, <4>2, ConstantFacts, Zenon
      <4>4. \A a, b : a = 0 /\ b = 0 => a + b <= 1
        OBVIOUS
      <4> QED  BY <4>3, <4>4, Zenon
    <3>4. r < run \/ r = run \/ r > run
      BY DEF FifoInv, Typed
    <3> QED  BY <3>1, <3>2, <3>3, <3>4, Zenon
  <2> QED  BY <2>1, <2>3 DEF RepliesMatch
<1> QED  BY <1>1, Invariance, PTL

\* For any number of requests, runs and killed servers: a client that ends has all its
\* answers, and neither side gets a SIGPIPE, unless somebody else killed the server of
\* its run.
THEOREM NeverCutOff == Spec => []ServedInFull
<1>1. FifoInv => ServedInFull
  BY ConstantFacts DEF FifoInv, Endings, Answered, Typed, ServedInFull
<1> QED  BY <1>1, Invariance, PTL

\* For any number of runs and killed servers: a client past its first open talks to the
\* server of its own run, whatever names earlier runs have left behind.
THEOREM TalksToItsOwnServer == Spec => []OneServer
<1>1. FifoInv => OneServer
  BY DEF FifoInv, ClientPipes, OneServer
<1> QED  BY <1>1, Invariance, PTL

=============================================================================
