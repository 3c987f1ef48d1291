-------------------------------- MODULE Fifo --------------------------------
(***************************************************************************)
(* lab5 assignment_2: server.c and client.c, which talk through two named  *)
(* pipes, and run.sh, which starts the server in the background, runs the  *)
(* client and then kills the server, one run after the other.  One step is *)
(* one system call.                                                        *)
(*                                                                         *)
(* A pipe is an object that outlives its name; each is known by the run    *)
(* whose server made it.  A blocking open waits for the other end, and the *)
(* end that comes second lets both go on.  A read takes all there is in    *)
(* the pipe, of which sprintf's terminating 0 leaves atoi and printf the   *)
(* first number.  Failures for want of resources are left out, and so is a *)
(* killed client, which ends the script.                                   *)
(***************************************************************************)
EXTENDS Integers, Sequences

CONSTANTS Requests,       \* numbers the client sends: 9 in the code
          Tries,          \* attempts of open_fifo: 50 in the code
          MaxRuns,        \* bound on the runs of run.sh
          MaxKills        \* bound on the servers killed by somebody else
ASSUME FifoAssumption == /\ {Requests, Tries, MaxRuns} \subseteq Nat \ {0}
                         /\ MaxKills \in Nat

Runs  == 1..MaxRuns
Names == {"client_to_server", "server_to_client"}
Gone  == 0                \* the name of no pipe

VARIABLES run,            \* of run.sh
          name,           \* the pipe each name stands for, or Gone
          pipe,           \* the pipes ever made, by name and run
          s_pc, value,    \* the server and the number it has read
          c_pc, tries,    \* the client and its failed attempts to open
          fd,             \* the pipe the client has got for each name
          i, answers,     \* the number it sends and what it has received
          kills
vars == <<run, name, pipe, s_pc, value, c_pc, tries, fd, i, answers, kills>>
clientVars == <<c_pc, tries, fd, i, answers>>

Ends == {"reader", "writer"}
Peer(end) == IF end = "reader" THEN "writer" ELSE "reader"

NewPipe == [reader |-> "none", writer |-> "none", data |-> <<>>]

ServerEnd(n) == IF n = "client_to_server" THEN "reader" ELSE "writer"
ClientEnd(n) == Peer(ServerEnd(n))

\* open() of one end: it goes on at once if the other end is there, else it waits
Opened(p, end) ==
  IF p[Peer(end)] \in {"opening", "open"} THEN [p EXCEPT !.reader = "open", !.writer = "open"]
  ELSE [p EXCEPT ![end] = "opening"]

Closed(p, end) == [p EXCEPT ![end] = "closed"]

Init ==
  /\ run = 1
  /\ name = [n \in Names |-> Gone]
  /\ pipe = [n \in Names |-> [r \in Runs |-> NewPipe]]
  /\ s_pc = "start" /\ value = 0
  /\ c_pc = "open_send" /\ tries = 0 /\ fd = [n \in Names |-> Gone]
  /\ i = 1 /\ answers = <<>>
  /\ kills = 0

-----------------------------------------------------------------------------
(* server.c                                                                 *)

ServerGoto(from, to) == s_pc = from /\ s_pc' = to

\* unlink and mkfifo; there is no other server, so that mkfifo finds no such name
Unlink(n, from, to) ==
  /\ ServerGoto(from, to)
  /\ name' = [name EXCEPT ![n] = Gone]
  /\ UNCHANGED <<run, pipe, value, clientVars, kills>>

MakeFifo(n, from, to) ==
  /\ ServerGoto(from, to)
  /\ name' = [name EXCEPT ![n] = run]
  /\ UNCHANGED <<run, pipe, value, clientVars, kills>>

ServerOpen(n, from, to) ==
  /\ LET end == ServerEnd(n) IN
     \/ /\ pipe[n][run][end] = "none"
        /\ s_pc = from
        /\ pipe' = [pipe EXCEPT ![n][run] = Opened(@, end)]
        /\ UNCHANGED s_pc
     \/ /\ pipe[n][run][end] = "open"
        /\ ServerGoto(from, to)
        /\ UNCHANGED pipe
  /\ UNCHANGED <<run, name, value, clientVars, kills>>

Eof(p) == p.data = <<>> /\ p.writer # "open"

ServerRead ==
  LET p == pipe["client_to_server"][run] IN
  /\ s_pc = "read" /\ p.data # <<>>
  /\ ServerGoto("read", "write")
  /\ value' = Head(p.data)
  /\ pipe' = [pipe EXCEPT !["client_to_server"][run].data = <<>>]
  /\ UNCHANGED <<run, name, clientVars, kills>>

ServerReadEof ==
  /\ s_pc = "read" /\ Eof(pipe["client_to_server"][run])
  /\ s_pc' = "close"
  /\ UNCHANGED <<run, name, pipe, value, clientVars, kills>>

ServerEnds(p) == [n \in Names |-> [p[n] EXCEPT ![run] = Closed(@, ServerEnd(n))]]

\* a pipe nobody reads: SIGPIPE ends the server
ServerWrite ==
  /\ s_pc = "write"
  /\ IF pipe["server_to_client"][run].reader = "open"
     THEN /\ pipe' = [pipe EXCEPT !["server_to_client"][run].data = Append(@, value * value)]
          /\ s_pc' = "read"
     ELSE /\ pipe' = ServerEnds(pipe)
          /\ s_pc' = "sigpipe"
  /\ UNCHANGED <<run, name, value, clientVars, kills>>

\* Both close() in one step: the server comes here at end of file, when the client has
\* closed both its ends, so that nobody can tell the one from the other.
ServerClose ==
  /\ ServerGoto("close", "unlink_receive")
  /\ pipe' = ServerEnds(pipe)
  /\ UNCHANGED <<run, name, value, clientVars, kills>>

\* mutant: the server opens the pipes in the other order
MutServerOpensSwapped ==
  \/ Unlink("client_to_server", "start", "make_receive")
  \/ MakeFifo("client_to_server", "make_receive", "unlink_send_first")
  \/ Unlink("server_to_client", "unlink_send_first", "make_send")
  \/ MakeFifo("server_to_client", "make_send", "open_receive")
  \/ ServerOpen("server_to_client", "open_receive", "open_send")
  \/ ServerOpen("client_to_server", "open_send", "read")

\* mutant: the second pipe is made after the first is opened
MutServerSetUpLate ==
  \/ Unlink("client_to_server", "start", "make_receive")
  \/ MakeFifo("client_to_server", "make_receive", "open_receive")
  \/ ServerOpen("client_to_server", "open_receive", "unlink_send_first")
  \/ Unlink("server_to_client", "unlink_send_first", "make_send")
  \/ MakeFifo("server_to_client", "make_send", "open_send")
  \/ ServerOpen("server_to_client", "open_send", "read")

ServerSetUp ==
  \/ Unlink("client_to_server", "start", "make_receive")
  \/ MakeFifo("client_to_server", "make_receive", "unlink_send_first")
  \/ Unlink("server_to_client", "unlink_send_first", "make_send")
  \/ MakeFifo("server_to_client", "make_send", "open_receive")
  \/ ServerOpen("client_to_server", "open_receive", "open_send")
  \/ ServerOpen("server_to_client", "open_send", "read")

ServerCleanUp ==
  \/ Unlink("client_to_server", "unlink_receive", "unlink_send")
  \/ Unlink("server_to_client", "unlink_send", "exit")

ServerStep == \/ ServerSetUp \/ ServerRead \/ ServerReadEof \/ ServerWrite
              \/ ServerClose \/ ServerCleanUp

-----------------------------------------------------------------------------
(* client.c                                                                 *)

ClientGoto(from, to) == c_pc = from /\ c_pc' = to

\* open_fifo: a name that does not exist is tried again, Tries times
ClientOpen(n, from, to, failed) ==
  /\ \/ /\ fd[n] = Gone /\ name[n] = Gone /\ c_pc = from
        /\ IF tries + 1 < Tries THEN tries' = tries + 1 /\ UNCHANGED c_pc
                                ELSE tries' = 0 /\ c_pc' = failed
        /\ UNCHANGED <<pipe, fd>>
     \/ /\ fd[n] = Gone /\ name[n] # Gone /\ c_pc = from
        /\ fd' = [fd EXCEPT ![n] = name[n]]
        /\ pipe' = [pipe EXCEPT ![n][name[n]] = Opened(@, ClientEnd(n))]
        /\ tries' = 0 /\ UNCHANGED c_pc
     \/ /\ fd[n] # Gone /\ pipe[n][fd[n]][ClientEnd(n)] = "open"
        /\ ClientGoto(from, to)
        /\ UNCHANGED <<pipe, tries, fd>>
  /\ UNCHANGED <<run, name, s_pc, value, i, answers, kills>>

ClientEnds(p) ==
  [n \in Names |-> IF fd[n] = Gone THEN p[n] ELSE [p[n] EXCEPT ![fd[n]] = Closed(@, ClientEnd(n))]]

\* mutant: the client does not wait for the reply
MutClientWriteAhead ==
  /\ c_pc = "write"
  /\ pipe' = [pipe EXCEPT !["client_to_server"][fd["client_to_server"]].data = Append(@, i)]
  /\ IF i < Requests THEN i' = i + 1 /\ UNCHANGED c_pc ELSE c_pc' = "read" /\ UNCHANGED i
  /\ UNCHANGED <<run, name, s_pc, value, tries, fd, answers, kills>>

\* a pipe nobody reads: SIGPIPE ends the client
ClientWrite ==
  /\ c_pc = "write"
  /\ IF pipe["client_to_server"][fd["client_to_server"]].reader = "open"
     THEN /\ pipe' = [pipe EXCEPT !["client_to_server"][fd["client_to_server"]].data = Append(@, i)]
          /\ c_pc' = "read"
     ELSE /\ pipe' = ClientEnds(pipe)
          /\ c_pc' = "sigpipe"
  /\ UNCHANGED <<run, name, s_pc, value, tries, fd, i, answers, kills>>

ClientRead ==
  LET p == pipe["server_to_client"][fd["server_to_client"]] IN
  /\ c_pc = "read" /\ p.data # <<>>
  /\ ClientGoto("read", IF i < Requests THEN "write" ELSE "close_receive")
  /\ answers' = Append(answers, Head(p.data))
  /\ i' = i + 1
  /\ pipe' = [pipe EXCEPT !["server_to_client"][fd["server_to_client"]].data = <<>>]
  /\ UNCHANGED <<run, name, s_pc, value, tries, fd, kills>>

ClientReadEof ==
  /\ c_pc = "read" /\ Eof(pipe["server_to_client"][fd["server_to_client"]])
  /\ c_pc' = "close_receive"
  /\ UNCHANGED <<run, name, pipe, s_pc, value, tries, fd, i, answers, kills>>

ClientClose(n, from, to) ==
  /\ ClientGoto(from, to)
  /\ pipe' = [pipe EXCEPT ![n][fd[n]] = Closed(@, ClientEnd(n))]
  /\ UNCHANGED <<run, name, s_pc, value, tries, fd, i, answers, kills>>

ClientStep ==
  \/ ClientOpen("client_to_server", "open_send", "open_receive", "failed")
  \/ ClientOpen("server_to_client", "open_receive", "write", "close_failed")
  \/ ClientWrite \/ ClientRead \/ ClientReadEof
  \/ ClientClose("server_to_client", "close_receive", "close_send")
  \/ ClientClose("client_to_server", "close_send", "exit")
  \/ ClientClose("client_to_server", "close_failed", "failed")

-----------------------------------------------------------------------------
(* run.sh, and a signal from somebody else                                  *)

ServerAlive == s_pc \notin {"exit", "stopped", "killed", "sigpipe"}
ClientEnded == c_pc \in {"exit", "failed", "sigpipe"}

KillServer(pc) ==
  /\ ServerAlive
  /\ s_pc' = pc /\ pipe' = ServerEnds(pipe)
  /\ UNCHANGED <<run, name, value, clientVars>>

\* mutant: the script does not wait for the client
MutScriptKillEarly == KillServer("stopped") /\ UNCHANGED kills

ScriptKill == ClientEnded /\ KillServer("stopped") /\ UNCHANGED kills

SomebodyKills == ~ClientEnded /\ kills < MaxKills /\ kills' = kills + 1 /\ KillServer("killed")

NextRun ==
  /\ ClientEnded /\ ~ServerAlive /\ run < MaxRuns
  /\ run' = run + 1
  /\ s_pc' = "start" /\ value' = 0
  /\ c_pc' = "open_send" /\ tries' = 0 /\ fd' = [n \in Names |-> Gone]
  /\ i' = 1 /\ answers' = <<>>
  /\ UNCHANGED <<name, pipe, kills>>

\* the client waits in open for a server that does not come: it has opened the pipe
\* of an earlier run, or the server is dead
Waits(n) == fd[n] # Gone /\ pipe[n][fd[n]][ClientEnd(n)] = "opening"
Stuck == \/ Waits("client_to_server") /\ (fd["client_to_server"] # run \/ ~ServerAlive)
         \/ Waits("server_to_client") /\ ~ServerAlive

Next == ServerStep \/ ClientStep \/ ScriptKill \/ SomebodyKills \/ NextRun

\* Each process that can take a step keeps taking steps, the script too; nothing is
\* assumed of who comes first.
Spec == Init /\ [][Next]_vars /\ WF_vars(ServerStep) /\ WF_vars(ClientStep)
             /\ WF_vars(ScriptKill) /\ WF_vars(NextRun)

-----------------------------------------------------------------------------
\* Every reply the client reads is the square of the number it sent last: request and
\* reply alternate, so that a read, which takes all there is in the pipe and looks at
\* the first number only, never drops one.
RepliesMatch ==
  /\ \A k \in DOMAIN answers : answers[k] = k * k
  /\ \A r \in Runs : Len(pipe["client_to_server"][r].data)
                       + Len(pipe["server_to_client"][r].data) <= 1

\* Killing the server when the client has ended never cuts off a conversation: a client
\* ends with all its answers, unless it gave up opening or somebody else killed the server
\* of its run; only then does it write to a pipe that is closed, and the server never does.
ServedInFull ==
  /\ c_pc = "exit" => Len(answers) = Requests \/ s_pc = "killed"
  /\ c_pc = "sigpipe" => s_pc = "killed"
  /\ s_pc # "sigpipe"

\* Of the two names an earlier run may have left behind only client_to_server is a
\* trap: a client that gets past the first open has the pipes of its own server, and
\* never comes upon an old server_to_client.
OneServer ==
  /\ c_pc \in {"open_receive", "write", "read", "close_receive", "close_send"} =>
       fd["client_to_server"] = run
  /\ fd["server_to_client"] \in {Gone, run}

\* A run of the script ends, unless the client comes upon a pipe left by an earlier
\* server before this one has removed it, or the server is killed before both ends are
\* open: then the client waits in open for ever.
RunEnds == \A r \in Runs : run = r ~> (ClientEnded /\ ~ServerAlive) \/ Stuck

=============================================================================
