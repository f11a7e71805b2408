------------------------------ MODULE MCHosts ------------------------------
(* The two hosts a driver may run in: threads that share a DriverHost, and the web server with an  *)
(* upstream that streams no chunk, one or two.  A behaviour is one of one host.                    *)
EXTENDS DriverHost
CONSTANTS NetNames, MaxTurns, MaxEntries, Replies, MaxRequests, MaxFailures, MaxStops  \* WebServer
VARIABLES host,
          up, mem, disk, fx, stream, acked, requests, failures, stops  \* WebServer
server == <<up, mem, disk, fx, stream, acked, requests, failures, stops>>

W == INSTANCE WebServer
ASSUME ServerConstants == W!ConstantsOK
MCReplies == {<<>>, <<"c1">>, <<"c1", "c2">>}

OffServer == /\ up = 0 /\ mem = 0 /\ disk = 0 /\ fx = 0 /\ stream = 0 /\ acked = 0
             /\ requests = 0 /\ failures = 0 /\ stops = 0
OffThreads == Init
InitHosts ==
  \/ host = "threads" /\ Init /\ OffServer
  \/ host = "server" /\ W!Init /\ OffThreads
NextHosts ==
  \/ host = "threads" /\ Next /\ UNCHANGED <<host, server>>
  \/ host = "server" /\ W!Next /\ UNCHANGED <<host, vars>>
FairHosts ==
  /\ \A c \in Caller : WF_vars(host = "threads" /\ CallerStep(c))
  /\ \A w \in Worker : WF_vars(host = "threads" /\ WorkerStep(w))
  /\ WF_server(host = "server" /\ W!Serving)
SpecHosts == InitHosts /\ [][NextHosts]_<<host, vars, server>> /\ FairHosts

\* See WebServer: the chunks of a reply pass from the worker to the handler once and in order; and
\* its variables keep their types.
StreamedOnce == host = "server" => W!TypeOK /\ W!StreamIsReply
\* See WebServer: an acknowledged save is on disk from then on, and a restart shows what the page did.
DiskKeepsState == host = "server" => W!AckedNetworkOnDisk /\ W!RestartShowsTheSame
\* As long as nobody has closed the host, every submit comes back, also when several threads start
\* the worker at once and when a build fails.  A request ends: its effects are made, or its stream
\* done, abandoned or failed, although the queue holds one event only, unless the process dies.
CallsReturn ==
  /\ \A c \in Caller : (host = "threads" /\ pc[c] = "get") ~> (host = "threads" /\ (pc[c] # "get" \/ everClosed))
  /\ (host = "server" /\ up /\ (fx # <<>> \/ stream.on)) ~> (host = "server" /\ (~up \/ (fx = <<>> /\ ~stream.on)))
=============================================================================
