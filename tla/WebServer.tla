------------------------------ MODULE WebServer ------------------------------
(* The landing-page server of cbp/web.py, with the activity feed of             *)
(* cbp/activity.py and the reloading parent of cli.py.  One thread serves one   *)
(* request after another; a request is a list of effects on what the server     *)
(* keeps in memory and, where the operator granted a path, on disk.  Between    *)
(* any two effects the process may die, be told to stop, or hit a storage       *)
(* error.  A streamed model reply comes from a worker thread through a queue    *)
(* of one place.                                                                *)
EXTENDS Naturals, Sequences

CONSTANTS NetNames,      \* names of saved networks
          MaxTurns,      \* MAX_HISTORY_TURNS, the bound of history in memory and on disk
          MaxEntries,    \* MAX_ACTIVITY_ENTRIES
          Replies,       \* the model replies an upstream may stream: sequences of chunks
          MaxRequests, MaxFailures, MaxStops   \* bounds

\* The events of a stream are tagged, so no chunk is one of the marks of its end.
Chunk == UNION {{r[i] : i \in DOMAIN r} : r \in Replies}
ConstantsOK ==
  /\ MaxTurns \in Nat /\ MaxEntries \in Nat
  /\ \A r \in Replies : r \in Seq(Chunk)
  /\ {"done", "error"} \cap Chunk = {}

VARIABLES
  up,       \* the server process runs
  mem,      \* what the server keeps: history, networks, activity, artifacts
  disk,     \* the files of the granted paths
  fx,       \* the effects the request being served has still to make
  stream,   \* the streamed request: its worker, queue and client
  \* observation variables
  acked,    \* per name, the version of the network last acknowledged as saved
  requests, failures, stops
vars == <<up, mem, disk, fx, stream, acked, requests, failures, stops>>
counts == <<requests, failures, stops>>

Empty == [history |-> <<>>, networks |-> [n \in NetNames |-> 0], activity |-> <<>>, artifacts |-> {}]
NoStream == [on |-> FALSE, client |-> FALSE, todo |-> <<>>, worker |-> "none",
             queue |-> <<>>, chunks |-> <<>>, sent |-> <<>>, full |-> <<>>, end |-> "none"]
Bound(s, n) == IF Len(s) > n THEN SubSeq(s, Len(s) - n + 1, Len(s)) ELSE s

Init ==
  /\ up = TRUE /\ mem = Empty /\ disk = Empty /\ fx = <<>> /\ stream = NoStream
  /\ acked = [n \in NetNames |-> 0]
  /\ requests = 0 /\ failures = 0 /\ stops = 0

-----------------------------------------------------------------------------
(* Requests: what each handler does, in order.  v numbers the request, so the   *)
(* entries it makes are told apart from other requests'.                        *)
Fx(op, v) == [op |-> op, name |-> "", v |-> v]

\* _record_model_turn: the user's turn, then the assistant's, also for a failed run.
ModelTurn(v) == <<Fx("turn", v), Fx("turn", v)>>

\* _run_artifact and _run_network: activity for any outcome, then an artifact per verified step.
RunPlan(v, verified) == <<Fx("activity", v)>> \o (IF verified THEN <<Fx("artifact", v)>> ELSE <<>>)

\* _run_provision: the artifact first, then activity.
RunProvision(v) == <<Fx("artifact", v), Fx("activity", v)>>

\* _bills_intake and _bills_accept, _run_demo: activity if the driver's response is verified.
RunVerified(v, verified) == IF verified THEN <<Fx("activity", v)>> ELSE <<>>

\* _network_save: a network that validates is stored; the reply acknowledges it.
NetworkSave(n, v) == <<[op |-> "network", name |-> n, v |-> v], [op |-> "ack", name |-> n, v |-> v]>>

\* _clear_history
ClearHistory(v) == <<Fx("clear", v)>>

\* _serve: one request at a time; the bound on the body and unknown paths change nothing.
Serve ==
  /\ up /\ fx = <<>> /\ ~stream.on /\ requests < MaxRequests
  /\ requests' = requests + 1
  /\ LET v == requests + 1
     IN fx' \in {ModelTurn(v), RunProvision(v), ClearHistory(v)}
               \cup {RunPlan(v, ok) : ok \in BOOLEAN} \cup {RunVerified(v, ok) : ok \in BOOLEAN}
               \cup {NetworkSave(n, v) : n \in NetNames}
  /\ UNCHANGED <<up, mem, disk, stream, acked, failures, stops>>

-----------------------------------------------------------------------------
(* Effects *)
Do(op) == up /\ fx # <<>> /\ Head(fx).op = op
V == Head(fx).v

\* Whether the write to disk goes through; a failure is counted.
Writes(ok) == IF ok THEN UNCHANGED failures
              ELSE failures < MaxFailures /\ failures' = failures + 1

\* _append_history: the durable append may fail and is logged, the turn is kept in memory.
AppendHistory(ok) ==
  /\ Do("turn") /\ Writes(ok)
  /\ mem' = [mem EXCEPT !.history = Bound(Append(@, V), MaxTurns)]
  /\ disk' = IF ok THEN [disk EXCEPT !.history = Bound(Append(@, V), MaxTurns)] ELSE disk
  /\ fx' = Tail(fx)
  /\ UNCHANGED <<up, stream, acked, requests, stops>>

\* _clear_history: the store first, then the memory.
ClearInMemory(ok) ==
  /\ Do("clear") /\ Writes(ok)
  /\ mem' = [mem EXCEPT !.history = <<>>]
  /\ fx' = Tail(fx)
  /\ UNCHANGED <<up, disk, stream, acked, requests, stops>>
DoClear(ok) ==
  /\ Do("clear") /\ Writes(ok)
  /\ mem' = [mem EXCEPT !.history = <<>>]
  /\ disk' = IF ok THEN [disk EXCEPT !.history = <<>>] ELSE disk
  /\ fx' = Tail(fx)
  /\ UNCHANGED <<up, stream, acked, requests, stops>>

\* The memory is changed before the file is replaced; an error leaves the handler, which then
\* does not reply.
SaveNetwork(ok) ==
  /\ Do("network") /\ Writes(ok)
  /\ mem' = [mem EXCEPT !.networks[Head(fx).name] = V]
  /\ disk' = IF ok THEN [disk EXCEPT !.networks = mem'.networks] ELSE disk
  /\ fx' = IF ok THEN Tail(fx) ELSE <<>>
  /\ UNCHANGED <<up, stream, acked, requests, stops>>
Acknowledge ==
  /\ Do("ack")
  /\ acked' = [acked EXCEPT ![Head(fx).name] = V]
  /\ fx' = Tail(fx)
  /\ UNCHANGED <<up, mem, disk, stream, counts>>

\* ActivityFeed.record and _save: the whole feed replaces the file; errors are swallowed by
\* _record_activity.
RecordActivity(ok) ==
  /\ Do("activity") /\ Writes(ok)
  /\ mem' = [mem EXCEPT !.activity = Bound(Append(@, V), MaxEntries)]
  /\ disk' = IF ok THEN [disk EXCEPT !.activity = mem'.activity] ELSE disk
  /\ fx' = Tail(fx)
  /\ UNCHANGED <<up, stream, acked, requests, stops>>

\* _record_run_artifact, _record_provision_artifact: the vault is in memory only.
RecordArtifact ==
  /\ Do("artifact")
  /\ mem' = [mem EXCEPT !.artifacts = @ \cup {V}]
  /\ fx' = Tail(fx)
  /\ UNCHANGED <<up, disk, stream, acked, counts>>

-----------------------------------------------------------------------------
(* The streamed model reply *)

\* _serve_sse_stream and _stream_model: the worker thread is started.
StreamModel(reply) ==
  /\ up /\ fx = <<>> /\ ~stream.on /\ stream.worker = "none" /\ requests < MaxRequests
  /\ requests' = requests + 1
  /\ stream' = [NoStream EXCEPT !.on = TRUE, !.client = TRUE, !.todo = reply,
                                !.worker = "running", !.full = reply]
  /\ UNCHANGED <<up, mem, disk, fx, acked, failures, stops>>

\* Mutant: put() does not wait and replaces what is in the queue.
WorkerOverruns ==
  /\ up /\ stream.worker = "running"
  /\ stream' =
       IF stream.todo # <<>>
       THEN [stream EXCEPT !.queue = <<Head(stream.todo)>>, !.todo = Tail(@)]
       ELSE [stream EXCEPT !.queue = <<"done">>, !.worker = "none",
                           !.chunks = Append(@, "full")]
  /\ UNCHANGED <<up, mem, disk, fx, acked, counts>>

\* _worker: chunks go through the queue; then the whole text is put on `chunks` and announced.
\* put() waits while the queue's one place is taken.
Worker ==
  /\ up /\ stream.worker = "running" /\ stream.queue = <<>>
  /\ stream' =
       IF stream.todo # <<>>
       THEN [stream EXCEPT !.queue = <<Head(stream.todo)>>, !.todo = Tail(@)]
       ELSE [stream EXCEPT !.queue = <<"done">>, !.worker = "none",
                           !.chunks = Append(@, "full")]
  /\ UNCHANGED <<up, mem, disk, fx, acked, counts>>

\* The upstream call fails: the exception is put on the queue.
WorkerFails ==
  /\ up /\ stream.worker = "running" /\ stream.queue = <<>> /\ failures < MaxFailures
  /\ failures' = failures + 1
  /\ stream' = [stream EXCEPT !.queue = <<"error">>, !.worker = "none"]
  /\ UNCHANGED <<up, mem, disk, fx, acked, requests, stops>>

\* The handler takes the next event and writes it to the client; at the end the turn is
\* recorded.  A text of which no chunk was seen is sent as one chunk first.
EndStream(sent, how) ==
  /\ stream' = [stream EXCEPT !.on = FALSE, !.queue = <<>>, !.sent = sent, !.end = how]
  /\ fx' = ModelTurn(requests)
Take ==
  /\ up /\ stream.on /\ stream.client /\ stream.queue # <<>>
  /\ LET e == Head(stream.queue)
     IN IF e = "error" THEN EndStream(stream.sent, "error")
        ELSE IF e = "done"
        THEN EndStream(IF stream.chunks = <<>> THEN stream.full ELSE stream.sent, "done")
        ELSE /\ stream' = [stream EXCEPT !.queue = <<>>, !.sent = Append(@, e),
                                         !.chunks = Append(@, e)]
             /\ UNCHANGED fx
  /\ UNCHANGED <<up, mem, disk, acked, counts>>

\* The client goes away: the next write raises and the handler returns without recording a
\* turn.  Nobody takes from the queue any more: the worker, a daemon thread, is left behind with it.
ClientGone ==
  /\ up /\ stream.on /\ stream.client /\ failures < MaxFailures
  /\ failures' = failures + 1
  /\ stream' = [stream EXCEPT !.client = FALSE]
  /\ UNCHANGED <<up, mem, disk, fx, acked, requests, stops>>
Abandon ==
  /\ up /\ stream.on /\ ~stream.client /\ stream.queue # <<>>
  /\ stream' = [stream EXCEPT !.on = FALSE, !.queue = <<>>, !.end = "gone",
                                !.worker = "none"]
  /\ UNCHANGED <<up, mem, disk, fx, acked, counts>>

-----------------------------------------------------------------------------
(* The process *)

\* A crash, or SIGTERM (cbp-web-kill, the reloading parent): nothing is saved on the way out.
Killed ==
  /\ up /\ stops < MaxStops /\ stops' = stops + 1
  /\ up' = FALSE /\ mem' = Empty /\ fx' = <<>> /\ stream' = NoStream
  /\ UNCHANGED <<disk, acked, requests, failures>>

\* Ctrl-C: serve_forever saves the artifacts before it returns.
Interrupted ==
  /\ up /\ stops < MaxStops /\ stops' = stops + 1
  /\ disk' = [disk EXCEPT !.artifacts = mem.artifacts]
  /\ up' = FALSE /\ mem' = Empty /\ fx' = <<>> /\ stream' = NoStream
  /\ UNCHANGED <<acked, requests, failures>>

\* __init__: the artifacts, networks, history and activity are read back.
Start ==
  /\ ~up /\ up' = TRUE /\ mem' = disk
  /\ UNCHANGED <<disk, fx, stream, acked, counts>>

Serving ==
  \/ \E ok \in BOOLEAN : \/ AppendHistory(ok) \/ DoClear(ok) \/ SaveNetwork(ok) \/ RecordActivity(ok)
  \/ Acknowledge \/ RecordArtifact
  \/ Worker \/ Take \/ Abandon
Next ==
  \/ Serve \/ \E r \in Replies : StreamModel(r)
  \/ Serving \/ WorkerFails \/ ClientGone \/ Killed \/ Interrupted \/ Start
Spec == Init /\ [][Next]_vars /\ WF_vars(Serving)

-----------------------------------------------------------------------------
\* What the server keeps, what is on disk and the streamed request are of their types.
TypeOK ==
  /\ up \in BOOLEAN
  /\ \A s \in {mem, disk} : /\ Len(s.history) <= MaxTurns /\ Len(s.activity) <= MaxEntries
                            /\ DOMAIN s.networks = NetNames
  /\ Len(stream.queue) <= 1 /\ stream.worker \in {"none", "running"}
  /\ ~up => fx = <<>> /\ mem = Empty

\* A network whose save was acknowledged is on disk from then on, in that version or a later
\* one, through kills, restarts and storage errors of other saves (_network_save replies only
\* after os.replace).
AckedNetworkOnDisk == \A n \in NetNames : disk.networks[n] >= acked[n]

\* Between requests, as long as no write failed, the history, the networks and the activity that
\* the page shows are the ones a restart would read back: the bounds, the clears and the
\* restarts agree in memory and on disk.
RestartShowsTheSame ==
  up /\ fx = <<>> /\ failures = 0 =>
    /\ mem.history = disk.history /\ mem.networks = disk.networks /\ mem.activity = disk.activity

\* The chunks a client is sent are the reply's, in order and without gaps, and the whole reply
\* has been sent when the stream is done, if it had any chunk (_stream_model).
StreamIsReply ==
  /\ stream.sent = SubSeq(stream.full, 1, Len(stream.sent))
  /\ stream.end = "done" => stream.sent = stream.full
=============================================================================
