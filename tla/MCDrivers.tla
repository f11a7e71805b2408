----------------------------- MODULE MCDrivers -----------------------------
(* The two sides of a driver: the session it keeps and replays (Session, over the instance of   *)
(* MCSession), and the round trips below it (CbpDriver: two children, two files, two task       *)
(* values).  A behaviour is one of one side.                                                    *)
EXTENDS MCSession
CONSTANTS KidSeq, Root, Value, Path, MaxCalls, Attempts, Transports  \* CbpDriver
VARIABLES part,
          transport, linked, settled, calls, pc, attempt, todo, got, toRoot, inbox, up,
          delegated, results, granted, files  \* CbpDriver
trips == <<transport, linked, settled, calls, pc, attempt, todo, got, toRoot, inbox, up,
           delegated, results, granted, files>>

D == INSTANCE CbpDriver WITH ledger <- calls
ASSUME TripConstants == D!DriverConstants

TripKids == <<"k1", "k2">>
\* Three calls over inproc, where a call takes few steps; two over tcp.
TripCalls == [inproc |-> 3, tcp |-> 2]

OffSession == Init
OffTrips ==
  /\ transport = 0 /\ linked = 0 /\ settled = 0 /\ calls = 0 /\ pc = 0 /\ attempt = 0 /\ todo = 0
  /\ got = 0 /\ toRoot = 0 /\ inbox = 0 /\ up = 0 /\ delegated = 0 /\ results = 0 /\ granted = 0
  /\ files = 0
InitDrivers ==
  \/ part = "session" /\ Init /\ OffTrips
  \/ part = "trips" /\ D!Init /\ OffSession
NextDrivers ==
  \/ part = "session" /\ Next /\ UNCHANGED <<part, trips>>
  \/ part = "trips" /\ D!Next /\ UNCHANGED <<part, vars>>
SpecDrivers == InitDrivers /\ [][NextDrivers]_<<part, vars, trips>>

\* See CbpDriver: over inproc two attempts are enough, and what re-sending leaves behind does not
\* pile up over the calls; and a reported value is the value the executing agent holds in its cache.
TripsBounded ==
  part = "trips" => D!TypeOK /\ D!InprocAnswersByTwo /\ D!InprocLeftoverBounded /\ D!ReportedValueIsCached
\* See CbpDriver: a late copy of a write never brings an older value of the same
\* child back, and over inproc no older value at all.
WritesMoveOn == [][part = "trips" => D!FilesOnlyMoveOn]_trips
=============================================================================
