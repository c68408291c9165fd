---------------------------- MODULE MCIngestion ----------------------------
(***************************************************************************)
(* What stands between the venues and the rings, in one model: the feed    *)
(* threads of MCTransport and the instrument registry.  Which of them a    *)
(* behaviour runs is chosen at the start; the others rest.                 *)
(***************************************************************************)
EXTENDS MCTransport, Registry

VARIABLE registering  \* the behaviour runs the registry

ingestionVars == <<transportVars, vars, registering>>

IngestionInit ==
    /\ MCInit /\ Init
    /\ registering \in BOOLEAN
    /\ registering => part = "binance"

InTransport == ~registering /\ UNCHANGED <<vars, registering>>

IngestionNext ==
    \/ InTransport /\ MCNext
    \/ registering /\ Next /\ UNCHANGED <<transportVars, registering>>

\* The fairness of MCSpec.
IngestionSpec ==
    /\ IngestionInit /\ [][IngestionNext]_ingestionVars
    /\ WF_ingestionVars(InTransport /\ Thread)
    /\ WF_ingestionVars(InTransport /\ InFeed /\ ThreadWaits)
    /\ SF_ingestionVars(InTransport /\ Connect)
    /\ WF_ingestionVars(InTransport /\ trickled /\ Message)
    /\ SF_ingestionVars(InTransport /\ Thread /\ link = "silent" /\ PingFails /\ pc' = "sleep")

=============================================================================
