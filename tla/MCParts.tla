------------------------------ MODULE MCParts ------------------------------
(***************************************************************************)
(* Four parts that share no state, in one instance for TLC: which of them  *)
(* runs is chosen at first, and the others stand still.                    *)
(***************************************************************************)
EXTENDS TransactionStorage, BlockSearch, SigningService, Framing

VARIABLE part  \* the part that runs

partsVars == <<part, storageVars, searchVars, vars, framingVars>>

\* What is escaped, the characters that are, parts of escape sequences, and lengths on both
\* sides of the limit.
MCBody == {<<65>>, <<0, 162>>, <<162, 1>>, <<29>>, <<29, 65, 29>>}

\* How the parts stand still.
StorageRests ==
  /\ counter = NoState /\ pending = {} /\ lock = NoWorker
  /\ step = [w \in Worker |-> Out] /\ signed = 0 /\ sent = {} /\ mined = 0

SearchRests == chain = <<0>> /\ search = Idle

ServiceRests ==
  /\ service = [phase |-> "stopped", failures |-> 0]
  /\ day = 1 /\ file = [d \in Day |-> 0] /\ counted = 0 /\ fileName = 1
  /\ total = [d \in Day |-> 0] /\ lasts = total /\ latest = 0

FramingRests ==
  /\ writer = "client" /\ frames = <<>> /\ stream = <<>>
  /\ gathered = <<>> /\ reading = TRUE /\ received = <<>>

PartsInit ==
  \/ part = "storage" /\ StorageInit /\ SearchRests /\ ServiceRests /\ FramingRests
  \/ part = "search"  /\ StorageRests /\ SearchInit /\ ServiceRests /\ FramingRests
  \/ part = "service" /\ StorageRests /\ SearchRests /\ Init /\ FramingRests
  \/ part = "framing" /\ StorageRests /\ SearchRests /\ ServiceRests /\ FramingInit

PartsNext ==
  /\ UNCHANGED part
  /\ \/ /\ part = "storage"
        /\ StorageNext /\ ChecksHold'
        /\ UNCHANGED <<searchVars, vars, framingVars>>
     \/ /\ part = "search"
        /\ SearchNext
        /\ UNCHANGED <<storageVars, vars, framingVars>>
     \/ /\ part = "service"
        /\ Next
        /\ UNCHANGED <<storageVars, searchVars, framingVars>>
     \/ /\ part = "framing"
        /\ FramingNext
        /\ UNCHANGED <<storageVars, searchVars, vars>>

\* The fairness of FairSearchSpec and of FairSpec.
PartsSpec ==
  /\ PartsInit /\ [][PartsNext]_partsVars
  /\ WF_searchVars(Probe) /\ WF_searchVars(Return)
  /\ WF_vars(TryToConnect)
=============================================================================
