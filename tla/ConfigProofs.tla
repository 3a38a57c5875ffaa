---------------------------- MODULE ConfigProofs ----------------------------
(***************************************************************************)
(* Proofs about module Config, for every set of configurations, whatever   *)
(* the uninitialised field holds and however many log areas there are.     *)
(* Nothing is used of the images but that none of them is blank.           *)
(***************************************************************************)
EXTENDS Config, TLAPS

\* What is erased stays erased until the erase has gone through all parts, the
\* tables are stored one after the other in erased blocks while all areas are
\* empty, and the logs are only opened under tables that are stored.
ErasedSoFar ==
    pc = "erase" =>
        /\ \A t \in Tables : t \notin pending => stored[t] = Blank
        /\ \A a \in Areas : a \notin pending => logs[a] = {}

StoredSoFar ==
    pc \in Tables =>
        /\ ~unchecked
        /\ \A a \in Areas : logs[a] = {}
        /\ stored["info"] = Blank
        /\ pc \in {"measure", "frozen"} => stored["frozen"] = Blank
        /\ pc \in {"frozen", "info"} => stored["measure"] = Image("measure", config)
        /\ pc = "measure" => stored["measure"] = Blank
        /\ pc = "info" => stored["frozen"] = Image("frozen", config)

OpensStored == pc = "open" => Empty(config) \/ Matches(config)

\* The last boot that finished left its tables in flash, until an erase begins.
SettledStored ==
    /\ settled # None => Matches(settled)
    /\ pc \in {"erase"} \cup Tables => settled = None

IInv ==
    /\ TypeOK /\ ErasedSoFar /\ StoredSoFar /\ OpensStored /\ SettledStored
    /\ StoredSpeaksForLogs /\ LogsFitConfig

-----------------------------------------------------------------------------
(* Lemmas *)

\* A configuration loaded with another value of the reserved field.
LEMMA Reloaded ==
    ASSUME NEW c \in LoadedConfigs, NEW r \in Reserved
    PROVE  /\ [c EXCEPT !.reserved = r] \in LoadedConfigs
           /\ Empty([c EXCEPT !.reserved = r]) <=> Empty(c)
<1>1. PICK d \in Configs, q \in Reserved : c = Loaded(d, q)
  BY DEF LoadedConfigs
<1>2. [c EXCEPT !.reserved = r] = Loaded(d, r)
  BY <1>1 DEF Loaded
<1>3. Loaded(d, r) \in LoadedConfigs
  BY DEF LoadedConfigs
<1>4. Empty(Loaded(d, r)) <=> Empty(Loaded(d, q))
  BY DEF Empty, Loaded
<1> QED
  BY <1>1, <1>2, <1>3, <1>4

\* Storing a table in an erased block.
LEMMA Stored ==
    ASSUME TypeOK, NEW t \in Tables, Store(t), stored[t] = Blank
    PROVE  /\ stored' \in [Tables -> Blocks]
           /\ stored'[t] = Image(t, config)
           /\ \A s \in Tables : s # t => stored'[s] = stored[s]
<1>1. config \in LoadedConfigs /\ stored \in [Tables -> Blocks]
  BY DEF TypeOK
<1>2. stored' = [stored EXCEPT ![t] = Image(t, config)]
  BY DEF Store
<1>3. Image(t, config) \in Blocks
  BY <1>1 DEF Blocks
<1> QED
  BY <1>1, <1>2, <1>3

LEMMA InitIInv == Init => IInv
<1> SUFFICES ASSUME Init PROVE IInv
  OBVIOUS
<1>1. TypeOK
  <2>1. stored \in [Tables -> Blocks] /\ logs \in [Areas -> SUBSET LoadedConfigs]
    BY DEF Init, Blocks
  <2>2. pending \subseteq Tables \cup Areas /\ unchecked \in BOOLEAN
    BY DEF Init
  <2> QED
    BY <2>1, <2>2 DEF Init, TypeOK
<1>2. ErasedSoFar /\ StoredSoFar /\ OpensStored /\ SettledStored
  BY DEF Init, ErasedSoFar, StoredSoFar, OpensStored, SettledStored, Tables
<1>3. StoredSpeaksForLogs /\ LogsFitConfig
  BY DEF Init, StoredSpeaksForLogs, LogsFitConfig, Tables
<1> QED
  BY <1>1, <1>2, <1>3 DEF IInv

-----------------------------------------------------------------------------
(* Each step preserves the invariant. *)

LEMMA StartIInv == ASSUME IInv, NEW r \in Reserved, Start(r) PROVE IInv'
<1> USE DEF IInv
<1>1. config' \in LoadedConfigs /\ (Empty(config') <=> Empty(config))
  BY Reloaded DEF Start, TypeOK
<1>2. pc' \in {"open", "erase"} /\ pending' = Tables \cup Areas
  BY DEF Start
<1>3. TypeOK'
  BY <1>1, <1>2 DEF Start, TypeOK
<1>4. ErasedSoFar' /\ StoredSoFar' /\ LogsFitConfig'
  BY <1>2 DEF ErasedSoFar, StoredSoFar, LogsFitConfig, Tables
<1>5. OpensStored'
  BY <1>1 DEF Start, OpensStored, Matches
<1>6. SettledStored'
  BY <1>2 DEF Start, SettledStored, Tables, Matches
<1>7. StoredSpeaksForLogs'
  BY DEF Start, StoredSpeaksForLogs, Matches
<1> QED
  BY <1>3, <1>4, <1>5, <1>6, <1>7

LEMMA EraseIInv ==
    ASSUME IInv, NEW part \in Tables \cup Areas, Erase(part) PROVE IInv'
<1> USE DEF IInv
<1>0. /\ pc = "erase" /\ pc' \in {"erase", "measure"}
      /\ pending' = pending \ {part} /\ config' = config /\ settled' = settled
      /\ (pending' = {} <=> pc' = "measure")
      /\ unchecked \in BOOLEAN
      /\ unchecked' = (unchecked /\ pending' # {})
  BY DEF Erase, TypeOK
<1>00. unchecked' \in BOOLEAN
  BY <1>0
<1>1. CASE part \in Tables
  <2>1. stored' = [stored EXCEPT ![part] = Blank] /\ logs' = logs
    BY <1>1, AreaAssumption DEF Erase
  <2>2. TypeOK'
    BY <1>0, <1>00, <1>1, <2>1 DEF TypeOK, Tables, Blocks
  <2>3. stored'[part] = Blank /\ \A t \in Tables : t # part => stored'[t] = stored[t]
    BY <1>1, <2>1 DEF TypeOK
  <2>4. ErasedSoFar'
    BY <1>0, <1>00, <1>1, <2>1, <2>3, AreaAssumption DEF ErasedSoFar
  <2>5. StoredSoFar'
    <3> SUFFICES ASSUME pc' = "measure"
                 PROVE  /\ ~unchecked' /\ \A a \in Areas : logs'[a] = {}
                        /\ \A t \in Tables : stored'[t] = Blank
      BY <1>0 DEF StoredSoFar, Tables
    <3> QED
      BY <1>0, <1>00, <1>1, <2>1, <2>3, AreaAssumption DEF ErasedSoFar
  <2>6. StoredSpeaksForLogs'
    BY <1>1, <2>3 DEF StoredSpeaksForLogs
  <2> QED
    BY <1>0, <1>00, <2>2, <2>4, <2>5, <2>6 DEF OpensStored, SettledStored, LogsFitConfig
<1>2. CASE part \in Areas
  <2>1. logs' = [logs EXCEPT ![part] = {}] /\ stored' = stored
    BY <1>2, AreaAssumption DEF Erase
  <2>2. TypeOK'
    BY <1>0, <1>00, <1>2, <2>1 DEF TypeOK, Tables
  <2>3. logs'[part] = {} /\ \A a \in Areas : a # part => logs'[a] = logs[a]
    BY <1>2, <2>1 DEF TypeOK
  <2>4. ErasedSoFar'
    BY <1>0, <1>00, <1>2, <2>1, <2>3, AreaAssumption DEF ErasedSoFar
  <2>5. (\A t \in Tables : pending' = {} => stored'[t] = Blank) /\ (pending' = {} => \A a \in Areas : logs'[a] = {})
    BY <1>0, <1>00, <1>2, <2>1, <2>3, AreaAssumption DEF ErasedSoFar
  <2>6. StoredSoFar'
    BY <1>0, <1>00, <2>5 DEF StoredSoFar, Tables
  <2>7. StoredSpeaksForLogs'
    BY <1>0, <1>00, <2>1, <2>3, <2>5 DEF StoredSpeaksForLogs, Matches
  <2> QED
    BY <1>0, <1>00, <2>2, <2>4, <2>6, <2>7 DEF OpensStored, SettledStored, LogsFitConfig
<1> QED
  BY <1>1, <1>2

LEMMA StoreMeasureIInv == ASSUME IInv, StoreMeasure PROVE IInv'
<1> USE DEF IInv
<1>0. /\ pc = "measure" /\ pc' = "frozen" /\ "measure" \in Tables /\ Store("measure")
      /\ UNCHANGED <<logs, config, pending, unchecked, settled>>
      /\ stored["measure"] = Blank /\ stored["frozen"] = Blank /\ stored["info"] = Blank
  BY DEF StoreMeasure, StoreTable, StoredSoFar, Tables
<1>1. /\ stored'["measure"] = Image("measure", config)
      /\ stored'["frozen"] = Blank /\ stored'["info"] = Blank
      /\ stored' \in [Tables -> Blocks]
  BY <1>0, Stored DEF Tables
<1>2. TypeOK' /\ StoredSoFar' /\ StoredSpeaksForLogs'
  BY <1>0, <1>1 DEF TypeOK, StoredSoFar, StoredSpeaksForLogs, Tables
<1> QED
  BY <1>0, <1>2 DEF ErasedSoFar, OpensStored, SettledStored, LogsFitConfig, Tables

LEMMA StoreFrozenIInv == ASSUME IInv, StoreFrozen PROVE IInv'
<1> USE DEF IInv
<1>0. /\ pc = "frozen" /\ pc' = "info" /\ "frozen" \in Tables /\ Store("frozen")
      /\ UNCHANGED <<logs, config, pending, unchecked, settled>>
      /\ stored["measure"] = Image("measure", config)
      /\ stored["frozen"] = Blank /\ stored["info"] = Blank
  BY DEF StoreFrozen, StoreTable, StoredSoFar, Tables
<1>1. /\ stored'["measure"] = Image("measure", config)
      /\ stored'["frozen"] = Image("frozen", config) /\ stored'["info"] = Blank
      /\ stored' \in [Tables -> Blocks]
  BY <1>0, Stored DEF Tables
<1>2. TypeOK' /\ StoredSoFar' /\ StoredSpeaksForLogs'
  BY <1>0, <1>1 DEF TypeOK, StoredSoFar, StoredSpeaksForLogs, Tables
<1> QED
  BY <1>0, <1>2 DEF ErasedSoFar, OpensStored, SettledStored, LogsFitConfig, Tables

LEMMA StoreInfoIInv == ASSUME IInv, StoreInfo PROVE IInv'
<1> USE DEF IInv
<1>0. /\ pc = "info" /\ pc' = "open" /\ "info" \in Tables /\ Store("info")
      /\ UNCHANGED <<logs, config, pending, unchecked, settled>>
      /\ stored["measure"] = Image("measure", config)
      /\ stored["frozen"] = Image("frozen", config) /\ stored["info"] = Blank
      /\ \A a \in Areas : logs[a] = {}
      /\ settled = None
  BY DEF StoreInfo, StoreTable, StoredSoFar, SettledStored, Tables
<1>1. /\ stored'["measure"] = Image("measure", config)
      /\ stored'["frozen"] = Image("frozen", config)
      /\ stored'["info"] = Image("info", config)
      /\ stored' \in [Tables -> Blocks]
  BY <1>0, Stored DEF Tables
<1>2. TypeOK' /\ OpensStored'
  BY <1>0, <1>1 DEF TypeOK, OpensStored, Matches, Tables
<1>3. StoredSpeaksForLogs'
  BY <1>0 DEF StoredSpeaksForLogs
<1> QED
  BY <1>0, <1>2, <1>3 DEF ErasedSoFar, StoredSoFar, SettledStored, LogsFitConfig, Tables

LEMMA OpenLogsIInv == ASSUME IInv, OpenLogs PROVE IInv'
<1> USE DEF IInv
<1>0. /\ pc = "open" /\ pc' = "ready" /\ stored' = stored /\ config' = config /\ pending' = pending
      /\ logs' = [a \in Areas |-> logs[a] \cup {config}]
      /\ unchecked' = (unchecked \/ Empty(config))
      /\ settled' = IF Empty(config) THEN settled ELSE config
      /\ config \in LoadedConfigs
  BY DEF OpenLogs, TypeOK
<1>1. unchecked' \in BOOLEAN
  BY <1>0
<1>2. TypeOK'
  BY <1>0, <1>1 DEF TypeOK
<1>3. ~Empty(config) => Matches(config) /\ \A t \in Tables : stored[t] # Blank
  BY <1>0, BlankAssumption DEF OpensStored, Matches
<1>4. StoredSpeaksForLogs'
  BY <1>0, <1>3 DEF StoredSpeaksForLogs, Matches
<1>5. LogsFitConfig'
  <2> SUFFICES ASSUME ~unchecked', NEW a \in Areas, NEW c \in logs'[a], NEW t \in Tables
               PROVE  Image(t, c) = Image(t, config)
    BY <1>0 DEF LogsFitConfig
  <2>1. ~unchecked /\ ~Empty(config)
    BY <1>0
  <2>2. Matches(c)
    BY <1>0, <1>3, <2>1 DEF StoredSpeaksForLogs
  <2> QED
    BY <1>3, <2>1, <2>2 DEF Matches
<1>6. SettledStored'
  BY <1>0, <1>3 DEF SettledStored, Matches, Tables
<1> QED
  BY <1>0, <1>2, <1>4, <1>5, <1>6 DEF ErasedSoFar, StoredSoFar, OpensStored, Tables

\* The steps after which no flash call is under way and flash is as it was.
LEMMA QuietIInv ==
    ASSUME IInv, UNCHANGED <<stored, logs, unchecked, settled>>, pc' \in {"off", "hung"}, TypeOK'
    PROVE  IInv'
BY DEF IInv, ErasedSoFar, StoredSoFar, OpensStored, SettledStored, StoredSpeaksForLogs,
       LogsFitConfig, Matches, Tables

LEMMA StutterIInv == ASSUME IInv, UNCHANGED vars PROVE IInv'
BY DEF vars, IInv, TypeOK, ErasedSoFar, StoredSoFar, OpensStored, SettledStored,
       StoredSpeaksForLogs, LogsFitConfig, Matches

LEMMA NextIInv == IInv /\ [Next]_vars => IInv'
<1> SUFFICES ASSUME IInv, [Next]_vars PROVE IInv'
  OBVIOUS
<1>1. CASE \E r \in Reserved : Start(r)
  BY <1>1, StartIInv
<1>2. CASE StartHang
  <2>1. TypeOK'
    BY <1>2 DEF StartHang, IInv, TypeOK
  <2> QED
    BY <1>2, <2>1, QuietIInv DEF StartHang
<1>3. CASE \E part \in Tables \cup Areas : Erase(part)
  BY <1>3, EraseIInv
<1>4. CASE StoreMeasure
  BY <1>4, StoreMeasureIInv
<1>5. CASE StoreFrozen
  BY <1>5, StoreFrozenIInv
<1>6. CASE StoreInfo
  BY <1>6, StoreInfoIInv
<1>7. CASE OpenLogs
  BY <1>7, OpenLogsIInv
<1>8. CASE PowerOff
  <2>1. TypeOK'
    BY <1>8 DEF PowerOff, IInv, TypeOK
  <2> QED
    BY <1>8, <2>1, QuietIInv DEF PowerOff
<1>9. CASE \E c \in Configs : Reconfigure(c)
  <2>1. PICK c \in Configs : Reconfigure(c)
    BY <1>9
  <2>2. config' \in LoadedConfigs
    <3>1. PICK d \in Configs, r \in Reserved : config = Loaded(d, r)
      BY DEF IInv, TypeOK, LoadedConfigs
    <3>2. config.reserved = r
      BY <3>1 DEF Loaded
    <3> QED
      BY <2>1, <3>2 DEF Reconfigure, LoadedConfigs
  <2>3. TypeOK'
    BY <2>1, <2>2 DEF Reconfigure, IInv, TypeOK
  <2> QED
    BY <2>1, <2>3, QuietIInv DEF Reconfigure
<1>10. CASE UNCHANGED vars
  BY <1>10, StutterIInv
<1> QED
  BY <1>1, <1>2, <1>3, <1>4, <1>5, <1>6, <1>7, <1>8, <1>9, <1>10 DEF Next

LEMMA SpecIInv == Spec => []IInv
<1> QED
  BY InitIInv, NextIInv, PTL DEF Spec

-----------------------------------------------------------------------------
(* Theorems *)

\* No configuration block is ever programmed over another, and every variable
\* keeps its type, wherever the power fails in FSMID_InitConfig.
THEOREM TypeCorrect == Spec => []TypeOK
<1>1. IInv => TypeOK
  BY DEF IInv
<1> QED
  BY <1>1, SpecIInv, PTL

\* Wherever the power fails, the tables in flash that a boot would accept stand
\* beside logs used under the same tables, as far as FSMID_InitConfig stores them.
THEOREM StoredSpeaks == Spec => []StoredSpeaksForLogs
<1>1. IInv => StoredSpeaksForLogs
  BY DEF IInv
<1> QED
  BY <1>1, SpecIInv, PTL

\* The logs that FSMID_CreateLogs has opened hold no record of another
\* configuration, as far as the tables are stored.
THEOREM LogsFit == Spec => []LogsFitConfig
<1>1. IInv => LogsFitConfig
  BY DEF IInv
<1> QED
  BY <1>1, SpecIInv, PTL

\* A boot under the tables of the last finished boot erases nothing.
THEOREM KeepsLogs == Spec => UnchangedKeepsLogs
<1>1. IInv /\ [Next]_vars => [pc = "off" /\ pc' = "erase" => config' # settled]_vars
  <2> SUFFICES ASSUME IInv, Next, pc = "off", pc' = "erase", config' = settled
               PROVE  FALSE
    BY DEF vars
  <2>1. PICK r \in Reserved : Start(r)
    BY DEF Next, StartHang, Erase, StoreMeasure, StoreFrozen, StoreInfo, StoreTable,
           OpenLogs, PowerOff, Reconfigure, Tables
  <2>2. ~Matches(config')
    BY <2>1 DEF Start
  <2>3. config' \in LoadedConfigs
    BY <2>1, Reloaded DEF Start, IInv, TypeOK
  <2>4. settled # None
    BY <2>3, NoneAssumption
  <2> QED
    BY <2>2, <2>4 DEF IInv, SettledStored
<1> QED
  BY <1>1, SpecIInv, PTL DEF Spec, UnchangedKeepsLogs

=============================================================================
