------------------------------- MODULE Config -------------------------------
(***************************************************************************)
(* FSMID_InitConfig of fsmid_point.cpp: at every boot the point tables are *)
(* built from the device's configuration and compared with those stored in *)
(* three blocks of flash.  The size of the records depends on the tables,  *)
(* so when one of them has changed the stored tables and all the logs      *)
(* behind them are erased and the new tables stored.  FSMID_Task then      *)
(* opens the logs.  The power may fail between any two flash calls.        *)
(*                                                                         *)
(* A configuration is [measure, frozen, info]: two sequences of points     *)
(* [information, point], and the build's table of log regions.             *)
(*                                                                         *)
(* Definitions named ...Bug are the ones after them with a coding error.   *)
(***************************************************************************)
EXTENDS Naturals, Sequences

CONSTANTS
    Configs,    \* the configurations the device may be given
    Reserved,   \* what malloc leaves in FSMID_POINT.reserved, which nobody sets
    Areas,      \* the log areas, erased one after the other
    Blank, Garbled, \* an erased block; one programmed twice
    None            \* no boot has finished

Tables == {"measure", "frozen", "info"}

ASSUME AreaAssumption == Areas \cap Tables = {}
ASSUME GarbledAssumption == Garbled # Blank

VARIABLES
    stored,     \* flash: the three configuration blocks
    logs,       \* flash: the configurations an area was used under since its erase
    config,     \* the device's configuration, with this boot's reserved field
    pc,         \* the flash call FSMID_InitConfig makes next
    pending,    \* the parts of flash still to be erased
    unchecked,  \* history: since the erase, logs were used with an empty table
    settled     \* history: the checked configuration of the last finished boot

vars == <<stored, logs, config, pc, pending, unchecked, settled>>

-----------------------------------------------------------------------------
(* The tables in RAM and their images in flash *)

\* FSMID_POINT is two words: information, and point with reserved.
Words(table, r) ==
    [w \in 1 .. 2 * Len(table) |->
        IF w % 2 = 1 THEN <<table[(w + 1) \div 2].information>>
                     ELSE <<table[w \div 2].point, r>>]

\* Compared and stored are sizeof(int) bytes for every point.
PointImage(table, r) ==
    [number |-> Len(table), words |-> [w \in 1 .. Len(table) |-> Words(table, r)[w]]]

Image(t, c) ==
    CASE t = "measure" -> PointImage(c.measure, c.reserved)
      [] t = "frozen" -> PointImage(c.frozen, c.reserved)
      [] t = "info" -> [number |-> Len(c.info), words |-> c.info]

Loaded(c, r) == [measure |-> c.measure, frozen |-> c.frozen, info |-> c.info, reserved |-> r]
Empty(c) == Len(c.measure) = 0 \/ Len(c.frozen) = 0

LoadedConfigs == {Loaded(c, r) : c \in Configs, r \in Reserved}

\* No image is all ones: it begins with a signature.
ASSUME BlankAssumption == \A t \in Tables : \A c \in LoadedConfigs : Image(t, c) # Blank

ASSUME NoneAssumption == None \notin LoadedConfigs

\* The three comparisons.
MatchesBugMeasure(c) == stored["measure"] = Image("measure", c)     \* compares one table
MatchesBugWhole(c) ==                   \* compares more than is stored
    stored["measure"] = [number |-> Len(c.measure), words |-> Words(c.measure, c.reserved)]
Matches(c) == \A t \in Tables : stored[t] = Image(t, c)

-----------------------------------------------------------------------------
(* FSMID_InitConfig *)

\* No checks are made with an empty table, and FSMID_Task goes on all the same.
Start(r) ==
    /\ pc = "off"
    /\ config' = [config EXCEPT !.reserved = r]
    /\ ~(Len(config.measure) = 0 /\ Len(config.frozen) # 0)
    /\ pc' = IF Empty(config) \/ Matches(config') THEN "open" ELSE "erase"
    /\ pending' = Tables \cup Areas
    /\ settled' = IF pc' = "erase" THEN None ELSE settled
    /\ UNCHANGED <<stored, logs, unchecked>>

\* fsmid_assert(tableMeasure && tableFrozen)
StartHang ==
    /\ pc = "off"
    /\ Len(config.measure) = 0 /\ Len(config.frozen) # 0
    /\ pc' = "hung"
    /\ UNCHANGED <<stored, logs, config, pending, unchecked, settled>>

\* The one erase call, block after block, in whatever order.
EraseBug(part) ==                       \* stops at the end of the configuration
    /\ pc = "erase" /\ part \in pending
    /\ stored' = IF part \in Tables THEN [stored EXCEPT ![part] = Blank] ELSE stored
    /\ pending' = pending \ (Areas \cup {part})
    /\ unchecked' = (unchecked /\ pending' # {})
    /\ pc' = IF pending' = {} THEN "measure" ELSE "erase"
    /\ UNCHANGED <<logs, config, settled>>

EraseBugAreas(part) ==                  \* the configuration is not erased
    /\ pc = "erase" /\ part \in pending
    /\ logs' = IF part \in Areas THEN [logs EXCEPT ![part] = {}] ELSE logs
    /\ pending' = pending \ (Tables \cup {part})
    /\ unchecked' = (unchecked /\ pending' # {})
    /\ pc' = IF pending' = {} THEN "measure" ELSE "erase"
    /\ UNCHANGED <<stored, config, settled>>

Erase(part) ==
    /\ pc = "erase" /\ part \in pending
    /\ stored' = IF part \in Tables THEN [stored EXCEPT ![part] = Blank] ELSE stored
    /\ logs' = IF part \in Areas THEN [logs EXCEPT ![part] = {}] ELSE logs
    /\ pending' = pending \ {part}
    /\ unchecked' = (unchecked /\ pending' # {})
    /\ pc' = IF pending' = {} THEN "measure" ELSE "erase"
    /\ UNCHANGED <<config, settled>>

Store(table) ==
    stored' = [stored EXCEPT ![table] = IF @ = Blank THEN Image(table, config) ELSE Garbled]

StoreTable(table, next) ==
    /\ pc = table
    /\ Store(table)
    /\ pc' = next
    /\ UNCHANGED <<logs, config, pending, unchecked, settled>>

\* Writes of the three blocks, in this order.
StoreMeasure == StoreTable("measure", "frozen")
StoreFrozen == StoreTable("frozen", "info")
StoreInfo == StoreTable("info", "open")

-----------------------------------------------------------------------------
(* FSMID_Task: FSMID_CreateLogs opens and repairs the logs, and they are   *)
(* written from then on, with records of the size the tables give.         *)

OpenLogs ==
    /\ pc = "open"
    /\ logs' = [a \in Areas |-> logs[a] \cup {config}]
    /\ unchecked' = (unchecked \/ Empty(config))
    /\ settled' = IF Empty(config) THEN settled ELSE config
    /\ pc' = "ready"
    /\ UNCHANGED <<stored, config, pending>>

-----------------------------------------------------------------------------
(* The environment *)

PowerOff ==
    /\ pc # "off"
    /\ pc' = "off"
    /\ pending' = {}
    /\ UNCHANGED <<stored, logs, config, unchecked, settled>>

\* The device is given another configuration, or another build.
Reconfigure(c) ==
    /\ pc = "off"
    /\ config' = Loaded(c, config.reserved)
    /\ UNCHANGED <<stored, logs, pc, pending, unchecked, settled>>

Init ==
    /\ stored = [t \in Tables |-> Blank]
    /\ logs = [a \in Areas |-> {}]
    /\ config \in LoadedConfigs
    /\ pc = "off" /\ pending = {}
    /\ unchecked = FALSE /\ settled = None

Next ==
    \/ \E r \in Reserved : Start(r)
    \/ StartHang
    \/ \E part \in Tables \cup Areas : Erase(part)
    \/ StoreMeasure \/ StoreFrozen \/ StoreInfo \/ OpenLogs
    \/ PowerOff
    \/ \E c \in Configs : Reconfigure(c)

Spec == Init /\ [][Next]_vars

-----------------------------------------------------------------------------
(* Properties *)

Blocks == {Blank} \cup {Image(t, c) : t \in Tables, c \in LoadedConfigs}

\* Every block holds what one write left: none is programmed over another.
TypeOK ==
    /\ stored \in [Tables -> Blocks]
    /\ logs \in [Areas -> SUBSET LoadedConfigs]
    /\ config \in LoadedConfigs
    /\ pc \in {"off", "hung", "erase", "open", "ready"} \cup Tables
    /\ pending \subseteq Tables \cup Areas
    /\ unchecked \in BOOLEAN /\ settled \in LoadedConfigs \cup {None}

\* Wherever the power fails, tables that a boot would accept only ever stand
\* beside logs that were used under the same tables, as far as these are
\* stored; given that no boot had an empty table since.
StoredSpeaksForLogs ==
    ~unchecked /\ (\A t \in Tables : stored[t] # Blank) =>
        \A a \in Areas : \A c \in logs[a] : Matches(c)

\* Once the logs are open none holds records of another configuration, as far
\* as the tables are stored: whatever changes and power failures there were.
LogsFitConfig ==
    pc = "ready" /\ ~unchecked =>
        \A a \in Areas : \A c \in logs[a] :
            \A t \in Tables : Image(t, c) = Image(t, config)

\* Logs are only erased for a change: a boot with the tables of the last boot
\* that finished never starts an erase, whatever was tried in between.
UnchangedKeepsLogs == [][pc = "off" /\ pc' = "erase" => config' # settled]_vars

-----------------------------------------------------------------------------
(* What the repository says of the configuration and the code does not do. *)

\* fsmid_point.cpp:173, "Configuartion not changed.": logs that are kept were
\* only used under the tables the device has now.
NotChangedMeansSame ==
    pc = "ready" /\ ~Empty(config) =>
        \A a \in Areas : \A c \in logs[a] :
            c.measure = config.measure /\ c.frozen = config.frozen /\ c.info = config.info

\* fsmid_point.cpp:146, "Measure table changed.": an erase starts only when the
\* device has been given another configuration since the last finished boot.
ChangedMeansOther ==
    [][pc = "off" /\ pc' = "erase" /\ settled # None
           => Loaded(settled, config'.reserved) # config']_vars

=============================================================================
