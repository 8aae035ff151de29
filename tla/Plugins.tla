------------------------------ MODULE Plugins ------------------------------
(***************************************************************************)
(* Plugins of the API: the row of the database, the files, the memory of   *)
(* the plugin manager (loaded plugins and the registry of their            *)
(* extensions) and the schema manager that rebuilds the GraphQL schema     *)
(* from it.  Requests of administrators run at the same time in one server *)
(* process, split where they await; the process may end at any moment.     *)
(***************************************************************************)
EXTENDS Naturals, Sequences, FiniteSets, SequencesExt

CONSTANTS
    PluginIds,      \* plugin ids
    Extensions,     \* GraphQL extensions that every plugin has
    Requests,       \* requests that can be in flight
    None,           \* no row, not loaded, no request
    MaxBegun,       \* bound on the requests
    MaxFaults       \* bound on failing steps and interrupted requests

ASSUME BegunAssumption == MaxBegun \in Nat
ASSUME FaultsAssumption == MaxFaults \in Nat
ASSUME ExtensionsAssumption == IsFiniteSet(Extensions)

VARIABLES
    row,            \* row[p]: [installed, activated], or None
    files,          \* plugins with a directory
    tables,         \* plugins whose own tables exist in the database
    up,             \* whether the process runs
    loaded,         \* loaded[p]: the status of the loaded plugin, or None
    registry,       \* builderExtensions: pairs of a plugin and an extension
    rebuild,        \* the rebuild of the schema in flight
    builder,        \* extensions whose fields are registered with the builder
    offered,        \* extensions whose fields are in the current schema
    reqs,           \* what each request has in memory
    missed,         \* history: a rebuild was refused since the last one began
    excused,        \* history: plugins a step of which failed, or whose plugin
                    \* id an update gave or took, since the process started
    overlapped,     \* history: plugins that two requests dealt with at once
                    \* since then
    incomplete,     \* history: plugins whose installation or deletion did not
                    \* finish, or whose row says installed without one
    begun,          \* history: how many requests have begun
    faults          \* history: how often a step failed or was cut off

Disk == <<row, files, tables>>
Memory == <<loaded, registry>>
Schema == <<rebuild, builder, offered, missed>>
History == <<excused, overlapped, incomplete, faults>>
vars == <<Disk, up, Memory, Schema, reqs, History, begun>>

Entry == PluginIds \X Extensions
Row == [installed : BOOLEAN, activated : BOOLEAN]
Status == {"LOADING", "ACTIVE", "INACTIVE"}

\* Where a request waits
Phases ==
    {"check", "write", "mark", "install", "extract", "record", "directory", "delete",
     "load", "read", "extend", "loaded", "activate", "starting", "activated",
     "deactivate", "stopping", "deactivated", "uninstall",
     "rebuild", "wait", "rebuilt"}

\* A request: what it does to which plugin, whether it wants it activated,
\* where it is, what follows the lifecycle operation it is in, the extensions
\* it has yet to load, the status it read and whether its object of the plugin
\* has left the map; whether it found a row, under which plugin id that row
\* stands by now, if it still does, and what an update writes into it: whether
\* the plugin is installed, and whether its activation changes.
Request ==
    [kind : {"install", "update", "upload", "delete"}, plugin : PluginIds,
     on : BOOLEAN, pc : Phases, next : {"activate", "extract", "directory", "done"},
     left : SUBSET Extensions, status : Status, stale : BOOLEAN,
     existed : BOOLEAN, at : PluginIds \cup {None},
     installed : BOOLEAN, changed : BOOLEAN]

ASSUME NoneAssumption == None \notin PluginIds \cup Row \cup Status \cup Request

\* A rebuild iterates over the array it took: a push to the registry shows up
\* in it, a removal puts another array into the registry.
Rebuild == [pc : {"off", "core", "loop", "types"}, todo : Seq(Entry),
            detached : BOOLEAN]
NoRebuild == [pc |-> "off", todo |-> <<>>, detached |-> FALSE]

Active(p) == loaded[p] = "ACTIVE"
Of(p) == {p} \X Extensions
Working(p) == {r \in Requests : reqs[r] # None /\ reqs[r].plugin = p}
Quiet == rebuild.pc = "off" /\ \A r \in Requests : reqs[r] = None

Init ==
    /\ row = [p \in PluginIds |-> None]
    /\ files = {}
    /\ tables = {}
    /\ up = FALSE
    /\ loaded = [p \in PluginIds |-> None]
    /\ registry = <<>>
    /\ rebuild = NoRebuild
    /\ builder = {}
    /\ offered = {}
    /\ reqs = [r \in Requests |-> None]
    /\ missed = FALSE
    /\ excused = {}
    /\ overlapped = {}
    /\ incomplete = {}
    /\ begun = 0
    /\ faults = 0

------------------------------------------------------------------------------
(* How requests begin, move on and end                                     *)

\* A new request, with the row it finds
Asked(kind, p, on, pc, next) ==
    [kind |-> kind, plugin |-> p, on |-> on, pc |-> pc, next |-> next,
     left |-> {}, status |-> "INACTIVE", stale |-> FALSE,
     existed |-> row[p] # None, at |-> IF row[p] = None THEN None ELSE p,
     installed |-> FALSE, changed |-> FALSE]

Begin(r, q) ==
    /\ up
    /\ reqs[r] = None
    /\ begun < MaxBegun
    /\ begun' = begun + 1
    /\ reqs' = [reqs EXCEPT ![r] = q]
    /\ overlapped' = IF Working(q.plugin) # {} THEN overlapped \cup {q.plugin}
                     ELSE overlapped

At(r, pc) == reqs[r] # None /\ reqs[r].pc = pc

Goto(r, pc) == reqs' = [reqs EXCEPT ![r].pc = pc]

End(r) == reqs' = [reqs EXCEPT ![r] = None]

\* A lifecycle operation returns or throws to its caller.
Continue(r) ==
    IF reqs[r].next = "done" THEN End(r)
    ELSE reqs' = [reqs EXCEPT ![r].pc = reqs[r].next, ![r].next = "done"]

\* A step fails.
Fault(p) ==
    /\ faults < MaxFaults
    /\ faults' = faults + 1
    /\ excused' = excused \cup {p}
    /\ UNCHANGED <<overlapped, incomplete>>

\* A step cannot be done with what it finds, which the code logs.
Excuse(p) ==
    /\ excused' = excused \cup {p}
    /\ UNCHANGED <<overlapped, incomplete, faults>>

\* The row that stands under one plugin id moves to another one, or is deleted.
Follow(from, to) ==
    [s \in Requests |-> IF reqs[s] # None /\ reqs[s].at = from
                        THEN [reqs[s] EXCEPT !.at = to] ELSE reqs[s]]

\* The object of p leaves the map: other requests hold on to it.
Stale(p) == [r \in Requests |-> IF r \in Working(p)
                                THEN [reqs[r] EXCEPT !.stale = TRUE]
                                ELSE reqs[r]]

------------------------------------------------------------------------------
(* The mutations                                                           *)

\* createPlugin
CreatePlugin(p) ==
    /\ up
    /\ row[p] = None
    /\ row' = [row EXCEPT ![p] = [installed |-> FALSE, activated |-> FALSE]]
    /\ UNCHANGED <<files, tables, up, Memory, Schema, reqs, History, begun>>

\* installPlugin: the row is read.
InstallPlugin(r, p) ==
    /\ row[p] # None
    /\ ~row[p].installed
    /\ Begin(r, Asked("install", p, FALSE, "mark", "done"))
    /\ UNCHANGED <<Disk, up, Memory, Schema, excused, incomplete, faults>>

\* The row with the plugin id, if there still is one, says installed before the
\* lifecycle's part begins.
Mark(r) ==
    LET p == reqs[r].plugin IN
    /\ At(r, "mark")
    /\ row' = IF row[p] = None THEN row ELSE [row EXCEPT ![p].installed = TRUE]
    /\ Goto(r, "install")
    /\ UNCHANGED <<files, tables, up, Memory, Schema, History, begun>>

\* Fault: tables are created only for a plugin that is loaded.
CreateTablesOfLoaded(p) ==
    tables' = IF loaded[p] # None THEN tables \cup {p} ELSE tables

\* createPluginDatabases takes the tables from the files of the plugin.
CreateTables(p) == tables' = tables \cup {p}

\* The lifecycle's installation; a failure is logged and the row stays.
Install(r) ==
    LET p == reqs[r].plugin IN
    /\ At(r, "install")
    /\ \/ /\ p \in files
          /\ CreateTables(p)
          /\ incomplete' = incomplete \ {p}
          /\ faults' = faults
       \/ /\ p \notin files \/ faults < MaxFaults
          /\ faults' = IF p \in files THEN faults + 1 ELSE faults
          /\ incomplete' = incomplete \cup {p}
          /\ UNCHANGED tables
    /\ End(r)
    /\ UNCHANGED <<row, files, up, Memory, Schema, excused, overlapped, begun>>

\* updatePlugin: the row of p is read, and each field that the input leaves out
\* taken from it.  The request deals with the plugin whose id the row gets.
UpdatePlugin(r, p, to, on, installed) ==
    /\ row[p] # None
    /\ Begin(r, [Asked("update", to, on, IF to = p THEN "write" ELSE "check", "done")
                    EXCEPT !.at = p, !.installed = installed,
                           !.changed = row[p].activated # on])
    /\ UNCHANGED <<Disk, up, Memory, Schema, excused, incomplete, faults>>

\* No row has the new plugin id.
Check(r) ==
    /\ At(r, "check")
    /\ row[reqs[r].plugin] = None
    /\ Goto(r, "write")
    /\ UNCHANGED <<Disk, up, Memory, Schema, History, begun>>

\* A row has it, when it is looked up or when the unique column refuses it.
Clash(r) ==
    LET q == reqs[r] IN
    /\ \/ At(r, "check")
       \/ At(r, "write") /\ q.at \notin {None, q.plugin}
    /\ row[q.plugin] # None
    /\ End(r)
    /\ UNCHANGED <<Disk, up, Memory, Schema, History, begun>>

\* The row is written by its id, with what was read or asked for, and the
\* plugin told of a changed activation, whether the row was there or not.
\* What is in memory stays under the old plugin id.
Write(r) ==
    LET q == reqs[r]
        p == q.plugin
        moves == q.at \notin {None, p} IN
    /\ At(r, "write")
    /\ moves => row[p] = None
    /\ row' = IF q.at = None THEN row
              ELSE [row EXCEPT ![q.at] = None,
                               ![p] = [installed |-> q.installed, activated |-> q.on]]
    /\ reqs' = [(IF moves THEN Follow(q.at, p) ELSE reqs) EXCEPT ![r] =
                   IF q.changed
                   THEN [q EXCEPT !.at = None,
                                  !.pc = IF ~q.on THEN "deactivate"
                                         ELSE IF loaded[p] = None THEN "load"
                                         ELSE "activate"]
                   ELSE None]
    /\ excused' = IF q.at = p THEN excused
                  ELSE excused \cup ({p, q.at} \ {None})
    /\ incomplete' = IF /\ q.at # None /\ q.installed
                        /\ (moves \/ ~row[p].installed)
                     THEN incomplete \cup {p} ELSE incomplete
    /\ UNCHANGED <<files, tables, up, Memory, Schema, overlapped, faults, begun>>

\* uploadPluginZip: the row is looked up and an active plugin deactivated.
UploadPluginZip(r, p, on) ==
    /\ IF row[p] # None /\ Active(p)
       THEN Begin(r, Asked("upload", p, on, "deactivate", "extract"))
       ELSE Begin(r, Asked("upload", p, on, "extract", "done"))
    /\ UNCHANGED <<Disk, up, Memory, Schema, excused, incomplete, faults>>

\* extractPluginZip
Extract(r) ==
    /\ At(r, "extract")
    /\ files' = files \cup {reqs[r].plugin}
    /\ Goto(r, "record")
    /\ UNCHANGED <<row, tables, up, Memory, Schema, History, begun>>

\* The row that was found is updated by its id, if it is still there.  Without
\* one the insertion fails, since its id is not of the column's type.
Record(r) ==
    LET q == reqs[r] IN
    /\ At(r, "record")
    /\ row' = IF q.at = None THEN row ELSE [row EXCEPT ![q.at].installed = FALSE]
    /\ IF q.on /\ q.existed THEN Goto(r, "load") ELSE End(r)
    /\ UNCHANGED <<files, tables, up, Memory, Schema, History, begun>>

\* deletePlugin: the row is read.
DeletePlugin(r, p) ==
    /\ row[p] # None
    /\ Begin(r, Asked("delete", p, FALSE, "uninstall", "directory"))
    /\ UNCHANGED <<Disk, up, Memory, Schema, excused, incomplete, faults>>

\* removePluginDirectory; when it fails the request ends and the row stays.
RemoveDirectory(r) ==
    LET p == reqs[r].plugin IN
    /\ At(r, "directory")
    /\ \/ files' = files \ {p} /\ Goto(r, "delete") /\ UNCHANGED History
       \/ /\ faults < MaxFaults
          /\ faults' = faults + 1
          /\ excused' = excused \cup {p}
          /\ incomplete' = incomplete \cup {p}
          /\ End(r)
          /\ UNCHANGED <<files, overlapped>>
    /\ UNCHANGED <<row, tables, up, Memory, Schema, begun>>

\* The row is deleted by its id.
Delete(r) ==
    LET at == reqs[r].at IN
    /\ At(r, "delete")
    /\ row' = IF at = None THEN row ELSE [row EXCEPT ![at] = None]
    /\ reqs' = [(IF at = None THEN reqs ELSE Follow(at, None)) EXCEPT ![r] = None]
    /\ UNCHANGED <<files, tables, up, Memory, Schema, History, begun>>

------------------------------------------------------------------------------
(* loadPlugin                                                              *)

\* The map and the files are looked at; without files nothing is loaded.
Load(r) ==
    LET p == reqs[r].plugin IN
    /\ At(r, "load")
    /\ IF loaded[p] # None
       THEN Goto(r, "activate") /\ UNCHANGED History
       ELSE IF p \in files
       THEN Goto(r, "read") /\ UNCHANGED History
       ELSE Goto(r, "activate") /\ Excuse(p)
    /\ UNCHANGED <<Disk, up, Memory, Schema, begun>>

\* Fault: the status of a loaded plugin is one of its own.
StatusOfLoaded(p) ==
    IF row[p] # None /\ row[p].activated THEN "ACTIVE" ELSE "LOADED"

\* The status that a plugin gets when it is loaded
StatusOf(p) ==
    IF row[p] # None /\ row[p].activated THEN "ACTIVE" ELSE "INACTIVE"

\* The row is read and a new object put into the map, in place of one that
\* another load has put there in the meantime.
Read(r) ==
    LET p == reqs[r].plugin IN
    /\ At(r, "read")
    /\ loaded' = [loaded EXCEPT ![p] = "LOADING"]
    /\ reqs' = [Stale(p) EXCEPT
                   ![r].pc = "extend",
                   ![r].left = Extensions,
                   ![r].status = StatusOf(p),
                   ![r].stale = FALSE]
    /\ UNCHANGED <<Disk, up, registry, Schema, History, begun>>

\* loadBuilderGraphQLExtension: one extension is pushed to the registry.
Extend(r) ==
    /\ At(r, "extend")
    /\ \E x \in reqs[r].left :
        LET entry == <<reqs[r].plugin, x>>
            left == reqs[r].left \ {x} IN
        /\ registry' = Append(registry, entry)
        /\ rebuild' = IF rebuild.pc \in {"loop", "types"} /\ ~rebuild.detached
                      THEN [rebuild EXCEPT !.todo = Append(@, entry)]
                      ELSE rebuild
        /\ reqs' = [reqs EXCEPT ![r].left = left,
                                ![r].pc = IF left = {} THEN "loaded" ELSE @]
        /\ UNCHANGED <<Disk, up, loaded, builder, offered, missed, History, begun>>

\* An extension cannot be loaded, or the plugin has left the map when its
\* tables are recorded: it is taken out of the map, what it has in the registry
\* stays.
ExtendFails(r) ==
    LET p == reqs[r].plugin IN
    /\ \/ (At(r, "extend") \/ At(r, "loaded")) /\ Fault(p)
       \/ At(r, "loaded") /\ loaded[p] = None /\ Excuse(p)
    /\ loaded' = [loaded EXCEPT ![p] = None]
    /\ reqs' = [Stale(p) EXCEPT ![r].pc = "activate", ![r].left = {}]
    /\ UNCHANGED <<Disk, up, registry, Schema, begun>>

\* Everything is loaded: the object gets the status that was read, and an
\* active plugin is activated, before the caller activates it.
Loaded(r) ==
    LET q == reqs[r] IN
    /\ At(r, "loaded")
    /\ loaded[q.plugin] # None
    /\ loaded' = IF q.stale THEN loaded
                 ELSE [loaded EXCEPT ![q.plugin] = q.status]
    /\ reqs' = [reqs EXCEPT ![r].pc = "activate",
                            ![r].next = IF q.status = "ACTIVE"
                                        THEN "activate" ELSE "done"]
    /\ UNCHANGED <<Disk, up, registry, Schema, History, begun>>

------------------------------------------------------------------------------
(* activatePlugin, deactivatePlugin, uninstallPlugin                       *)

\* The object is taken from the map; without one the caller logs an error.
Activate(r) ==
    LET p == reqs[r].plugin IN
    /\ At(r, "activate")
    /\ IF loaded[p] = None
       THEN Continue(r) /\ Excuse(p)
       ELSE reqs' = [reqs EXCEPT ![r].pc = "starting", ![r].stale = FALSE]
            /\ UNCHANGED History
    /\ UNCHANGED <<Disk, up, Memory, Schema, begun>>

\* The hooks have run and the manifest is loaded: the object becomes active.
\* Without the manifest it becomes inactive, with no rebuild.
SetActive(r) ==
    LET q == reqs[r] IN
    /\ At(r, "starting")
    /\ \/ /\ q.plugin \in files
          /\ loaded' = IF q.stale THEN loaded
                       ELSE [loaded EXCEPT ![q.plugin] = "ACTIVE"]
          /\ Goto(r, "activated")
          /\ UNCHANGED History
       \/ /\ q.plugin \notin files \/ faults < MaxFaults
          /\ loaded' = IF q.stale THEN loaded
                       ELSE [loaded EXCEPT ![q.plugin] = "INACTIVE"]
          /\ IF q.plugin \in files THEN Fault(q.plugin) ELSE Excuse(q.plugin)
          /\ Continue(r)
    /\ UNCHANGED <<Disk, up, registry, Schema, begun>>

\* Fault: the row is left to the mutation that asked for it.
StoreNothing(r, active) == row' = row

\* updatePluginInDatabase, by the id of the plugin
Store(r, active) ==
    LET p == reqs[r].plugin IN
    row' = IF row[p] = None THEN row ELSE [row EXCEPT ![p].activated = active]

\* Fault: an activated plugin does not ask for a rebuild.
StoreActiveOnly(r) ==
    /\ At(r, "activated")
    /\ Store(r, TRUE)
    /\ Goto(r, "rebuilt")
    /\ UNCHANGED <<files, tables, up, Memory, Schema, History, begun>>

\* The row says active, then a rebuild is asked for.
StoreActive(r) ==
    /\ At(r, "activated")
    /\ Store(r, TRUE)
    /\ Goto(r, "rebuild")
    /\ UNCHANGED <<files, tables, up, Memory, Schema, History, begun>>

\* A plugin that is not active is left alone; one that is not loaded makes the
\* caller log an error.
Deactivate(r) ==
    /\ At(r, "deactivate")
    /\ IF Active(reqs[r].plugin)
       THEN reqs' = [reqs EXCEPT ![r].pc = "stopping", ![r].stale = FALSE]
       ELSE Continue(r)
    /\ UNCHANGED <<Disk, up, Memory, Schema, History, begun>>

\* The hooks have run: the object becomes inactive, or stays active when
\* its manifest cannot be loaded.
SetInactive(r) ==
    LET q == reqs[r] IN
    /\ At(r, "stopping")
    /\ \/ /\ q.plugin \in files
          /\ loaded' = IF q.stale THEN loaded
                       ELSE [loaded EXCEPT ![q.plugin] = "INACTIVE"]
          /\ Goto(r, "deactivated")
          /\ UNCHANGED History
       \/ /\ q.plugin \notin files \/ faults < MaxFaults
          /\ loaded' = IF q.stale THEN loaded
                       ELSE [loaded EXCEPT ![q.plugin] = "ACTIVE"]
          /\ IF q.plugin \in files THEN Fault(q.plugin) ELSE Excuse(q.plugin)
          /\ Continue(r)
    /\ UNCHANGED <<Disk, up, registry, Schema, begun>>

StoreInactive(r) ==
    /\ At(r, "deactivated")
    /\ Store(r, FALSE)
    /\ Goto(r, "rebuild")
    /\ UNCHANGED <<files, tables, up, Memory, Schema, History, begun>>

\* Fault: the extensions of an uninstalled plugin stay in the registry.
KeepInRegistry(p) ==
    /\ registry' = registry
    /\ rebuild' = rebuild

\* The entries of a registry that are not of p, in their order
NotOf(p, entries) ==
    LET kept[i \in 0 .. Len(entries)] ==
            IF i = 0 THEN <<>>
            ELSE IF entries[i][1] = p THEN kept[i - 1]
            ELSE Append(kept[i - 1], entries[i])
    IN  kept[Len(entries)]

\* removeFromExtensionRegistry replaces the array.
RemoveFromRegistry(p) ==
    /\ registry' = NotOf(p, registry)
    /\ rebuild' = IF rebuild.pc \in {"loop", "types"}
                  THEN [rebuild EXCEPT !.detached = TRUE] ELSE rebuild

\* uninstallPlugin after its hooks: the tables of a loaded plugin are dropped,
\* and it leaves the registry and the map, even when the row that the request
\* will delete is no longer that of this plugin.  Without the manifest nothing
\* is done.  deletePlugin goes on in either case.
Uninstall(r) ==
    LET p == reqs[r].plugin IN
    /\ At(r, "uninstall")
    /\ \/ /\ p \in files
          /\ tables' = IF loaded[p] = None THEN tables ELSE tables \ {p}
          /\ incomplete' = IF loaded[p] # None /\ reqs[r].at # p
                           THEN incomplete \cup {p} ELSE incomplete
          /\ RemoveFromRegistry(p)
          /\ loaded' = [loaded EXCEPT ![p] = None]
          /\ reqs' = [Stale(p) EXCEPT ![r].pc = "rebuild"]
          /\ UNCHANGED <<excused, overlapped, faults>>
       \/ /\ p \notin files \/ faults < MaxFaults
          /\ IF p \in files THEN Fault(p) ELSE UNCHANGED History
          /\ Continue(r)
          /\ UNCHANGED <<tables, Memory, rebuild>>
    /\ UNCHANGED <<row, files, up, builder, offered, missed, begun>>

------------------------------------------------------------------------------
(* The schema manager                                                      *)

MayRebuild == rebuild.pc = "off"

\* rebuildSchema returns at once when one is in flight.
CallRebuild ==
    IF MayRebuild
    THEN /\ rebuild' = [NoRebuild EXCEPT !.pc = "core"]
         /\ missed' = FALSE
    ELSE /\ missed' = TRUE
         /\ UNCHANGED rebuild

\* triggerSchemaRebuild
TriggerRebuild(r) ==
    /\ At(r, "rebuild")
    /\ CallRebuild
    /\ Goto(r, IF MayRebuild THEN "wait" ELSE "rebuilt")
    /\ UNCHANGED <<Disk, up, Memory, builder, offered, History, begun>>

\* The core types are imported; the array of extensions is taken.
TakeExtensions ==
    /\ rebuild.pc = "core"
    /\ rebuild' = [rebuild EXCEPT !.pc = "loop", !.todo = registry]
    /\ UNCHANGED <<Disk, up, Memory, builder, offered, missed, reqs, History, begun>>

\* An extension of an active plugin is registered with the builder, after the
\* types of the plugin are imported; another one is passed over.  Registering
\* one again fails, which is logged.
RegisterExtension ==
    /\ rebuild.pc \in {"loop", "types"}
    /\ rebuild.todo # <<>>
    /\ LET entry == Head(rebuild.todo) IN
       IF rebuild.pc = "types"
       THEN /\ builder' = builder \cup {entry}
            /\ rebuild' = [rebuild EXCEPT !.pc = "loop", !.todo = Tail(@)]
       ELSE /\ builder' = builder
            /\ rebuild' = IF Active(entry[1])
                          THEN [rebuild EXCEPT !.pc = "types"]
                          ELSE [rebuild EXCEPT !.todo = Tail(@)]
    /\ UNCHANGED <<Disk, up, Memory, offered, missed, reqs, History, begun>>

\* The one that waits for the rebuild goes on.
Resume == [r \in Requests |-> IF At(r, "wait")
                              THEN [reqs[r] EXCEPT !.pc = "rebuilt"]
                              ELSE reqs[r]]

\* The new schema has all that was ever registered with the one builder of the
\* process, also by plugins that are not active any more.
FinishRebuild ==
    /\ rebuild.pc = "loop"
    /\ rebuild.todo = <<>>
    /\ offered' = builder
    /\ rebuild' = NoRebuild
    /\ reqs' = Resume
    /\ UNCHANGED <<Disk, up, Memory, builder, missed, History, begun>>

\* The operation returns.  A deactivation announces itself first, and the
\* listener calls for one more rebuild that nobody waits for.
Rebuilt(r) ==
    LET q == reqs[r]
        deactivation == \/ q.kind = "update" /\ ~q.on
                        \/ q.kind = "upload" /\ q.next = "extract" IN
    /\ At(r, "rebuilt")
    /\ Continue(r)
    /\ IF deactivation THEN CallRebuild ELSE UNCHANGED <<rebuild, missed>>
    /\ UNCHANGED <<Disk, up, Memory, builder, offered, History, begun>>

------------------------------------------------------------------------------
(* The process                                                             *)

\* initialize loads what the rows say is installed and has files, and the first
\* schema is built from it, before requests are taken.  A plugin that is
\* activated without being installed is not loaded.
Start ==
    LET present == {p \in PluginIds : row[p] # None /\ row[p].installed
                                      /\ p \in files} IN
    /\ ~up
    /\ up' = TRUE
    /\ loaded' = [p \in PluginIds |->
                     IF p \notin present THEN None
                     ELSE StatusOf(p)]
    /\ registry' \in SetToSeqs(present \X Extensions)
    /\ builder' = {p \in present : row[p].activated} \X Extensions
    /\ offered' = builder'
    /\ excused' = {p \in PluginIds \ present : row[p] # None /\ row[p].activated}
    /\ UNCHANGED <<Disk, rebuild, missed, reqs, overlapped, incomplete, faults,
                   begun>>

\* A request that has yet to finish what it began on the disk
Unfinished(q) == q.pc = "install" \/ (q.kind = "delete" /\ q.pc # "uninstall")

\* The process ends with what it had in memory; ending in the middle of a
\* request is a fault.
Exit ==
    LET cut == {r \in Requests : reqs[r] # None} IN
    /\ up
    /\ cut # {} => faults < MaxFaults
    /\ faults' = IF cut # {} THEN faults + 1 ELSE faults
    /\ incomplete' = incomplete \cup
          {reqs[r].plugin : r \in {s \in cut : Unfinished(reqs[s])}}
    /\ excused' = {}
    /\ overlapped' = {}
    /\ up' = FALSE
    /\ loaded' = [p \in PluginIds |-> None]
    /\ registry' = <<>>
    /\ rebuild' = NoRebuild
    /\ builder' = {}
    /\ offered' = {}
    /\ missed' = FALSE
    /\ reqs' = [r \in Requests |-> None]
    /\ UNCHANGED <<Disk, begun>>

------------------------------------------------------------------------------

Mutation(r, p) ==
    \/ InstallPlugin(r, p)
    \/ DeletePlugin(r, p)
    \/ \E on \in BOOLEAN : UploadPluginZip(r, p, on)
    \/ \E to \in PluginIds, on, installed \in BOOLEAN :
          UpdatePlugin(r, p, to, on, installed)

Step(r) ==
    \/ Mark(r) \/ Install(r) \/ Check(r) \/ Clash(r) \/ Write(r)
    \/ Extract(r) \/ Record(r)
    \/ RemoveDirectory(r) \/ Delete(r)
    \/ Load(r) \/ Read(r) \/ Extend(r) \/ ExtendFails(r) \/ Loaded(r)
    \/ Activate(r) \/ SetActive(r) \/ StoreActive(r)
    \/ Deactivate(r) \/ SetInactive(r) \/ StoreInactive(r)
    \/ Uninstall(r) \/ TriggerRebuild(r) \/ Rebuilt(r)

RebuildStep == TakeExtensions \/ RegisterExtension \/ FinishRebuild

Next ==
    \/ \E p \in PluginIds : CreatePlugin(p) \/ \E r \in Requests : Mutation(r, p)
    \/ \E r \in Requests : Step(r)
    \/ RebuildStep \/ Start \/ Exit

Spec == Init /\ [][Next]_vars

------------------------------------------------------------------------------
(* Properties                                                              *)

\* The type of the rows, of the process's memory and of the history
TypeOK ==
    /\ row \in [PluginIds -> Row \cup {None}]
    /\ files \subseteq PluginIds /\ tables \subseteq PluginIds
    /\ up \in BOOLEAN
    /\ loaded \in [PluginIds -> Status \cup {None}]
    /\ registry \in Seq(Entry) /\ rebuild \in Rebuild
    /\ builder \subseteq Entry /\ offered \subseteq Entry
    /\ reqs \in [Requests -> Request \cup {None}]
    /\ missed \in BOOLEAN
    /\ excused \subseteq PluginIds /\ overlapped \subseteq PluginIds
    /\ incomplete \subseteq PluginIds
    /\ begun \in Nat /\ faults \in Nat

\* When nothing is in flight and the last rebuild refused nobody, the schema
\* offers the fields of all active plugins: however the requests interleaved,
\* an activation that missed the rebuild in flight was followed by another one.
\* Nothing is said of the fields of other plugins, which no rebuild removes.
SchemaCurrent ==
    Quiet /\ ~missed =>
        \A p \in PluginIds \ excused : Active(p) => Of(p) \subseteq offered

\* While the process runs and nobody works on a plugin, its row and the manager's
\* memory agree on whether it is active, whatever requests about other plugins
\* do and wherever requests were cut off before the process started, unless
\* since then two requests about it overlapped, one failed, an update gave or
\* took its plugin id (its row may be gone by then), or it is activated without
\* being installed.
Agreement ==
    up => \A p \in PluginIds \ (excused \cup overlapped) :
              Working(p) = {} =>
                  (Active(p) <=> row[p] # None /\ row[p].activated)

\* The registry holds each extension of a loaded plugin once and nothing of a
\* plugin that is not loaded, under the same conditions.
RegistryExact ==
    \A p \in PluginIds \ (excused \cup overlapped) :
        Working(p) = {} =>
            \A e \in Of(p) :
                Cardinality({i \in DOMAIN registry : registry[i] = e})
                    = IF loaded[p] = None THEN 0 ELSE 1

\* An installed plugin has its tables, also after restarts and however requests
\* about it overlapped, failed elsewhere or changed its row, unless its
\* installation or deletion failed or was cut off, an update wrote installed
\* into its row or moved it to this plugin id, or a deletion of another row
\* took the tables, since the last installation that worked.
InstalledHasTables ==
    \A p \in PluginIds \ incomplete :
        Working(p) = {} /\ row[p] # None /\ row[p].installed => p \in tables
=============================================================================
