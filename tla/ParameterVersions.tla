--------------------------- MODULE ParameterVersions ---------------------------
(***************************************************************************)
(* The versions of calibration parameters and their lineage: tasks that    *)
(* record what they measured (ProvenanceRecorder.record_from_task) and     *)
(* manual updates write the collections parameter_versions,                *)
(* provenance_relations and activities concurrently.  A call is one such   *)
(* recording; a parameter is a (parameter_name, qid) of one project.  One  *)
(* step is one round trip to MongoDB.                                      *)
(***************************************************************************)
EXTENDS Integers

CONSTANTS
  Call, Param,
  Inputs, Outputs,  \* parameters a call's task read and measured
  NoVersion,        \* find_one without a result
  NoParam,          \* no output is being written
  Mortal            \* calls whose process may die

ASSUME VersionConstants ==
  /\ Inputs \in [Call -> SUBSET Param]
  /\ Outputs \in [Call -> SUBSET Param]
  /\ NoParam \notin Param

Version == [param : Param, number : Nat \ {0}, by : Call]

ASSUME NoVersionAssumption == NoVersion \notin Version

VARIABLES
  versions,         \* parameter_versions
  current,          \* those of them with valid_until = null
  activities,       \* calls with an activity document
  used, generated, derived,  \* relation documents, source to target
  pc,               \* a call's next round trip
  reads, writes,    \* inputs and outputs its loops have still to visit
  entities,         \* input_entity_ids, the versions it found current
  param,            \* the output it is writing
  found,            \* the current version it has to invalidate
  next,             \* next_version
  entity,           \* the version it created
  links,            \* inputs this version has still to be derived from
  dead,             \* calls whose process was lost
  raced             \* history: parameters two calls wrote at the same time

store == <<versions, current, activities, used, generated, derived>>
vars == <<store, pc, reads, writes, entities, param, found, next, entity, links,
          dead, raced>>

PC == {"activity", "inputs", "outputs", "retire", "latest", "insert", "generate",
       "derive", "done", "lost"}

TypeOK ==
  /\ versions \subseteq Version /\ current \subseteq versions
  /\ activities \subseteq Call
  /\ used \subseteq Call \X versions
  /\ generated \subseteq versions \X Call
  /\ derived \subseteq versions \X versions
  /\ pc \in [Call -> PC]
  /\ reads \in [Call -> SUBSET Param] /\ writes \in [Call -> SUBSET Param]
  /\ entities \in [Call -> SUBSET versions]
  /\ param \in [Call -> Param \cup {NoParam}]
  /\ found \in [Call -> versions \cup {NoVersion}]
  /\ next \in [Call -> Nat]
  /\ entity \in [Call -> versions \cup {NoVersion}]
  /\ links \in [Call -> SUBSET versions]
  /\ dead \subseteq Call /\ raced \subseteq Param

Init ==
  /\ versions = {} /\ current = {} /\ activities = {}
  /\ used = {} /\ generated = {} /\ derived = {}
  /\ pc = [c \in Call |-> "activity"]
  /\ reads = Inputs /\ writes = Outputs
  /\ entities = [c \in Call |-> {}]
  /\ param = [c \in Call |-> NoParam]
  /\ found = [c \in Call |-> NoVersion]
  /\ next = [c \in Call |-> 0]
  /\ entity = [c \in Call |-> NoVersion]
  /\ links = [c \in Call |-> {}]
  /\ dead = {} /\ raced = {}

Of(p) == {v \in versions : v.param = p}

Current(p) == {v \in current : v.param = p}

\* find_one sorted by descending version.
Latest(p) == {v \in Of(p) : \A w \in Of(p) : w.number <= v.number}

\* Between the look-up of the current version and the insert of the next one.
Creating(p) == {c \in Call : pc[c] \in {"retire", "latest", "insert"} /\ param[c] = p}

-----------------------------------------------------------------------------

\* create_activity: only this call writes the document of its task.
CreateActivity(c) ==
  /\ pc[c] = "activity"
  /\ activities' = activities \cup {c}
  /\ pc' = [pc EXCEPT ![c] = "inputs"]
  /\ UNCHANGED <<versions, current, used, generated, derived, reads, writes, entities,
                 param, found, next, entity, links, dead, raced>>

\* Faulty: an input without a current version is recorded like the others.
RecordUsageUnchecked(c) ==
  /\ pc[c] = "inputs"
  /\ \E p \in reads[c] :
       /\ reads' = [reads EXCEPT ![c] = @ \ {p}]
       /\ \E v \in Current(p) \cup {NoVersion} :
            /\ used' = used \cup {<<c, v>>}
            /\ entities' = [entities EXCEPT ![c] = @ \cup {v}]
  /\ UNCHANGED <<versions, current, activities, generated, derived, pc, writes, param,
                 found, next, entity, links, dead, raced>>

\* One turn of the loop over the inputs: the version that is current now (any
\* one, when there are several) is recorded as used; an input without a version
\* is skipped.  The relation's own round trips are this call's alone.
RecordUsage(c) ==
  /\ pc[c] = "inputs"
  /\ \E p \in reads[c] :
       /\ reads' = [reads EXCEPT ![c] = @ \ {p}]
       /\ \/ Current(p) = {} /\ UNCHANGED <<used, entities>>
          \/ \E v \in Current(p) :
               /\ used' = used \cup {<<c, v>>}
               /\ entities' = [entities EXCEPT ![c] = @ \cup {v}]
  /\ UNCHANGED <<versions, current, activities, generated, derived, pc, writes, param,
                 found, next, entity, links, dead, raced>>

\* The loop over the inputs ends.
InputsDone(c) ==
  /\ pc[c] = "inputs" /\ reads[c] = {}
  /\ pc' = [pc EXCEPT ![c] = "outputs"]
  /\ UNCHANGED <<store, reads, writes, entities, param, found, next, entity, links,
                 dead, raced>>

\* The loop over the outputs ends.
OutputsDone(c) ==
  /\ pc[c] = "outputs" /\ writes[c] = {}
  /\ pc' = [pc EXCEPT ![c] = "done"]
  /\ UNCHANGED <<store, reads, writes, entities, param, found, next, entity, links,
                 dead, raced>>

\* create_version for the next output: get_current_version.
FindCurrent(c) ==
  /\ pc[c] = "outputs"
  /\ \E p \in writes[c] :
       /\ param' = [param EXCEPT ![c] = p]
       /\ writes' = [writes EXCEPT ![c] = @ \ {p}]
       /\ raced' = IF Creating(p) \subseteq dead THEN raced ELSE raced \cup {p}
       /\ \/ /\ Current(p) = {}
             /\ pc' = [pc EXCEPT ![c] = "latest"]
             /\ UNCHANGED found
          \/ /\ found' \in {[found EXCEPT ![c] = v] : v \in Current(p)}
             /\ pc' = [pc EXCEPT ![c] = "retire"]
  /\ UNCHANGED <<store, reads, entities, next, entity, links, dead>>

\* Faulty: the version found is not the one that is saved; the save is lost.
RetireNothing(c) ==
  /\ pc[c] = "retire"
  /\ pc' = [pc EXCEPT ![c] = "latest"]
  /\ UNCHANGED <<store, reads, writes, entities, param, found, next, entity, links,
                 dead, raced>>

\* invalidate_current: current.save() with valid_until set.
Retire(c) ==
  /\ pc[c] = "retire"
  /\ current' = current \ {found[c]}
  /\ pc' = [pc EXCEPT ![c] = "latest"]
  /\ UNCHANGED <<versions, activities, used, generated, derived, reads, writes,
                 entities, param, found, next, entity, links, dead, raced>>

\* Faulty: the number is one more than that of any version, not of the latest.
ReadAnyLatest(c) ==
  /\ pc[c] = "latest"
  /\ \/ Of(param[c]) = {} /\ next' = [next EXCEPT ![c] = 1]
     \/ next' \in {[next EXCEPT ![c] = v.number + 1] : v \in Of(param[c])}
  /\ pc' = [pc EXCEPT ![c] = "insert"]
  /\ UNCHANGED <<store, reads, writes, entities, param, found, entity, links, dead, raced>>

\* get_next_version.
ReadLatest(c) ==
  /\ pc[c] = "latest"
  /\ \/ Of(param[c]) = {} /\ next' = [next EXCEPT ![c] = 1]
     \/ next' \in {[next EXCEPT ![c] = v.number + 1] : v \in Latest(param[c])}
  /\ pc' = [pc EXCEPT ![c] = "insert"]
  /\ UNCHANGED <<store, reads, writes, entities, param, found, entity, links, dead, raced>>

New(c) == [param |-> param[c], number |-> next[c], by |-> c]

\* Faulty: there is no unique index on (project, parameter, qid, version).
InsertNotUnique(c) ==
  /\ pc[c] = "insert"
  /\ versions' = versions \cup {New(c)}
  /\ current' = current \cup {New(c)}
  /\ entity' = [entity EXCEPT ![c] = New(c)]
  /\ links' = [links EXCEPT ![c] = entities[c]]
  /\ pc' = [pc EXCEPT ![c] = "generate"]
  /\ UNCHANGED <<activities, used, generated, derived, reads, writes, entities, param,
                 found, next, dead, raced>>

\* doc.insert(): the unique index admits one version of a number.
Insert(c) ==
  /\ pc[c] = "insert"
  /\ \A v \in Of(param[c]) : v.number # next[c]
  /\ versions' = versions \cup {New(c)}
  /\ current' = current \cup {New(c)}
  /\ entity' = [entity EXCEPT ![c] = New(c)]
  /\ links' = [links EXCEPT ![c] = entities[c]]
  /\ pc' = [pc EXCEPT ![c] = "generate"]
  /\ UNCHANGED <<activities, used, generated, derived, reads, writes, entities, param,
                 found, next, dead, raced>>

\* DuplicateKeyError: no caller retries.  A task's recorder logs the error, a
\* manual update answers with it; either way the loop over the outputs ends.
Duplicate(c) ==
  /\ pc[c] = "insert"
  /\ \E v \in Of(param[c]) : v.number = next[c]
  /\ pc' = [pc EXCEPT ![c] = "lost"]
  /\ UNCHANGED <<store, reads, writes, entities, param, found, next, entity, links,
                 dead, raced>>

\* The wasGeneratedBy relation.
Generate(c) ==
  /\ pc[c] = "generate"
  /\ generated' = generated \cup {<<entity[c], c>>}
  /\ pc' = [pc EXCEPT ![c] = "derive"]
  /\ UNCHANGED <<versions, current, activities, used, derived, reads, writes, entities,
                 param, found, next, entity, links, dead, raced>>

\* Faulty: the relation points from the input to the output.
DeriveBackward(c) ==
  /\ pc[c] = "derive"
  /\ \E w \in links[c] :
       /\ derived' = derived \cup {<<w, entity[c]>>}
       /\ links' = [links EXCEPT ![c] = @ \ {w}]
  /\ UNCHANGED <<versions, current, activities, used, generated, pc, reads, writes,
                 entities, param, found, next, entity, dead, raced>>

\* A wasDerivedFrom relation to one of the versions this call used.
Derive(c) ==
  /\ pc[c] = "derive"
  /\ \E w \in links[c] :
       /\ derived' = derived \cup {<<entity[c], w>>}
       /\ links' = [links EXCEPT ![c] = @ \ {w}]
  /\ UNCHANGED <<versions, current, activities, used, generated, pc, reads, writes,
                 entities, param, found, next, entity, dead, raced>>

\* The loop over the inputs of this output ends.
NextOutput(c) ==
  /\ pc[c] = "derive" /\ links[c] = {}
  /\ pc' = [pc EXCEPT ![c] = "outputs"]
  /\ UNCHANGED <<store, reads, writes, entities, param, found, next, entity, links,
                 dead, raced>>

\* The process is killed between two round trips.
Die(c) ==
  /\ c \in Mortal \ dead /\ pc[c] \notin {"done", "lost"}
  /\ dead' = dead \cup {c}
  /\ UNCHANGED <<store, pc, reads, writes, entities, param, found, next, entity, links,
                 raced>>

CreateVersion(c) == FindCurrent(c) \/ Retire(c) \/ ReadLatest(c) \/ Insert(c) \/ Duplicate(c)

Record(c) ==
  /\ c \notin dead
  /\ \/ CreateActivity(c) \/ RecordUsage(c) \/ InputsDone(c)
     \/ CreateVersion(c) \/ Generate(c) \/ Derive(c) \/ NextOutput(c) \/ OutputsDone(c)

Next == \E c \in Call : Record(c) \/ Die(c)

Spec == Init /\ [][Next]_vars

-----------------------------------------------------------------------------
(* Properties *)

\* The versions of a parameter are numbered 1, 2, ... without a gap, and no two
\* share a number, however many calls draw the next number at the same time.
Contiguous ==
  /\ \A v, w \in versions : v.param = w.param /\ v.number = w.number => v = w
  /\ \A v \in versions : \A i \in 1..v.number : \E w \in Of(v.param) : w.number = i

\* A parameter loses its current version for no longer than one create_version
\* call lasts: when its latest version is no longer valid, a call that will store
\* the next number is on its way, or died there.  A call that loses the race for
\* a number never leaves a parameter without a current version.
NewestIsCurrent ==
  \A p \in Param : \A v \in Latest(p) \ current :
    \E c \in Creating(p) :
      \/ pc[c] = "latest"
      \/ pc[c] = "insert" /\ next[c] = v.number + 1

\* As long as calls for a parameter come one after the other, whether they end
\* or die, no other version than the latest is valid: history queries (valid
\* until the next version is created) are exact.
SerialIsExact ==
  \A p \in Param \ raced : \A v \in Current(p) : Latest(p) = {v}

\* A stored version is linked to its activity and derived from exactly the
\* versions the activity used, except while its call records it or when the call
\* died doing so; a failed insert never takes the lineage of another version.
LineageComplete ==
  /\ \A v \in versions :
       \/ /\ v.by \in activities /\ <<v, v.by>> \in generated
          /\ {w \in versions : <<v, w>> \in derived}
             = {w \in versions : <<v.by, w>> \in used}
       \/ entity[v.by] = v /\ pc[v.by] \in {"generate", "derive"}
  /\ \A r \in generated : r[1].by = r[2]
=============================================================================
