------------------------------ MODULE NodeLists ------------------------------
(***************************************************************************)
(* Whom a node turns away and whom an entity does not want to see: the     *)
(* denylist with its cache (node/denylist.mjs), written under a mutex, and *)
(* the personal lists (node/personal_block.mjs), read and written without  *)
(* one.  The two share no state.                                           *)
(***************************************************************************)
EXTENDS Naturals, FiniteSets

CONSTANTS
  Entries,       \* denylist entries: [scope, value, group], group "*" for everywhere
  MaxUnsaved, MaxDenyCalls, \* bounds: writes that fail, calls
  Authors,       \* entities that may be hidden
  PersonOf,      \* the subject behind each
  PersonalLists, \* the lists: hidden, muted
  Edits          \* calls of setPersonalHidden and setPersonalMuted

ASSUME EntriesAssumption ==
  /\ \A e \in Entries : /\ e = [scope |-> e.scope, value |-> e.value, group |-> e.group]
                        /\ e.scope = "entity" => e.group = "*"
  /\ {MaxUnsaved, MaxDenyCalls} \subseteq Nat

VARIABLES
  cached,   \* the index is in memory
  blocked, keys, \* it: the entries, and what is looked up
  denyFile, \* the entries on disk
  denyCalls, unsaved, \* calls so far, and writes that failed
  denied,   \* history: entries whose addition was confirmed, and that were not removed since
  listFile, \* each personal list on disk: entities and subjects
  edit,     \* each call: what it does, and what it has read
  hidden, shown, \* history: per list, who was confirmed hidden or shown again and not undone
  crossed   \* history: the lists that two calls wrote at once

denyVars == <<cached, blocked, keys, denyFile, denyCalls, unsaved, denied>>
personalVars == <<listFile, edit, hidden, shown, crossed>>

InitDeny ==
  /\ cached = FALSE /\ blocked = {} /\ keys = {} /\ denyFile = {}
  /\ denyCalls = 0 /\ unsaved = 0 /\ denied = {}

NoEdit == [st |-> "none"]

InitPersonal ==
  /\ listFile = [n \in PersonalLists |-> {}] /\ edit = [o \in Edits |-> NoEdit]
  /\ hidden = [n \in PersonalLists |-> {}] /\ shown = [n \in PersonalLists |-> {}] /\ crossed = {}

-----------------------------------------------------------------------------
(* The denylist. *)

\* getDenylistIndex: what is blocked, read from disk the first time.
Index == IF cached THEN blocked ELSE denyFile
Keys == IF cached THEN keys ELSE denyFile

\* saveDenylist(list): the file, then the index.
saveDenylist(list) ==
  /\ denyFile' = list /\ blocked' = list /\ keys' = list
  /\ UNCHANGED unsaved

\* The write throws; what the caller changed in the list of the index stays changed.
SaveFails(list) ==
  /\ unsaved < MaxUnsaved /\ unsaved' = unsaved + 1
  /\ blocked' = list /\ keys' = Keys
  /\ UNCHANGED denyFile

addDenylistEntry(e) ==
  /\ denyCalls < MaxDenyCalls /\ denyCalls' = denyCalls + 1
  /\ cached' = TRUE
  /\ \/ /\ e \in Index
        /\ blocked' = Index /\ keys' = Keys /\ denied' = denied \cup {e}
        /\ UNCHANGED <<denyFile, unsaved>>
     \/ /\ e \notin Index
        /\ \/ saveDenylist(Index \cup {e}) /\ denied' = denied \cup {e}
           \/ SaveFails(Index \cup {e}) /\ UNCHANGED denied

\* Mutant of Removes: the group does not count.
RemovesInAllGroups(e, entry) == entry.scope = e.scope /\ entry.value = e.value

\* The entries that a removal of e takes away: entities have no group.
Removes(e, entry) ==
  entry.scope = e.scope /\ entry.value = e.value /\ (e.scope = "entity" \/ entry.group = e.group)

\* The list is filtered into a new one, so a write that fails changes nothing.
removeGroupBlockedPeer(e) ==
  /\ denyCalls < MaxDenyCalls /\ denyCalls' = denyCalls + 1
  /\ cached' = TRUE
  /\ \/ saveDenylist({entry \in Index : ~Removes(e, entry)})
     \/ SaveFails(Index)
  /\ denied' = denied \ {e}

DenyRestart ==
  /\ cached
  /\ cached' = FALSE /\ blocked' = {} /\ keys' = {}
  /\ UNCHANGED <<denyFile, denyCalls, unsaved, denied>>

\* isSubjectBlocked, in a group or, with "*", outside of all.
isSubjectBlocked(scope, value, group) ==
  \E g \in {"*", group} : [scope |-> scope, value |-> value, group |-> g] \in Keys

NextDeny == DenyRestart \/ \E e \in Entries : addDenylistEntry(e) \/ removeGroupBlockedPeer(e)

SpecDeny == InitDeny /\ [][NextDeny]_denyVars

-----------------------------------------------------------------------------
(* The personal lists. *)

\* entriesForTargetEntityHash: the entity, and the subject behind it.
EntriesFor(a) == {<<"entity", a>>, <<"subject", PersonOf[a]>>}

\* setPersonalHidden, setPersonalMuted up to the read.
setPersonal(o, n, a, hide) ==
  /\ edit[o] = NoEdit
  /\ edit' = [edit EXCEPT ![o] = [st |-> "reads", list |-> n, author |-> a, hide |-> hide]]
  /\ crossed' = crossed \cup
       (IF \E q \in Edits : edit[q].st \in {"reads", "writes"} /\ edit[q].list = n THEN {n} ELSE {})
  /\ UNCHANGED <<listFile, hidden, shown>>

\* Mutant of NewList: showing one entity of a person shows them all.
NewListByPerson(list, a, hide) ==
  IF hide THEN list \cup EntriesFor(a)
  ELSE list \ ({<<"subject", PersonOf[a]>>} \cup {<<"entity", b>> : b \in {c \in Authors : PersonOf[c] = PersonOf[a]}})

\* What the list becomes.
NewList(list, a, hide) == IF hide THEN list \cup EntriesFor(a) ELSE list \ EntriesFor(a)

ListRead(o) ==
  /\ edit[o].st = "reads"
  /\ edit' = [edit EXCEPT ![o] = [st |-> "writes", list |-> @.list, author |-> @.author, hide |-> @.hide,
                                  next |-> NewList(listFile[@.list], @.author, @.hide)]]
  /\ UNCHANGED <<listFile, hidden, shown, crossed>>

SamePerson(a) == {b \in Authors : PersonOf[b] = PersonOf[a]}

ListWritten(o) ==
  /\ edit[o].st = "writes"
  /\ LET n == edit[o].list a == edit[o].author IN
     /\ listFile' = [listFile EXCEPT ![n] = edit[o].next]
     /\ hidden' = [hidden EXCEPT ![n] = IF edit[o].hide THEN @ \cup {a} ELSE @ \ {a}]
     /\ shown' = [shown EXCEPT ![n] = IF edit[o].hide THEN @ \ SamePerson(a) ELSE @ \cup {a}]
  /\ edit' = [edit EXCEPT ![o] = NoEdit]
  /\ UNCHANGED crossed

\* The read or the write fails, or the process dies before the new file is in place.
EditFails(o) ==
  /\ edit[o].st \in {"reads", "writes"}
  /\ edit' = [edit EXCEPT ![o] = NoEdit]
  /\ UNCHANGED <<listFile, hidden, shown, crossed>>

\* isAuthorFilteredByPersonalSets: by one list at least.
FilteredBy(n, a) == EntriesFor(a) \cap listFile[n] # {}

NextPersonal ==
  \E o \in Edits : \/ ListRead(o) \/ ListWritten(o) \/ EditFails(o)
                   \/ \E n \in PersonalLists, a \in Authors, hide \in BOOLEAN : setPersonal(o, n, a, hide)

SpecPersonal == InitPersonal /\ [][NextPersonal]_personalVars

-----------------------------------------------------------------------------
(* Properties. *)

DenyTypeOK ==
  /\ cached \in BOOLEAN /\ {blocked, keys, denyFile, denied} \subseteq SUBSET Entries
  /\ denyCalls \in 0..MaxDenyCalls /\ unsaved \in 0..MaxUnsaved

PersonalTypeOK ==
  /\ listFile \in [PersonalLists -> SUBSET UNION {EntriesFor(a) : a \in Authors}]
  /\ {hidden, shown} \subseteq [PersonalLists -> SUBSET Authors] /\ crossed \subseteq PersonalLists

\* What is looked up is what is on disk, so a restart changes nothing; and as long as every
\* write went well, whoever was confirmed denied is turned away until removed in the same
\* scope and group, also in groups if denied everywhere (denylist.mjs:62-156, 197-270).
DenyHolds ==
  /\ Keys = denyFile
  /\ unsaved = 0 => \A e \in denied : isSubjectBlocked(e.scope, e.value, e.group)

\* Whoever was confirmed hidden is filtered, and whoever was shown again is not until another
\* entity of the same person is hidden, if no two calls wrote the list at once
\* (personal_block.mjs:22-150, 242-253).
PersonalListsHold ==
  \A n \in PersonalLists \ crossed :
    /\ \A a \in hidden[n] : FilteredBy(n, a)
    /\ \A a \in shown[n] : ~FilteredBy(n, a)
=============================================================================
