----------------------------- MODULE VaultKeys -----------------------------
(***************************************************************************)
(* The secret keys of ONE company collection of ZioVault: the server's     *)
(* transactions (vaultService.js, vaultStore.js) and the browser tabs that  *)
(* make, wrap and open the keys (vaultCompany.js, vaultOperations.js,       *)
(* vaultSession.js).                                                       *)
(*                                                                         *)
(* The collection has a secret key, a new one with every re-key; an item   *)
(* has a secret key wrapped under the collection's, and an attachment's     *)
(* file key is wrapped under the item's.  A wrapper is modelled as the      *)
(* version of the key that is needed to open it, whatever label the server  *)
(* puts on the row; 0 is no wrapper.  The details keys (titles) follow the  *)
(* secret keys in every operation and are left out; so is the advisory      *)
(* rotation_required of an item, which guards nothing, and rotateItem,       *)
(* which no browser calls.  Any membership may have a date on which it       *)
(* ends; shares are ended by a revocation only.                            *)
(*                                                                         *)
(* A tab takes the collection's key from its last reload and an item's key  *)
(* from the moment it opened the item, and sends what it wrapped later: in  *)
(* between anything may be committed.                                      *)
(***************************************************************************)
EXTENDS Naturals, FiniteSets

CONSTANTS
  Staff,      \* active people with a vault, one tab each
  Entries,      \* item uids
  Files,      \* attachment uids
  None,       \* no task, no item
  MaxKey,     \* bound: versions of the collection key
  MaxVersion  \* bound: versions of an item

ASSUME StaffIsFinite == IsFiniteSet(Staff)
ASSUME NoneIsNoItem == None \notin Entries
ASSUME MaxKeyType == MaxKey \in Nat \ {0}
ASSUME MaxVersionType == MaxVersion \in Nat \ {0}

VARIABLES
  collKey,     \* zv_collections.key_version
  rekeyAsked,  \* zv_collections.rotation_required
  level,       \* zv_collection_members: what each person may do
  lapsed,      \* members whose expires_at has passed
  sealed,      \* wrapped_secret_key of each member
  item,        \* zv_items with its wrapper in zv_item_keys
  file,        \* zv_attachments
  box,         \* secret wrappers of active item shares (zv_grants)
  held,        \* the collection key each tab keeps in memory
  task,        \* what each tab has under way
  knows,       \* history: the newest keys each person was given as a member
  edits,       \* history: accepted changes of each item's content
  crossed      \* history: wrappers made with a key older than the present one

rows == <<collKey, rekeyAsked, level, lapsed, sealed, item, file, box>>
vaultVars == <<rows, held, task, knows, edits, crossed>>

Levels == {"none", "view", "edit", "manager"}
Reveals == {"edit", "manager"}

\* The rows, whatever the clock says: a re-key seals the new keys for all of them.
Members == {u \in Staff : level[u] # "none"}
Holders == {u \in Staff : level[u] \in Reveals}

\* What every request asks: an expired membership gives nothing.
Entitled(u) == level[u] # "none" /\ u \notin lapsed
MayReveal(u) == level[u] \in Reveals /\ u \notin lapsed
Manages(u) == level[u] = "manager" /\ u \notin lapsed
KeyManagers == {u \in Staff : Manages(u)}
Live == {i \in Entries : item[i].life = "live"}
FilesOf(i) == {f \in Files : file[f].item = i}
RecipientsOf(i) == {u \in Staff : box[i][u] # 0}

\* A member's browser opens an item only if the member's envelope holds the
\* present key and the item's key is wrapped under it.
CanOpen(u, i) ==
  /\ i \in Live /\ MayReveal(u)
  /\ sealed[u] = collKey /\ item[i].under = collKey

\* Or somebody opens it with the keys of a share.
OpensShared(u, i) == i \in Live /\ box[i][u] # 0 /\ box[i][u] = item[i].key

\* The right to edit comes from a membership or from a share.
MayEdit(u, i) == i \in Live /\ (MayReveal(u) \/ box[i][u] # 0)

\* What can be under a key that is not the present one.
Wrappers ==
  [kind : {"member"}, user : Staff] \cup [kind : {"item"}, item : Entries]
    \cup [kind : {"file"}, file : Files]
    \cup [kind : {"share"}, item : Entries, user : Staff]
MemberW(u) == [kind |-> "member", user |-> u]
ItemW(i) == [kind |-> "item", item |-> i]
FileW(f) == [kind |-> "file", file |-> f]
ShareW(i, u) == [kind |-> "share", item |-> i, user |-> u]

\* `w` has just been made with key k: is it behind the key n that counts?
Noted(w, k, n) == IF k = n THEN crossed \ {w} ELSE crossed \cup {w}

Keys == 0..MaxKey
Versions == 0..MaxVersion
ItemRows == [life : {"absent", "live", "deleted"}, version : Versions,
             key : Versions, under : Keys, content : Versions]
AbsentItem ==
  [life |-> "absent", version |-> 0, key |-> 0, under |-> 0, content |-> 0]
AbsentFile == [item |-> None, under |-> 0]

\* What a re-key has read of one item.
Readings == [version : Versions, key : Versions, content : Versions,
             shares : SUBSET Staff, files : SUBSET Files]

Tasks ==
  [op : {"edit"}, item : Entries, version : Versions, content : Versions]
    \cup [op : {"upload"}, item : Entries, key : Versions]
    \cup [op : {"share"}, item : Entries, to : Staff, key : Versions]
    \cup [op : {"update"}, to : Staff, level : Levels, dated : BOOLEAN, secret : Keys,
          lost : BOOLEAN]
    \cup [op : {"rekey"}, key : Keys, members : SUBSET Staff,
          holders : SUBSET Staff, read : UNION {[S -> Readings] : S \in SUBSET Entries}]

Rests(u) == task[u] = None
Begins(u, t) == task' = [task EXCEPT ![u] = t]
Ends(u) == task' = [task EXCEPT ![u] = None]

\* getMember takes the row FOR UPDATE: until updateMember's transaction is over,
\* whoever else writes that member waits.
RowIsLocked(t) == \E u \in Staff : ~Rests(u) /\ task[u].op = "update" /\ task[u].to = t

\* What a member's tab could have opened is what the member knows.
Learns ==
  knows' = [u \in Staff |->
    [coll |-> IF Entitled(u)' /\ sealed'[u] > knows[u].coll THEN sealed'[u] ELSE knows[u].coll,
     item |-> [i \in Entries |-> IF CanOpen(u, i)' THEN item'[i].key ELSE knows[u].item[i]]]]

\* createCollection, by an administrator who becomes its only manager.
VaultInit ==
  \E m \in Staff :
    /\ collKey = 1 /\ rekeyAsked = FALSE
    /\ level = [u \in Staff |-> IF u = m THEN "manager" ELSE "none"]
    /\ lapsed = {}
    /\ sealed = [u \in Staff |-> IF u = m THEN 1 ELSE 0]
    /\ item = [i \in Entries |-> AbsentItem]
    /\ file = [f \in Files |-> AbsentFile]
    /\ box = [i \in Entries |-> [u \in Staff |-> 0]]
    /\ held = sealed
    /\ task = [u \in Staff |-> None]
    /\ knows = [u \in Staff |-> [coll |-> sealed[u], item |-> [i \in Entries |-> 0]]]
    /\ edits = [i \in Entries |-> 0]
    /\ crossed = {}

-----------------------------------------------------------------------------
(* The tab's memory of the collection keys.                                *)

\* loadCollections: a collection that does not open keeps the old entry, and a
\* member without the right to reveal gets no secret key.
Reload(u) ==
  /\ Entitled(u)
  /\ held' = [held EXCEPT ![u] =
       IF level[u] = "view" THEN 0
       ELSE IF sealed[u] = collKey THEN collKey ELSE @]
  /\ UNCHANGED <<rows, task, edits, crossed>>

\* The server refuses what a tab sends, or the tab is closed or gives up.
GivesUp(u) ==
  /\ ~Rests(u) /\ Ends(u)
  /\ UNCHANGED <<rows, held, edits, crossed>>

-----------------------------------------------------------------------------
(* Members.                                                                *)

\* Sealed with the key in the tab's memory.
AddMember(u, t, new) ==
  /\ Manages(u) /\ level[t] = "none" /\ new # "none"
  /\ new \in Reveals => held[u] # 0
  /\ LET key == IF new \in Reveals THEN held[u] ELSE 0 IN
       /\ sealed' = [sealed EXCEPT ![t] = key]
       /\ crossed' = Noted(MemberW(t), key, IF new \in Reveals THEN collKey ELSE 0)
  /\ level' = [level EXCEPT ![t] = new]
  /\ UNCHANGED <<collKey, rekeyAsked, lapsed, item, file, box, held, task, edits>>

\* The reads of updateMember's transaction, the last-manager check among them.
\* The envelope it will write is the one it has read, unless the change gives
\* or takes the right to reveal.  `dated` is a new date, or none any more; an expired
\* membership may get one and lives on.
UpdateMemberReads(u, t, new, dated) ==
  /\ Rests(u) /\ Manages(u) /\ level[t] # "none" /\ new # "none"
  /\ ~RowIsLocked(t)
  /\ level[t] = "manager" /\ new # "manager" => Cardinality(KeyManagers) > 1
  /\ new \in Reveals /\ level[t] \notin Reveals => held[u] # 0
  /\ Begins(u,
       [op |-> "update", to |-> t, level |-> new, dated |-> dated,
        secret |-> IF new \notin Reveals THEN 0
                   ELSE IF level[t] \in Reveals THEN sealed[t] ELSE held[u],
        lost |-> new \notin Reveals /\ level[t] \in Reveals])
  /\ UNCHANGED <<rows, held, edits, crossed>>

\* Its UPDATE and COMMIT.
UpdateMemberWrites(u) ==
  /\ ~Rests(u) /\ task[u].op = "update"
  /\ LET t == task[u].to  new == task[u].level  key == task[u].secret IN
       /\ level' = [level EXCEPT ![t] = new]
       /\ lapsed' = IF task[u].dated THEN lapsed \ {t} ELSE lapsed
       /\ sealed' = [sealed EXCEPT ![t] = key]
       /\ crossed' = Noted(MemberW(t), key, IF new \in Reveals THEN collKey ELSE 0)
  /\ rekeyAsked' = (rekeyAsked \/ task[u].lost)
  /\ Ends(u)
  /\ UNCHANGED <<collKey, item, file, box, held, edits>>

\* expires_at passes: every request refuses the member from now on, and nothing
\* else happens.
Lapses(t) ==
  /\ Entitled(t)
  /\ lapsed' = lapsed \cup {t}
  /\ UNCHANGED <<collKey, rekeyAsked, level, sealed, item, file, box, held, task, edits, crossed>>

\* A bug: those who leave by themselves are trusted to forget the key.
GoneQuietly(S) ==
  /\ \A t \in S : level[t] # "none" /\ ~RowIsLocked(t)
  /\ level' = [u \in Staff |-> IF u \in S THEN "none" ELSE level[u]]
  /\ lapsed' = lapsed \ S
  /\ sealed' = [u \in Staff |-> IF u \in S THEN 0 ELSE sealed[u]]
  /\ rekeyAsked' = (rekeyAsked \/ S \cap lapsed = {})
  /\ crossed' = crossed \ {MemberW(t) : t \in S}
  /\ UNCHANGED <<collKey, item, file, held, task, edits>>

\* zv_remove_collection_members.
Gone(S) ==
  /\ \A t \in S : level[t] # "none" /\ ~RowIsLocked(t)
  /\ level' = [u \in Staff |-> IF u \in S THEN "none" ELSE level[u]]
  /\ lapsed' = lapsed \ S
  /\ sealed' = [u \in Staff |-> IF u \in S THEN 0 ELSE sealed[u]]
  /\ rekeyAsked' = TRUE
  /\ crossed' = crossed \ {MemberW(t) : t \in S}
  /\ UNCHANGED <<collKey, item, file, held, task, edits>>

\* A manager removes somebody, or a member leaves; under the collection's lock.
RemoveMember(u, t) ==
  /\ IF u = t THEN Entitled(u) ELSE Manages(u)
  /\ level[t] = "manager" => Cardinality(KeyManagers) > 1
  /\ Gone({t})
  /\ UNCHANGED box

\* sweepExpired, once an hour: all expired memberships.
SweepExpired ==
  /\ lapsed # {} /\ Gone(lapsed)
  /\ UNCHANGED box

\* The account is deactivated: the trigger removes the membership and revokes the
\* shares without asking for another manager.
Offboard(t) ==
  /\ Gone({t})
  /\ box' = [i \in Entries |-> [box[i] EXCEPT ![t] = 0]]

\* revokeCompanyAccess, by an administrator: the same behind SOLE_MANAGER, which
\* counts expired managers too.
RevokeCompanyAccess(u, t) ==
  /\ u # t
  /\ level[t] = "manager" => \E v \in Staff \ {t} : level[v] = "manager"
  /\ Offboard(t)

-----------------------------------------------------------------------------
(* Items, attachments and shares.                                          *)

\* Wrapped under the key in the tab's memory.
CreateCompanyItem(u, i) ==
  /\ MayReveal(u) /\ held[u] # 0 /\ item[i].life = "absent"
  /\ item' = [item EXCEPT ![i] =
       [life |-> "live", version |-> 1, key |-> 1, under |-> held[u], content |-> 0]]
  /\ crossed' = Noted(ItemW(i), held[u], collKey)
  /\ UNCHANGED <<collKey, rekeyAsked, level, lapsed, sealed, file, box, held, task, edits>>

\* loadForEditing; content is what the person sees and changes.
OpenForEditing(u, i) ==
  /\ Rests(u) /\ (CanOpen(u, i) \/ OpensShared(u, i))
  /\ Begins(u, [op |-> "edit", item |-> i, version |-> item[i].version,
                content |-> item[i].content])
  /\ UNCHANGED <<rows, held, edits, crossed>>

\* updateItem: the version must still be the one that was opened.
UpdateItem(u) ==
  /\ ~Rests(u) /\ task[u].op = "edit"
  /\ LET i == task[u].item IN
       /\ MayEdit(u, i)
       /\ item[i].version = task[u].version /\ item[i].version < MaxVersion
       /\ item' = [item EXCEPT ![i].version = @ + 1,
                               ![i].content = task[u].content + 1]
       /\ edits' = [edits EXCEPT ![i] = @ + 1]
  /\ Ends(u)
  /\ UNCHANGED <<collKey, rekeyAsked, level, lapsed, sealed, file, box, held, crossed>>

\* "I changed this password": a new version of the row, the same keys.
CompleteRotation(u, i) ==
  /\ MayEdit(u, i) /\ item[i].version < MaxVersion
  /\ item' = [item EXCEPT ![i].version = @ + 1]
  /\ UNCHANGED <<collKey, rekeyAsked, level, lapsed, sealed, file, box, held, task, edits, crossed>>

DeleteItem(u, i) ==
  /\ Manages(u) /\ i \in Live
  /\ item' = [item EXCEPT ![i].life = "deleted"]
  /\ UNCHANGED <<collKey, rekeyAsked, level, lapsed, sealed, file, box, held, task, edits, crossed>>

\* What was deleted while the collection was re-keyed comes back as it was.
RestoreItem(u, i) ==
  /\ Manages(u) /\ item[i].life = "deleted"
  /\ item' = [item EXCEPT ![i].life = "live"]
  /\ crossed' = Noted(ItemW(i), item[i].under, collKey)
  /\ UNCHANGED <<collKey, rekeyAsked, level, lapsed, sealed, file, box, held, task, edits>>

\* uploadAttachment: the item's key is opened, the file encrypted and sent.
OpenForUpload(u, i) ==
  /\ Rests(u) /\ (CanOpen(u, i) \/ OpensShared(u, i))
  /\ Begins(u, [op |-> "upload", item |-> i, key |-> item[i].key])
  /\ UNCHANGED <<rows, held, edits, crossed>>

AddAttachment(u, f) ==
  /\ ~Rests(u) /\ task[u].op = "upload" /\ file[f] = AbsentFile
  /\ MayEdit(u, task[u].item)
  /\ file' = [file EXCEPT ![f] = [item |-> task[u].item, under |-> task[u].key]]
  /\ crossed' = Noted(FileW(f), task[u].key, item[task[u].item].key)
  /\ Ends(u)
  /\ UNCHANGED <<collKey, rekeyAsked, level, lapsed, sealed, item, box, held, edits>>

DeleteAttachment(u, f) ==
  /\ file[f].item # None /\ MayEdit(u, file[f].item)
  /\ file' = [file EXCEPT ![f] = AbsentFile]
  /\ crossed' = crossed \ {FileW(f)}
  /\ UNCHANGED <<collKey, rekeyAsked, level, lapsed, sealed, item, box, held, task, edits>>

\* shareItem, and updateGrant when it gives the right to reveal: the item's key
\* is opened, boxed for the recipient and sent.
OpenForShare(u, i, t) ==
  /\ Rests(u) /\ Manages(u) /\ t # u /\ CanOpen(u, i)
  /\ Begins(u, [op |-> "share", item |-> i, to |-> t, key |-> item[i].key])
  /\ UNCHANGED <<rows, held, edits, crossed>>

CreateGrant(u) ==
  /\ ~Rests(u) /\ task[u].op = "share"
  /\ LET i == task[u].item  t == task[u].to IN
       /\ i \in Live /\ Manages(u) /\ box[i][t] = 0
       /\ box' = [box EXCEPT ![i][t] = task[u].key]
       /\ crossed' = Noted(ShareW(i, t), task[u].key, item[i].key)
  /\ Ends(u)
  /\ UNCHANGED <<collKey, rekeyAsked, level, lapsed, sealed, item, file, held, edits>>

RevokeGrant(u, i, t) ==
  /\ Manages(u) /\ i \in Live /\ box[i][t] # 0
  /\ box' = [box EXCEPT ![i][t] = 0]
  /\ crossed' = crossed \ {ShareW(i, t)}
  /\ UNCHANGED <<collKey, rekeyAsked, level, lapsed, sealed, item, file, held, task, edits>>

-----------------------------------------------------------------------------
(* Re-keying.                                                              *)

\* getCollection: the key version and the members the new keys are sealed for.
RekeyStart(u) ==
  /\ Rests(u) /\ Manages(u) /\ held[u] # 0 /\ collKey < MaxKey
  /\ Begins(u, [op |-> "rekey", key |-> collKey, members |-> Members,
                holders |-> Holders, read |-> [i \in {} |-> None]])
  /\ UNCHANGED <<rows, held, edits, crossed>>

\* One item is opened, checked and encrypted again; a file or an item that does
\* not open stops the re-key.
RekeyReads(u, i) ==
  /\ ~Rests(u) /\ task[u].op = "rekey" /\ i \notin DOMAIN task[u].read
  /\ CanOpen(u, i) /\ item[i].key < MaxVersion
  /\ \A f \in FilesOf(i) : file[f].under = item[i].key
  /\ Begins(u, [task[u] EXCEPT !.read =
       [j \in DOMAIN @ \cup {i} |->
          IF j # i THEN @[j]
          ELSE [version |-> item[i].version, key |-> item[i].key,
                content |-> item[i].content,
                shares |-> RecipientsOf(i), files |-> FilesOf(i)]]])
  /\ UNCHANGED <<rows, held, edits, crossed>>

\* Bugs: a re-key that forgets a part of its comparisons.
AttachmentsKnown(t) == \A i \in DOMAIN t.read : t.read[i].files \subseteq FilesOf(i)
OnlyKeysMatch(t) == \A i \in DOMAIN t.read : t.read[i].key = item[i].key

\* What rotateCollection and applyItemRotation compare with the rows.
MembersMatch(t) == t.members = Members /\ t.holders = Holders
ItemsMatch(t) == DOMAIN t.read = Live
RecipientsMatch(t) == \A i \in DOMAIN t.read : t.read[i].shares = RecipientsOf(i)
AttachmentsMatch(t) == \A i \in DOMAIN t.read : t.read[i].files = FilesOf(i)
VersionsMatch(t) ==
  \A i \in DOMAIN t.read :
    t.read[i].version = item[i].version /\ t.read[i].key = item[i].key

\* One transaction under the collection's lock: all of it or none of it.
RekeyCommit(u) ==
  /\ ~Rests(u) /\ task[u].op = "rekey" /\ Manages(u)
  /\ task[u].key = collKey /\ \A t \in Members : ~RowIsLocked(t)
  /\ MembersMatch(task[u]) /\ ItemsMatch(task[u]) /\ RecipientsMatch(task[u])
  /\ AttachmentsMatch(task[u]) /\ VersionsMatch(task[u])
  /\ LET read == task[u].read  keyed == DOMAIN task[u].read IN
       /\ \A i \in keyed : item[i].version < MaxVersion
       /\ item' = [i \in Entries |->
            IF i \notin keyed THEN item[i]
            ELSE [item[i] EXCEPT !.version = @ + 1, !.key = read[i].key + 1,
                                 !.under = collKey + 1, !.content = read[i].content]]
       /\ box' = [i \in Entries |-> [r \in Staff |->
            IF i \in keyed /\ r \in read[i].shares THEN read[i].key + 1 ELSE box[i][r]]]
       /\ file' = [f \in Files |->
            IF \E i \in keyed : f \in read[i].files
            THEN [file[f] EXCEPT !.under = read[file[f].item].key + 1] ELSE file[f]]
  /\ sealed' = [m \in Staff |-> IF m \in task[u].holders THEN collKey + 1 ELSE 0]
  /\ collKey' = collKey + 1
  /\ rekeyAsked' = FALSE
  /\ crossed' = {w \in crossed :
       \/ w.kind = "file" /\ file[w.file].item \notin Live
       \/ w.kind = "share" /\ w.item \notin Live}
  /\ Ends(u)
  /\ UNCHANGED <<level, lapsed, held, edits>>

-----------------------------------------------------------------------------
MemberStep(u) ==
  \/ \E t \in Staff :
       \/ RemoveMember(u, t)
       \/ RevokeCompanyAccess(u, t)
       \/ \E new \in Levels :
            \/ AddMember(u, t, new)
            \/ \E dated \in BOOLEAN : UpdateMemberReads(u, t, new, dated)
  \/ UpdateMemberWrites(u)

ItemStep(u) ==
  \/ \E i \in Entries :
       \/ CreateCompanyItem(u, i) \/ OpenForEditing(u, i) \/ CompleteRotation(u, i)
       \/ DeleteItem(u, i) \/ RestoreItem(u, i) \/ OpenForUpload(u, i)
       \/ \E t \in Staff : OpenForShare(u, i, t) \/ RevokeGrant(u, i, t)
  \/ \E f \in Files : AddAttachment(u, f) \/ DeleteAttachment(u, f)
  \/ UpdateItem(u) \/ CreateGrant(u)

RekeyStep(u) == RekeyStart(u) \/ RekeyCommit(u) \/ \E i \in Entries : RekeyReads(u, i)

VaultAct ==
  \/ SweepExpired
  \/ \E u \in Staff :
       \/ MemberStep(u) \/ ItemStep(u) \/ RekeyStep(u) \/ Reload(u) \/ GivesUp(u)
       \/ Offboard(u) \/ Lapses(u)

VaultNext == VaultAct /\ Learns
VaultSpec == VaultInit /\ [][VaultNext]_vaultVars

-----------------------------------------------------------------------------
\* Every variable has its type; an envelope exists exactly for a right to reveal
\* (ck_zv_members_secret_key_iff_reveal).
VaultTypeOK ==
  /\ collKey \in 1..MaxKey /\ rekeyAsked \in BOOLEAN
  /\ level \in [Staff -> Levels] /\ sealed \in [Staff -> Keys]
  /\ lapsed \subseteq Staff /\ \A u \in lapsed : level[u] # "none"
  /\ \A u \in Staff : sealed[u] # 0 <=> level[u] \in Reveals
  /\ item \in [Entries -> ItemRows]
  /\ file \in [Files -> [item : Entries \cup {None}, under : Versions]]
  /\ box \in [Entries -> [Staff -> Versions]]
  /\ held \in [Staff -> Keys]
  /\ \A u \in Staff : task[u] = None \/ task[u] \in Tasks
  /\ knows \in [Staff -> [coll : Keys, item : [Entries -> Versions]]]
  /\ edits \in [Entries -> Versions]
  /\ crossed \subseteq Wrappers

\* Whatever is in use opens with the present keys, unless it was wrapped with keys
\* that had already been replaced: a re-key leaves no member, item,
\* attachment or recipient behind, however the requests cross (the four
\* MISMATCH checks of rotateCollection and applyItemRotation).
Behind ==
  {MemberW(u) : u \in {v \in Holders : sealed[v] # collKey}}
    \cup {ItemW(i) : i \in {j \in Live : item[j].under # collKey}}
    \cup {FileW(f) : f \in {g \in Files : file[g].item \in Live
                                          /\ file[g].under # item[file[g].item].key}}
    \cup UNION {{ShareW(i, u) : u \in {v \in RecipientsOf(i) : box[i][v] # item[i].key}}
                  : i \in Live}
StrandedOnlyByCrossing == Behind \subseteq crossed

\* An item holds every change that was accepted: no save and no re-encryption
\* puts back what its author had read earlier (expectedVersion).
NothingOverwritten == \A i \in Entries : item[i].content = edits[i]

\* Whoever knows the collection's present key, or the present key of an item its
\* members read, has a row with the right to reveal, or the collection asks to be
\* re-keyed (rotation_required after every removal and loss of reveal).  The row of
\* a membership that has expired counts until the hourly sweep takes it away: until
\* then nobody is told that its owner, who may read nothing any more, knows the key.
OutsidersHoldNoCurrentKey ==
  ~rekeyAsked =>
    \A u \in Staff \ Holders :
      /\ knows[u].coll < collKey
      /\ \A i \in Entries : item[i].under = collKey => knows[u].item[i] # item[i].key
=============================================================================
