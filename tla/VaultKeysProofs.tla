-------------------------- MODULE VaultKeysProofs --------------------------
(***************************************************************************)
(* Theorems about VaultKeys, for any staff, items and files and any number  *)
(* of re-keys: the wrappers in use open, accepted changes stay, and who has  *)
(* lost the right to reveal knows no present key.                          *)
(***************************************************************************)
EXTENDS VaultKeys, FiniteSetTheorems, TLAPS

EditTasks == [op : {"edit"}, item : Entries, version : Versions, content : Versions]
UploadTasks == [op : {"upload"}, item : Entries, key : Versions]
ShareTasks == [op : {"share"}, item : Entries, to : Staff, key : Versions]
UpdateTasks == [op : {"update"}, to : Staff, level : Levels, dated : BOOLEAN, secret : Keys,
                lost : BOOLEAN]
ReadSets == UNION {[S -> Readings] : S \in SUBSET Entries}
RekeyTasks == [op : {"rekey"}, key : Keys, members : SUBSET Staff,
               holders : SUBSET Staff, read : ReadSets]

Does(u, op) == ~Rests(u) /\ task[u].op = op

\* The types, and that a tab is given one task at a time.
Typed == VaultTypeOK /\ task \in [Staff -> Tasks \cup {None}]

LEMMA TaskShapes ==
  ASSUME Typed, NEW u \in Staff, ~Rests(u)
  PROVE  /\ task[u].op = "edit" => task[u] \in EditTasks
         /\ task[u].op = "upload" => task[u] \in UploadTasks
         /\ task[u].op = "share" => task[u] \in ShareTasks
         /\ task[u].op = "update" => task[u] \in UpdateTasks
         /\ task[u].op = "rekey" => task[u] \in RekeyTasks
<1>1. task[u] \in EditTasks \cup UploadTasks \cup ShareTasks \cup UpdateTasks \cup RekeyTasks
  BY DEF Typed, Rests, Tasks, EditTasks, UploadTasks, ShareTasks, UpdateTasks, RekeyTasks,
         ReadSets
<1>2. CASE task[u] \in EditTasks  BY <1>2 DEF EditTasks
<1>3. CASE task[u] \in UploadTasks  BY <1>3 DEF UploadTasks
<1>4. CASE task[u] \in ShareTasks  BY <1>4 DEF ShareTasks
<1>5. CASE task[u] \in UpdateTasks  BY <1>5 DEF UpdateTasks
<1>6. CASE task[u] \in RekeyTasks  BY <1>6 DEF RekeyTasks
<1> QED  BY <1>1, <1>2, <1>3, <1>4, <1>5, <1>6

LEMMA TasksAreTasks ==
  Tasks = EditTasks \cup UploadTasks \cup ShareTasks \cup UpdateTasks \cup RekeyTasks
BY DEF Tasks, EditTasks, UploadTasks, ShareTasks, UpdateTasks, RekeyTasks, ReadSets

\* What one more item adds to the reading of a re-key.
LEMMA ReadingGrows ==
  ASSUME NEW r \in ReadSets, NEW i \in Entries, NEW x \in Readings
  PROVE  [j \in DOMAIN r \cup {i} |-> IF j # i THEN r[j] ELSE x] \in ReadSets
<1>1. PICK S \in SUBSET Entries : r \in [S -> Readings]  BY DEF ReadSets
<1>2. S \cup {i} \in SUBSET Entries  OBVIOUS
<1>3. [j \in DOMAIN r \cup {i} |-> IF j # i THEN r[j] ELSE x] \in [S \cup {i} -> Readings]
  BY <1>1
<1> QED  BY <1>2, <1>3 DEF ReadSets

\* Noting a wrapper leaves the history a set of wrappers.
LEMMA NotedIsTyped ==
  ASSUME Typed, NEW w \in Wrappers, NEW k, NEW n
  PROVE  Noted(w, k, n) \subseteq Wrappers
BY DEF Typed, VaultTypeOK, Noted

LEMMA WrappersAreTyped ==
  /\ \A u \in Staff : MemberW(u) \in Wrappers
  /\ \A i \in Entries : ItemW(i) \in Wrappers
  /\ \A f \in Files : FileW(f) \in Wrappers
  /\ \A i \in Entries, u \in Staff : ShareW(i, u) \in Wrappers
BY DEF Wrappers, MemberW, ItemW, FileW, ShareW

\* What a tab learns in a step.
LEMMA Learning ==
  ASSUME Typed, Learns, sealed' \in [Staff -> Keys], item' \in [Entries -> ItemRows]
  PROVE  /\ knows' \in [Staff -> [coll : Keys, item : [Entries -> Versions]]]
         /\ \A u \in Staff :
              knows'[u].coll = IF Entitled(u)' /\ sealed'[u] > knows[u].coll
                               THEN sealed'[u] ELSE knows[u].coll
         /\ \A u \in Staff, i \in Entries :
              knows'[u].item[i] = IF CanOpen(u, i)' THEN item'[i].key ELSE knows[u].item[i]
<1>1. \A i \in Entries : item'[i].key \in Versions  BY DEF ItemRows
<1>2. \A u \in Staff : sealed'[u] \in Keys  OBVIOUS
<1>3. \A u \in Staff : knows[u] \in [coll : Keys, item : [Entries -> Versions]]
  BY DEF Typed, VaultTypeOK
<1>4. \A u \in Staff, i \in Entries :
        (IF CanOpen(u, i)' THEN item'[i].key ELSE knows[u].item[i]) \in Versions
  BY <1>1, <1>3
<1>5. \A u \in Staff :
        [i \in Entries |-> IF CanOpen(u, i)' THEN item'[i].key ELSE knows[u].item[i]]
          \in [Entries -> Versions]
  BY <1>4
<1>6. \A u \in Staff :
        (IF Entitled(u)' /\ sealed'[u] > knows[u].coll THEN sealed'[u] ELSE knows[u].coll) \in Keys
  BY <1>2, <1>3
<1> QED  BY <1>5, <1>6 DEF Learns

-----------------------------------------------------------------------------
(* The invariant.                                                          *)

\* An item's content is its accepted changes, and counts no further than its version;
\* one that does not exist yet has nothing.
ItemsCount ==
  \A i \in Entries :
    /\ item[i].content = edits[i]
    /\ item[i].content <= item[i].version /\ item[i].key <= item[i].version
    /\ item[i].life = "absent" => item[i] = AbsentItem

\* What a tab has read of an item is its past, and its present if the version
\* has stayed.
IsPast(i, r) ==
  /\ item[i].life # "absent" /\ r.version <= item[i].version
  /\ r.version = item[i].version => r.content = item[i].content
TasksAreOld ==
  \A u \in Staff :
    /\ Does(u, "edit") => IsPast(task[u].item, task[u])
    /\ Does(u, "upload") \/ Does(u, "share") => item[task[u].item].life # "absent"
    /\ Does(u, "rekey") => /\ task[u].key < MaxKey
                           /\ \A i \in DOMAIN task[u].read : IsPast(i, task[u].read[i])

\* Nothing is attached to, or shared of, an item that does not exist.
NothingOfAbsent ==
  /\ \A f \in Files : file[f].item # None => item[file[f].item].life # "absent"
  /\ \A i \in Entries, u \in Staff : box[i][u] # 0 => item[i].life # "absent"

\* A change of a member holds the row: it is the only one, and the member stays what it
\* has read.
UpdatesHold ==
  \A u \in Staff : Does(u, "update") =>
    LET t == task[u] IN
      /\ \A v \in Staff : Does(v, "update") /\ task[v].to = t.to => v = u
      /\ level[t.to] # "none" /\ t.level # "none"
      /\ t.secret # 0 <=> t.level \in Reveals
      /\ t.lost <=> t.level \notin Reveals /\ level[t.to] \in Reveals

LEMMA InitTyped == VaultInit => Typed
<1> SUFFICES ASSUME VaultInit PROVE Typed  OBVIOUS
<1>1. PICK m \in Staff :
        /\ level = [u \in Staff |-> IF u = m THEN "manager" ELSE "none"]
        /\ sealed = [u \in Staff |-> IF u = m THEN 1 ELSE 0]
  BY DEF VaultInit
<1>2. sealed \in [Staff -> Keys] /\ level \in [Staff -> Levels]
  BY <1>1, MaxKeyType DEF Keys, Levels
<1>3. \A u \in Staff : sealed[u] # 0 <=> level[u] \in Reveals  BY <1>1 DEF Reveals
<1>4. [i \in Entries |-> 0] \in [Entries -> Versions]  BY MaxVersionType DEF Versions
<1>5. knows \in [Staff -> [coll : Keys, item : [Entries -> Versions]]]
  BY <1>2, <1>4 DEF VaultInit
<1>6. item \in [Entries -> ItemRows]
  BY MaxVersionType, MaxKeyType DEF VaultInit, AbsentItem, ItemRows, Versions, Keys
<1>7. file \in [Files -> [item : Entries \cup {None}, under : Versions]]
  BY MaxVersionType DEF VaultInit, AbsentFile, Versions
<1>8. box \in [Entries -> [Staff -> Versions]] /\ edits \in [Entries -> Versions]
  BY MaxVersionType DEF VaultInit, Versions
<1>9. collKey \in 1..MaxKey  BY MaxKeyType DEF VaultInit
<1> QED
  BY <1>2, <1>3, <1>5, <1>6, <1>7, <1>8, <1>9 DEF VaultInit, Typed, VaultTypeOK

LEMMA InitItems == VaultInit => ItemsCount /\ TasksAreOld /\ NothingOfAbsent
BY MaxVersionType, NoneIsNoItem
   DEF VaultInit, ItemsCount, TasksAreOld, NothingOfAbsent, AbsentItem, AbsentFile, Does, Rests

-----------------------------------------------------------------------------
(* Types.                                                                  *)

\* What the rows and the tasks are after a step, knows apart.
Rest ==
  /\ collKey \in 1..MaxKey /\ rekeyAsked \in BOOLEAN
  /\ level \in [Staff -> Levels] /\ sealed \in [Staff -> Keys]
  /\ lapsed \subseteq Staff /\ \A u \in lapsed : level[u] # "none"
  /\ \A u \in Staff : sealed[u] # 0 <=> level[u] \in Reveals
  /\ item \in [Entries -> ItemRows]
  /\ file \in [Files -> [item : Entries \cup {None}, under : Versions]]
  /\ box \in [Entries -> [Staff -> Versions]]
  /\ held \in [Staff -> Keys]
  /\ task \in [Staff -> Tasks \cup {None}]
  /\ edits \in [Entries -> Versions]
  /\ crossed \subseteq Wrappers

LEMMA RestIsEnough ==
  ASSUME Typed, Learns, Rest'
  PROVE  Typed'
<1>1. knows' \in [Staff -> [coll : Keys, item : [Entries -> Versions]]]
  BY Learning DEF Rest
<1>2. \A u \in Staff : task'[u] = None \/ task'[u] \in Tasks  BY DEF Rest
<1> QED  BY <1>1, <1>2 DEF Rest, Typed, VaultTypeOK


-----------------------------------------------------------------------------
(* What is nobody's request: the account goes, the date passes, the sweep.   *)

SystemStep(u) == Offboard(u) \/ Lapses(u) \/ SweepExpired

LEMMA SomebodyActs ==
  ASSUME Typed, VaultAct
  PROVE  \E u \in Staff :
           MemberStep(u) \/ ItemStep(u) \/ RekeyStep(u) \/ Reload(u) \/ GivesUp(u) \/ SystemStep(u)
<1>1. CASE SweepExpired
  <2>1. PICK u \in Staff : u \in lapsed  BY <1>1 DEF SweepExpired, Typed, VaultTypeOK
  <2> QED  BY <1>1, <2>1 DEF SystemStep
<1>2. CASE ~SweepExpired  BY <1>2 DEF VaultAct, SystemStep
<1> QED  BY <1>1, <1>2

LEMMA GoneIsTyped ==
  ASSUME Typed, NEW S, Gone(S)
  PROVE  /\ level' \in [Staff -> Levels] /\ sealed' \in [Staff -> Keys]
         /\ lapsed' \subseteq Staff /\ \A u \in lapsed' : level'[u] # "none"
         /\ \A u \in Staff : sealed'[u] # 0 <=> level'[u] \in Reveals
         /\ crossed' \subseteq Wrappers
<1>1. level' \in [Staff -> Levels]  BY DEF Gone, Typed, VaultTypeOK, Levels
<1>2. sealed' \in [Staff -> Keys]  BY MaxKeyType DEF Gone, Typed, VaultTypeOK, Keys
<1>3. \A u \in Staff : sealed'[u] # 0 <=> level'[u] \in Reveals
  BY DEF Gone, Typed, VaultTypeOK, Reveals
<1>4. lapsed' \subseteq Staff /\ \A u \in lapsed' : level'[u] # "none"
  BY DEF Gone, Typed, VaultTypeOK
<1> QED  BY <1>1, <1>2, <1>3, <1>4 DEF Gone, Typed, VaultTypeOK

LEMMA OffboardIsTyped ==
  ASSUME Typed, NEW t \in Staff, Offboard(t)
  PROVE  Rest'
<1>1. box' \in [Entries -> [Staff -> Versions]]
  BY MaxVersionType DEF Offboard, Typed, VaultTypeOK, Versions
<1>2. \E S : Gone(S)  BY DEF Offboard
<1>3. /\ level' \in [Staff -> Levels] /\ sealed' \in [Staff -> Keys]
      /\ lapsed' \subseteq Staff /\ \A u \in lapsed' : level'[u] # "none"
      /\ \A u \in Staff : sealed'[u] # 0 <=> level'[u] \in Reveals
      /\ crossed' \subseteq Wrappers
  BY <1>2, GoneIsTyped
<1>4. rekeyAsked' = TRUE /\ UNCHANGED <<collKey, item, file, held, task, edits>>
  BY DEF Offboard, Gone
<1> QED  BY <1>1, <1>3, <1>4 DEF Rest, Typed, VaultTypeOK

LEMMA SystemIsTyped ==
  ASSUME Typed, NEW u \in Staff, SystemStep(u)
  PROVE  Rest'
<1>1. CASE Lapses(u)
  BY <1>1 DEF Lapses, Entitled, Rest, Typed, VaultTypeOK
<1>2. CASE SweepExpired
  BY <1>2, GoneIsTyped DEF SweepExpired, Gone, Rest, Typed, VaultTypeOK
<1> QED  BY <1>1, <1>2, OffboardIsTyped DEF SystemStep

LEMMA MembersAreTyped ==
  ASSUME Typed, UpdatesHold, NEW u \in Staff, MemberStep(u)
  PROVE  Rest'
<1>1. CASE \E t \in Staff : RemoveMember(u, t)
  <2>1. PICK t \in Staff : RemoveMember(u, t)  BY <1>1
  <2> QED  BY <2>1, GoneIsTyped DEF RemoveMember, Gone, Rest, Typed, VaultTypeOK
<1>2. CASE \E t \in Staff : RevokeCompanyAccess(u, t)
  BY <1>2, OffboardIsTyped DEF RevokeCompanyAccess
<1>3. CASE \E t \in Staff, new \in Levels : AddMember(u, t, new)
  <2>1. PICK t \in Staff, new \in Levels : AddMember(u, t, new)  BY <1>3
  <2>2. level' \in [Staff -> Levels]  BY <2>1 DEF AddMember, Typed, VaultTypeOK
  <2>3. sealed' \in [Staff -> Keys]
    BY <2>1, MaxKeyType DEF AddMember, Typed, VaultTypeOK, Keys
  <2>4. \A v \in Staff : sealed'[v] # 0 <=> level'[v] \in Reveals
    BY <2>1 DEF AddMember, Typed, VaultTypeOK
  <2>5. crossed' \subseteq Wrappers
    BY <2>1, NotedIsTyped, WrappersAreTyped DEF AddMember
  <2>6. \A v \in lapsed : level'[v] # "none"
    BY <2>1 DEF AddMember, Typed, VaultTypeOK
  <2> QED  BY <2>1, <2>2, <2>3, <2>4, <2>5, <2>6 DEF AddMember, Rest, Typed, VaultTypeOK
<1>4. CASE \E t \in Staff, new \in Levels, dated \in BOOLEAN : UpdateMemberReads(u, t, new, dated)
  <2>1. PICK t \in Staff, new \in Levels, dated \in BOOLEAN : UpdateMemberReads(u, t, new, dated)  BY <1>4
  <2>2. task'[u] \in UpdateTasks
    BY <2>1, MaxKeyType
       DEF UpdateMemberReads, Begins, Typed, VaultTypeOK, UpdateTasks, Keys
  <2>3. task' \in [Staff -> Tasks \cup {None}]
    BY <2>1, <2>2, TasksAreTasks DEF UpdateMemberReads, Begins, Typed
  <2> QED  BY <2>1, <2>3 DEF UpdateMemberReads, rows, Rest, Typed, VaultTypeOK
<1>5. CASE UpdateMemberWrites(u)
  <2>1. task[u] \in UpdateTasks /\ Does(u, "update")
    BY <1>5, TaskShapes DEF UpdateMemberWrites, Does
  <2>2. level' \in [Staff -> Levels] /\ sealed' \in [Staff -> Keys]
    BY <1>5, <2>1 DEF UpdateMemberWrites, Typed, VaultTypeOK, UpdateTasks
  <2>3. task[u].secret # 0 <=> task[u].level \in Reveals  BY <2>1 DEF UpdatesHold
  <2>4. \A v \in Staff : sealed'[v] # 0 <=> level'[v] \in Reveals
    BY <1>5, <2>1, <2>3 DEF UpdateMemberWrites, Typed, VaultTypeOK, UpdateTasks
  <2>5. crossed' \subseteq Wrappers
    BY <1>5, <2>1, NotedIsTyped, WrappersAreTyped DEF UpdateMemberWrites, UpdateTasks
  <2>6. lapsed' \subseteq Staff /\ \A v \in lapsed' : level'[v] # "none"
    <3>1. task[u].level # "none"  BY <2>1 DEF UpdatesHold
    <3> QED  BY <1>5, <2>1, <3>1 DEF UpdateMemberWrites, Typed, VaultTypeOK, UpdateTasks
  <2>7. rekeyAsked' \in BOOLEAN
    BY <1>5, <2>1 DEF UpdateMemberWrites, UpdateTasks, Typed, VaultTypeOK
  <2> QED
    BY <1>5, <2>2, <2>4, <2>5, <2>6, <2>7
       DEF UpdateMemberWrites, Ends, Rest, Typed, VaultTypeOK
<1> QED  BY <1>1, <1>2, <1>3, <1>4, <1>5 DEF MemberStep

LEMMA ItemsAreTyped ==
  ASSUME Typed, ItemsCount, TasksAreOld, NEW u \in Staff, ItemStep(u)
  PROVE  Rest'
<1>1. CASE \E i \in Entries : CreateCompanyItem(u, i)
  <2>1. PICK i \in Entries : CreateCompanyItem(u, i)  BY <1>1
  <2>2. item' \in [Entries -> ItemRows]
    BY <2>1, MaxVersionType
       DEF CreateCompanyItem, ItemRows, Typed, VaultTypeOK, Versions
  <2>3. crossed' \subseteq Wrappers
    BY <2>1, NotedIsTyped, WrappersAreTyped DEF CreateCompanyItem
  <2> QED  BY <2>1, <2>2, <2>3 DEF CreateCompanyItem, Rest, Typed, VaultTypeOK
<1>2. CASE \E i \in Entries : OpenForEditing(u, i) \/ OpenForUpload(u, i)
                                \/ \E t \in Staff : OpenForShare(u, i, t)
  <2>1. PICK i \in Entries : OpenForEditing(u, i) \/ OpenForUpload(u, i)
                                \/ \E t \in Staff : OpenForShare(u, i, t)
    BY <1>2
  <2>2. item[i] \in ItemRows  BY DEF Typed, VaultTypeOK
  <2>3. task'[u] \in EditTasks \cup UploadTasks \cup ShareTasks
    BY <2>1, <2>2
       DEF OpenForEditing, OpenForUpload, OpenForShare, Begins, Typed, VaultTypeOK,
           ItemRows, EditTasks, UploadTasks, ShareTasks
  <2>4. task' \in [Staff -> Tasks \cup {None}]
    BY <2>1, <2>3, TasksAreTasks
       DEF OpenForEditing, OpenForUpload, OpenForShare, Begins, Typed
  <2> QED
    BY <2>1, <2>4
       DEF OpenForEditing, OpenForUpload, OpenForShare, rows, Rest, Typed, VaultTypeOK
<1>3. CASE UpdateItem(u)
  <2> DEFINE i == task[u].item
  <2>1. task[u] \in EditTasks /\ Does(u, "edit")
    BY <1>3, TaskShapes DEF UpdateItem, Does
  <2>2. i \in Entries /\ item[i] \in ItemRows
    BY <2>1 DEF EditTasks, Typed, VaultTypeOK
  <2>3. task[u].content = item[i].content /\ item[i].version < MaxVersion
    BY <1>3, <2>1 DEF UpdateItem, TasksAreOld, IsPast
  <2>4. item[i].content + 1 \in Versions /\ item[i].version + 1 \in Versions
        /\ edits[i] + 1 \in Versions
    BY <2>2, <2>3, MaxVersionType DEF ItemsCount, ItemRows, Versions
  <2>5. item' \in [Entries -> ItemRows]
    BY <1>3, <2>2, <2>3, <2>4 DEF UpdateItem, ItemRows, Typed, VaultTypeOK
  <2>6. edits' \in [Entries -> Versions]
    BY <1>3, <2>2, <2>4 DEF UpdateItem, Typed, VaultTypeOK
  <2> QED  BY <1>3, <2>5, <2>6 DEF UpdateItem, Ends, Rest, Typed, VaultTypeOK
<1>4. CASE \E i \in Entries : CompleteRotation(u, i) \/ DeleteItem(u, i) \/ RestoreItem(u, i)
  <2>1. PICK i \in Entries : CompleteRotation(u, i) \/ DeleteItem(u, i) \/ RestoreItem(u, i)
    BY <1>4
  <2>2. item[i] \in ItemRows  BY DEF Typed, VaultTypeOK
  <2>3. item'[i] \in ItemRows /\ item' = [item EXCEPT ![i] = item'[i]]
    <3>1. CASE CompleteRotation(u, i)
      <4>1. item[i].version + 1 \in Versions
        BY <3>1, <2>2, MaxVersionType DEF CompleteRotation, ItemRows, Versions
      <4> QED  BY <3>1, <4>1, <2>2 DEF CompleteRotation, ItemRows, Typed, VaultTypeOK
    <3>2. CASE DeleteItem(u, i)
      BY <3>2, <2>2 DEF DeleteItem, ItemRows, Typed, VaultTypeOK
    <3>3. CASE RestoreItem(u, i)
      BY <3>3, <2>2 DEF RestoreItem, ItemRows, Typed, VaultTypeOK
    <3> QED  BY <2>1, <3>1, <3>2, <3>3
  <2>5. item' \in [Entries -> ItemRows]  BY <2>3 DEF Typed, VaultTypeOK
  <2>4. crossed' \subseteq Wrappers
    BY <2>1, NotedIsTyped, WrappersAreTyped
       DEF CompleteRotation, DeleteItem, RestoreItem, Typed, VaultTypeOK
  <2> QED
    BY <2>1, <2>5, <2>4
       DEF CompleteRotation, DeleteItem, RestoreItem, Rest, Typed, VaultTypeOK
<1>5. CASE \E f \in Files : AddAttachment(u, f) \/ DeleteAttachment(u, f)
  <2>1. PICK f \in Files : AddAttachment(u, f) \/ DeleteAttachment(u, f)  BY <1>5
  <2>2. AddAttachment(u, f) => task[u] \in UploadTasks
    BY TaskShapes DEF AddAttachment
  <2>3. file' \in [Files -> [item : Entries \cup {None}, under : Versions]]
    <3>1. CASE AddAttachment(u, f)
      <4>1. [item |-> task[u].item, under |-> task[u].key]
              \in [item : Entries \cup {None}, under : Versions]
        BY <3>1, <2>2 DEF UploadTasks
      <4> QED  BY <3>1, <4>1 DEF AddAttachment, Typed, VaultTypeOK
    <3>2. CASE DeleteAttachment(u, f)
      <4>1. AbsentFile \in [item : Entries \cup {None}, under : Versions]
        BY MaxVersionType DEF AbsentFile, Versions
      <4> QED  BY <3>2, <4>1 DEF DeleteAttachment, Typed, VaultTypeOK
    <3> QED  BY <2>1, <3>1, <3>2
  <2>4. crossed' \subseteq Wrappers
    BY <2>1, NotedIsTyped, WrappersAreTyped
       DEF AddAttachment, DeleteAttachment, Typed, VaultTypeOK
  <2> QED
    BY <2>1, <2>3, <2>4
       DEF AddAttachment, DeleteAttachment, Ends, Rest, Typed, VaultTypeOK
<1>6. CASE CreateGrant(u)
  <2>1. task[u] \in ShareTasks  BY <1>6, TaskShapes DEF CreateGrant
  <2>2. box' \in [Entries -> [Staff -> Versions]]
    BY <1>6, <2>1 DEF CreateGrant, ShareTasks, Typed, VaultTypeOK
  <2>3. crossed' \subseteq Wrappers
    BY <1>6, <2>1, NotedIsTyped, WrappersAreTyped DEF CreateGrant, ShareTasks
  <2> QED  BY <1>6, <2>2, <2>3 DEF CreateGrant, Ends, Rest, Typed, VaultTypeOK
<1>7. CASE \E i \in Entries, t \in Staff : RevokeGrant(u, i, t)
  <2>1. PICK i \in Entries, t \in Staff : RevokeGrant(u, i, t)  BY <1>7
  <2>2. box' \in [Entries -> [Staff -> Versions]]
    BY <2>1, MaxVersionType DEF RevokeGrant, Versions, Typed, VaultTypeOK
  <2> QED  BY <2>1, <2>2 DEF RevokeGrant, Rest, Typed, VaultTypeOK
<1> QED  BY <1>1, <1>2, <1>3, <1>4, <1>5, <1>6, <1>7 DEF ItemStep

LEMMA RekeyIsTyped ==
  ASSUME Typed, ItemsCount, TasksAreOld, NEW u \in Staff, RekeyStep(u)
  PROVE  Rest'
<1>1. CASE RekeyStart(u)
  <2>1. [i \in {} |-> None] \in ReadSets
    <3>1. {} \in SUBSET Entries /\ [i \in {} |-> None] \in [{} -> Readings]  OBVIOUS
    <3> QED  BY <3>1 DEF ReadSets
  <2>2. task'[u] \in RekeyTasks
    BY <1>1, <2>1
       DEF RekeyStart, Begins, Members, Holders, RekeyTasks, Keys, Typed, VaultTypeOK
  <2>3. task' \in [Staff -> Tasks \cup {None}]
    BY <1>1, <2>2, TasksAreTasks DEF RekeyStart, Begins, Typed
  <2> QED  BY <1>1, <2>3 DEF RekeyStart, rows, Rest, Typed, VaultTypeOK
<1>2. CASE \E i \in Entries : RekeyReads(u, i)
  <2>1. PICK i \in Entries : RekeyReads(u, i)  BY <1>2
  <2>2. task[u] \in RekeyTasks  BY <2>1, TaskShapes DEF RekeyReads
  <2> DEFINE x == [version |-> item[i].version, key |-> item[i].key,
                   content |-> item[i].content,
                   shares |-> RecipientsOf(i), files |-> FilesOf(i)]
             r == task[u].read
  <2>3. x \in Readings
    BY DEF Readings, RecipientsOf, FilesOf, ItemRows, Typed, VaultTypeOK
  <2>4. task' = [task EXCEPT ![u] = [task[u] EXCEPT !.read =
                   [j \in DOMAIN r \cup {i} |-> IF j # i THEN r[j] ELSE x]]]
    BY <2>1 DEF RekeyReads, Begins
  <2>5. [j \in DOMAIN r \cup {i} |-> IF j # i THEN r[j] ELSE x] \in ReadSets
    <3> HIDE DEF x
    <3> QED  BY <2>2, <2>3, ReadingGrows DEF RekeyTasks
  <2>6. task'[u] \in RekeyTasks
    <3> HIDE DEF x, r
    <3> QED  BY <2>2, <2>4, <2>5 DEF RekeyTasks, Typed
  <2>7. task' \in [Staff -> Tasks \cup {None}]
    <3> HIDE DEF x, r
    <3> QED  BY <2>4, <2>6, TasksAreTasks DEF Typed
  <2> QED  BY <2>1, <2>7 DEF RekeyReads, rows, Rest, Typed, VaultTypeOK
<1>3. CASE RekeyCommit(u)
  <2> DEFINE t == task[u]
  <2>1. t \in RekeyTasks /\ Does(u, "rekey")
    BY <1>3, TaskShapes DEF RekeyCommit, Does
  <2>2. DOMAIN t.read \subseteq Entries /\ \A i \in DOMAIN t.read : t.read[i] \in Readings
    BY <2>1 DEF RekeyTasks, ReadSets
  <2>3. collKey + 1 \in Keys /\ collKey + 1 \in 1..MaxKey
    <3>1. t.key = collKey  BY <1>3 DEF RekeyCommit
    <3>2. t.key < MaxKey  BY <2>1 DEF TasksAreOld
    <3>3. collKey \in Nat /\ collKey >= 1  BY DEF Typed, VaultTypeOK
    <3> HIDE DEF t
    <3> QED  BY <3>1, <3>2, <3>3, MaxKeyType DEF Keys
  <2>4. \A i \in DOMAIN t.read :
          /\ t.read[i].key = item[i].key /\ t.read[i].version = item[i].version
          /\ item[i].version + 1 \in Versions /\ t.read[i].key + 1 \in Versions
    <3>1. \A i \in DOMAIN t.read : t.read[i].key = item[i].key
            /\ t.read[i].version = item[i].version /\ item[i].version < MaxVersion
      BY <1>3 DEF RekeyCommit, VersionsMatch
    <3>2. \A i \in Entries : item[i].key \in Nat /\ item[i].version \in Nat
                               /\ item[i].key <= item[i].version
      BY DEF ItemsCount, Typed, VaultTypeOK, ItemRows, Versions
    <3> QED  BY <3>1, <3>2, <2>2, MaxVersionType DEF Versions
  <2>5. item' \in [Entries -> ItemRows]
    <3>1. \A i \in DOMAIN t.read :
            [item[i] EXCEPT !.version = @ + 1, !.key = t.read[i].key + 1,
                            !.under = collKey + 1, !.content = t.read[i].content]
              \in ItemRows
      <4> TAKE i \in DOMAIN t.read
      <4>1. item[i] \in ItemRows  BY <2>2 DEF Typed, VaultTypeOK
      <4>2. t.read[i].content \in Versions  BY <2>2 DEF Readings
      <4> QED  BY <4>1, <4>2, <2>3, <2>4 DEF ItemRows
    <3>2. item' = [i \in Entries |->
            IF i \notin DOMAIN t.read THEN item[i]
            ELSE [item[i] EXCEPT !.version = @ + 1, !.key = t.read[i].key + 1,
                                 !.under = collKey + 1, !.content = t.read[i].content]]
      BY <1>3 DEF RekeyCommit
    <3> QED  BY <3>1, <3>2 DEF Typed, VaultTypeOK
  <2>6. box' \in [Entries -> [Staff -> Versions]]
    BY <1>3, <2>4 DEF RekeyCommit, Typed, VaultTypeOK
  <2>7. \A f \in Files : (\E i \in DOMAIN t.read : f \in t.read[i].files)
                           => file[f].item \in DOMAIN t.read
    BY <1>3 DEF RekeyCommit, AttachmentsMatch, FilesOf
  <2>8. file' \in [Files -> [item : Entries \cup {None}, under : Versions]]
    <3>1. \A f \in Files : file[f].item \in DOMAIN t.read =>
            [file[f] EXCEPT !.under = t.read[file[f].item].key + 1]
              \in [item : Entries \cup {None}, under : Versions]
      BY <2>4 DEF Typed, VaultTypeOK
    <3>2. file' = [f \in Files |->
            IF \E i \in DOMAIN t.read : f \in t.read[i].files
            THEN [file[f] EXCEPT !.under = t.read[file[f].item].key + 1] ELSE file[f]]
      BY <1>3 DEF RekeyCommit
    <3> QED  BY <3>1, <3>2, <2>7 DEF Typed, VaultTypeOK
  <2>9. sealed' \in [Staff -> Keys]
    <3>1. 0 \in Keys  BY MaxKeyType DEF Keys
    <3> QED  BY <1>3, <2>3, <3>1 DEF RekeyCommit
  <2>10. \A v \in Staff : sealed'[v] # 0 <=> level'[v] \in Reveals
    <3>1. collKey + 1 # 0  BY DEF Typed, VaultTypeOK
    <3>2. sealed' = [m \in Staff |-> IF m \in Holders THEN collKey + 1 ELSE 0] /\ level' = level
      BY <1>3 DEF RekeyCommit, MembersMatch
    <3> QED  BY <3>1, <3>2 DEF Holders
  <2>11. crossed' \subseteq Wrappers  BY <1>3 DEF RekeyCommit, Typed, VaultTypeOK
  <2> QED
    BY <1>3, <2>3, <2>5, <2>6, <2>8, <2>9, <2>10, <2>11
       DEF RekeyCommit, Ends, Rest, Typed, VaultTypeOK
<1> QED  BY <1>1, <1>2, <1>3 DEF RekeyStep

-----------------------------------------------------------------------------
(* Changes of members hold the row.                                        *)

\* No change of a member begins, and those under way find the member as it was.
LEMMA UpdatesHoldBeside ==
  ASSUME UpdatesHold,
         \A v \in Staff : Does(v, "update")' =>
           /\ Does(v, "update") /\ task'[v] = task[v]
           /\ level'[task[v].to] = level[task[v].to]
  PROVE  UpdatesHold'
BY DEF UpdatesHold

\* A tab gets a task that is no change of a member, or ends one; the levels stay.
LEMMA UpdatesHoldApart ==
  ASSUME Typed, UpdatesHold, NEW u \in Staff, UNCHANGED level,
         NEW t, task' = [task EXCEPT ![u] = t], t = None \/ t.op # "update"
  PROVE  UpdatesHold'
<1>1. \A v \in Staff : Does(v, "update")' => Does(v, "update") /\ task'[v] = task[v]
  BY DEF Does, Rests, Typed
<1> QED  BY <1>1, UpdatesHoldBeside

\* The row of t is not locked, and only t's level changes.
LEMMA UpdatesHoldUnlocked ==
  ASSUME Typed, UpdatesHold, NEW t \in Staff, ~RowIsLocked(t), UNCHANGED task,
         \A v \in Staff : v # t => level'[v] = level[v]
  PROVE  UpdatesHold'
<1>1. \A v \in Staff : Does(v, "update") => task[v].to \in Staff /\ task[v].to # t
  BY TaskShapes DEF RowIsLocked, Does, UpdateTasks
<1> QED  BY <1>1, UpdatesHoldBeside DEF Does, Rests

LEMMA UpdatesHoldStep ==
  ASSUME Typed, UpdatesHold, VaultAct
  PROVE  UpdatesHold'
<1>1. ASSUME NEW S, Gone(S) PROVE UpdatesHold'
  <2>1. \A t \in Staff : t \in S \/ level'[t] = level[t]  BY <1>1 DEF Gone
  <2>2. \A t \in S : ~RowIsLocked(t)  BY <1>1 DEF Gone
  <2>3. \A v \in Staff : Does(v, "update") => task[v].to \in Staff /\ task[v].to \notin S
    BY <2>2, TaskShapes DEF RowIsLocked, Does, UpdateTasks
  <2>4. UNCHANGED task  BY <1>1 DEF Gone
  <2> QED  BY <2>1, <2>3, <2>4, UpdatesHoldBeside DEF Does, Rests
<1>2. ASSUME NEW u \in Staff, SystemStep(u) \/ \E t \in Staff : \/ RemoveMember(u, t)
                                                                \/ RevokeCompanyAccess(u, t)
      PROVE UpdatesHold'
  <2>1. (\E S : Gone(S)) \/ UNCHANGED <<level, task>>
    BY <1>2 DEF SystemStep, Offboard, Lapses, SweepExpired, RemoveMember, RevokeCompanyAccess
  <2> QED  BY <1>1, <2>1 DEF UpdatesHold, Does, Rests
<1>3. ASSUME NEW u \in Staff, NEW t \in Staff, NEW new \in Levels, AddMember(u, t, new)
      PROVE UpdatesHold'
  <2>1. ~RowIsLocked(t)  BY <1>3 DEF AddMember, RowIsLocked, UpdatesHold, Does
  <2> QED  BY <1>3, <2>1, UpdatesHoldUnlocked DEF AddMember, Typed, VaultTypeOK
<1>4. ASSUME NEW u \in Staff, NEW t \in Staff, NEW new \in Levels, NEW dated \in BOOLEAN,
             UpdateMemberReads(u, t, new, dated)
      PROVE UpdatesHold'
  <2> DEFINE x == task'[u]
  <2>1. /\ x.op = "update" /\ x.to = t /\ x.level = new
        /\ x.secret = IF new \notin Reveals THEN 0
                      ELSE IF level[t] \in Reveals THEN sealed[t] ELSE held[u]
        /\ x.lost <=> new \notin Reveals /\ level[t] \in Reveals
    BY <1>4 DEF UpdateMemberReads, Begins, Typed
  <2>2. level' = level /\ \A v \in Staff : v # u => task'[v] = task[v]
    BY <1>4 DEF UpdateMemberReads, Begins, rows, Typed
  <2>3. x.secret # 0 <=> x.level \in Reveals
    BY <1>4, <2>1 DEF UpdateMemberReads, Typed, VaultTypeOK
  <2>5. level[t] # "none" /\ new # "none"  BY <1>4 DEF UpdateMemberReads
  <2>6. \A v \in Staff : Does(v, "update") => task[v].to # t
    BY <1>4 DEF UpdateMemberReads, RowIsLocked, Does
  <2>7. ~Does(u, "update")  BY <1>4 DEF UpdateMemberReads, Does
  <2>8. \A v \in Staff : v # u => (Does(v, "update")' <=> Does(v, "update"))
    BY <2>2 DEF Does, Rests
  <2> QED
    <3> SUFFICES ASSUME NEW v \in Staff, Does(v, "update")'
                 PROVE  /\ \A w \in Staff : Does(w, "update")' /\ task'[w].to = task'[v].to => w = v
                        /\ level'[task'[v].to] # "none" /\ task'[v].level # "none"
                        /\ task'[v].secret # 0 <=> task'[v].level \in Reveals
                        /\ task'[v].lost <=> task'[v].level \notin Reveals
                                             /\ level'[task'[v].to] \in Reveals
      BY DEF UpdatesHold
    <3>1. CASE v = u
      <4> HIDE DEF x
      <4>1. \A w \in Staff : w # u /\ Does(w, "update")' => task'[w].to # t
        BY <2>2, <2>6, <2>8
      <4>2. task'[v] = x  BY <3>1 DEF x
      <4> QED  BY <3>1, <4>1, <4>2, <2>1, <2>2, <2>3, <2>5
    <3>2. CASE v # u
      <4>1. Does(v, "update") /\ task'[v] = task[v] /\ task[v].to # t
        BY <3>2, <2>2, <2>6, <2>8
      <4>2. \A w \in Staff : Does(w, "update")' /\ task'[w].to = task'[v].to => w = v
        BY <4>1, <2>1, <2>2, <2>8 DEF UpdatesHold
      <4> QED  BY <4>1, <4>2, <2>2 DEF UpdatesHold
    <3> QED  BY <3>1, <3>2
<1>5. ASSUME NEW u \in Staff, UpdateMemberWrites(u) PROVE UpdatesHold'
  <2>1. task[u] \in UpdateTasks /\ Does(u, "update")
    BY <1>5, TaskShapes DEF UpdateMemberWrites, Does
  <2>2. task' = [task EXCEPT ![u] = None] /\ level' = [level EXCEPT ![task[u].to] = task[u].level]
    BY <1>5 DEF UpdateMemberWrites, Ends
  <2>3. \A v \in Staff : Does(v, "update")' => v # u /\ Does(v, "update") /\ task'[v] = task[v]
    BY <2>2 DEF Does, Rests, Typed
  <2>4. \A v \in Staff : Does(v, "update")' => task[v].to # task[u].to
    BY <2>1, <2>3 DEF UpdatesHold
  <2>5. \A v \in Staff : Does(v, "update")' => level'[task[v].to] = level[task[v].to]
    BY <2>2, <2>4 DEF Typed, VaultTypeOK
  <2> QED  BY <2>3, <2>5, UpdatesHoldBeside
<1>6. ASSUME NEW u \in Staff, ItemStep(u) PROVE UpdatesHold'
  <2>1. CASE UNCHANGED <<level, task>>  BY <2>1 DEF UpdatesHold, Does, Rests
  <2>2. CASE \E i \in Entries : \/ OpenForEditing(u, i) \/ OpenForUpload(u, i)
                                \/ \E t \in Staff : OpenForShare(u, i, t)
    BY <2>2, UpdatesHoldApart DEF OpenForEditing, OpenForUpload, OpenForShare, Begins, rows
  <2>3. CASE UpdateItem(u) \/ CreateGrant(u) \/ \E f \in Files : AddAttachment(u, f)
    BY <2>3, UpdatesHoldApart DEF UpdateItem, CreateGrant, AddAttachment, Ends
  <2> QED
    BY <1>6, <2>1, <2>2, <2>3
       DEF ItemStep, CreateCompanyItem, CompleteRotation, DeleteItem, RestoreItem, RevokeGrant,
           DeleteAttachment
<1>7. ASSUME NEW u \in Staff, RekeyStep(u) PROVE UpdatesHold'
  <2>1. CASE RekeyStart(u)
    BY <2>1, UpdatesHoldApart DEF RekeyStart, Begins, rows
  <2>2. CASE \E i \in Entries : RekeyReads(u, i)
    <3>1. PICK i \in Entries : RekeyReads(u, i)  BY <2>2
    <3>2. PICK r : task' = [task EXCEPT ![u] = [task[u] EXCEPT !.read = r]]
      BY <3>1 DEF RekeyReads, Begins
    <3>3. task[u] \in RekeyTasks  BY <3>1, TaskShapes DEF RekeyReads
    <3>4. [task[u] EXCEPT !.read = r].op # "update"  BY <3>3 DEF RekeyTasks
    <3> QED  BY <3>1, <3>2, <3>4, UpdatesHoldApart DEF RekeyReads, rows
  <2>3. CASE RekeyCommit(u)  BY <2>3, UpdatesHoldApart DEF RekeyCommit, Ends
  <2> QED  BY <1>7, <2>1, <2>2, <2>3 DEF RekeyStep
<1>8. ASSUME NEW u \in Staff, Reload(u) \/ GivesUp(u) PROVE UpdatesHold'
  <2>1. CASE Reload(u)  BY <2>1 DEF Reload, rows, UpdatesHold, Does, Rests
  <2>2. CASE GivesUp(u)  BY <2>2, UpdatesHoldApart DEF GivesUp, Ends, rows
  <2> QED  BY <1>8, <2>1, <2>2
<1> QED
  BY <1>2, <1>3, <1>4, <1>5, <1>6, <1>7, <1>8, SomebodyActs DEF MemberStep

-----------------------------------------------------------------------------
(* Items and what has been read of them.                                   *)

\* Everything but these leaves the items as they are.
ChangesItems(u) ==
  \/ \E i \in Entries : \/ CreateCompanyItem(u, i) \/ CompleteRotation(u, i)
                        \/ DeleteItem(u, i) \/ RestoreItem(u, i)
  \/ UpdateItem(u) \/ RekeyCommit(u)

LEMMA ItemsStay ==
  ASSUME Typed, VaultAct, \A u \in Staff : ~ChangesItems(u)
  PROVE  UNCHANGED <<item, edits>>
<1>1. PICK u \in Staff :
        MemberStep(u) \/ ItemStep(u) \/ RekeyStep(u) \/ Reload(u) \/ GivesUp(u) \/ SystemStep(u)
  BY SomebodyActs
<1>2. ~ChangesItems(u)  OBVIOUS
<1>3. CASE MemberStep(u) \/ SystemStep(u)
  BY <1>3 DEF MemberStep, SystemStep, Lapses, SweepExpired, RevokeCompanyAccess,
         RemoveMember, Gone, Offboard, AddMember, UpdateMemberReads, UpdateMemberWrites, rows
<1>4. CASE ItemStep(u)
  BY <1>2, <1>4
     DEF ChangesItems, ItemStep, OpenForEditing, OpenForUpload, OpenForShare, AddAttachment,
         DeleteAttachment, CreateGrant, RevokeGrant, rows
<1>5. CASE RekeyStep(u) \/ Reload(u) \/ GivesUp(u)
  BY <1>2, <1>5 DEF ChangesItems, RekeyStep, RekeyStart, RekeyReads, Reload, GivesUp, rows
<1> QED  BY <1>1, <1>3, <1>4, <1>5

\* What has been read is still there: an edit finds its content, a re-key its items.
LEMMA FoundAsRead ==
  ASSUME Typed, ItemsCount, TasksAreOld, NEW u \in Staff
  PROVE  /\ UpdateItem(u) =>
              /\ task[u].item \in Entries /\ item[task[u].item].life = "live"
              /\ task[u].content = item[task[u].item].content
         /\ RekeyCommit(u) =>
              /\ task[u] \in RekeyTasks /\ DOMAIN task[u].read \subseteq Entries
              /\ \A i \in DOMAIN task[u].read :
                   /\ item[i].life = "live" /\ task[u].read[i] \in Readings
                   /\ task[u].read[i].content = item[i].content
                   /\ task[u].read[i].key = item[i].key
<1>1. ASSUME UpdateItem(u)
      PROVE  /\ task[u].item \in Entries /\ item[task[u].item].life = "live"
             /\ task[u].content = item[task[u].item].content
  <2>1. task[u] \in EditTasks /\ Does(u, "edit")  BY <1>1, TaskShapes DEF UpdateItem, Does
  <2> QED
    BY <1>1, <2>1 DEF UpdateItem, EditTasks, MayEdit, Live, TasksAreOld, IsPast
<1>2. ASSUME RekeyCommit(u)
      PROVE  /\ task[u] \in RekeyTasks /\ DOMAIN task[u].read \subseteq Entries
             /\ \A i \in DOMAIN task[u].read :
                  /\ item[i].life = "live" /\ task[u].read[i] \in Readings
                  /\ task[u].read[i].content = item[i].content
                  /\ task[u].read[i].key = item[i].key
  <2>1. task[u] \in RekeyTasks /\ Does(u, "rekey")  BY <1>2, TaskShapes DEF RekeyCommit, Does
  <2>2. DOMAIN task[u].read = Live  BY <1>2 DEF RekeyCommit, ItemsMatch
  <2>3. \A i \in DOMAIN task[u].read : task[u].read[i] \in Readings
    BY <2>1 DEF RekeyTasks, ReadSets
  <2>4. \A i \in DOMAIN task[u].read : task[u].read[i].version = item[i].version
                                         /\ task[u].read[i].key = item[i].key
    BY <1>2 DEF RekeyCommit, VersionsMatch
  <2>5. \A i \in DOMAIN task[u].read : IsPast(i, task[u].read[i])  BY <2>1 DEF TasksAreOld
  <2> QED  BY <2>1, <2>2, <2>3, <2>4, <2>5 DEF Live, IsPast
<1> QED  BY <1>1, <1>2

LEMMA RekeyedItems ==
  ASSUME Typed, ItemsCount, TasksAreOld, NEW u \in Staff, RekeyCommit(u), NEW i \in Entries
  PROVE  IF i \in Live
         THEN item'[i] = [item[i] EXCEPT !.version = @ + 1, !.key = @ + 1, !.under = collKey + 1]
         ELSE item'[i] = item[i]
<1>1. DOMAIN task[u].read = Live  BY DEF RekeyCommit, ItemsMatch
<1>2. item[i] \in ItemRows  BY DEF Typed, VaultTypeOK
<1>3. item' = [j \in Entries |->
         IF j \notin DOMAIN task[u].read THEN item[j]
         ELSE [item[j] EXCEPT !.version = @ + 1, !.key = task[u].read[j].key + 1,
                              !.under = collKey + 1, !.content = task[u].read[j].content]]
  BY DEF RekeyCommit
<1>4. CASE i \notin Live  BY <1>1, <1>3, <1>4
<1>5. CASE i \in Live
  <2>1. task[u].read[i].content = item[i].content /\ task[u].read[i].key = item[i].key
    BY <1>1, <1>5, FoundAsRead
  <2>2. item'[i] = [item[i] EXCEPT !.version = @ + 1, !.key = item[i].key + 1,
                              !.under = collKey + 1, !.content = item[i].content]
    BY <1>1, <1>3, <1>5, <2>1
  <2>3. [item[i] EXCEPT !.version = @ + 1, !.key = item[i].key + 1,
                              !.under = collKey + 1, !.content = item[i].content]
        = [item[i] EXCEPT !.version = @ + 1, !.key = @ + 1, !.under = collKey + 1]
    BY <1>2 DEF ItemRows
  <2> QED  BY <1>5, <2>2, <2>3
<1> QED  BY <1>4, <1>5

\* How an item may change in one step.
LEMMA ItemChanges ==
  ASSUME Typed, ItemsCount, TasksAreOld, VaultAct, NEW i \in Entries
  PROVE  \/ item'[i] = item[i] /\ edits'[i] = edits[i]
         \/ /\ item[i].life = "absent" /\ edits'[i] = edits[i]
            /\ \E u \in Staff : item'[i] = [life |-> "live", version |-> 1, key |-> 1,
                                            under |-> held[u], content |-> 0]
         \/ /\ item[i].life = "live" /\ edits'[i] = edits[i] + 1
            /\ item'[i] = [item[i] EXCEPT !.version = @ + 1, !.content = @ + 1]
         \/ /\ item[i].life = "live" /\ edits'[i] = edits[i]
            /\ item'[i] = [item[i] EXCEPT !.version = @ + 1]
         \/ /\ item[i].life # "absent" /\ edits'[i] = edits[i]
            /\ \E life \in {"live", "deleted"} : item'[i] = [item[i] EXCEPT !.life = life]
         \/ /\ item[i].life = "live" /\ edits'[i] = edits[i]
            /\ item'[i] = [item[i] EXCEPT !.version = @ + 1, !.key = @ + 1,
                                          !.under = collKey + 1]
<1>0. item[i] \in ItemRows  BY DEF Typed, VaultTypeOK
<1>1. CASE \A u \in Staff : ~ChangesItems(u)  BY <1>1, ItemsStay
<1>2. ASSUME NEW u \in Staff, NEW j \in Entries, CreateCompanyItem(u, j)
      PROVE  \/ item'[i] = item[i] /\ edits'[i] = edits[i]
             \/ /\ item[i].life = "absent" /\ edits'[i] = edits[i]
                /\ item'[i] = [life |-> "live", version |-> 1, key |-> 1,
                               under |-> held[u], content |-> 0]
  BY <1>2 DEF CreateCompanyItem, Typed, VaultTypeOK
<1>3. ASSUME NEW u \in Staff, NEW j \in Entries, CompleteRotation(u, j)
      PROVE  \/ item'[i] = item[i] /\ edits'[i] = edits[i]
             \/ /\ item[i].life = "live" /\ edits'[i] = edits[i]
                /\ item'[i] = [item[i] EXCEPT !.version = @ + 1]
  BY <1>3 DEF CompleteRotation, MayEdit, Live, Typed, VaultTypeOK
<1>4. ASSUME NEW u \in Staff, NEW j \in Entries, DeleteItem(u, j) \/ RestoreItem(u, j)
      PROVE  \/ item'[i] = item[i] /\ edits'[i] = edits[i]
             \/ /\ item[i].life # "absent" /\ edits'[i] = edits[i]
                /\ \E life \in {"live", "deleted"} : item'[i] = [item[i] EXCEPT !.life = life]
  BY <1>4 DEF DeleteItem, RestoreItem, Live, Typed, VaultTypeOK
<1>5. ASSUME NEW u \in Staff, UpdateItem(u)
      PROVE  \/ item'[i] = item[i] /\ edits'[i] = edits[i]
             \/ /\ item[i].life = "live" /\ edits'[i] = edits[i] + 1
                /\ item'[i] = [item[i] EXCEPT !.version = @ + 1, !.content = @ + 1]
  <2>1. /\ task[u].item \in Entries /\ item[task[u].item].life = "live"
        /\ task[u].content = item[task[u].item].content
    BY <1>5, FoundAsRead
  <2>2. item' = [item EXCEPT ![task[u].item].version = @ + 1,
                             ![task[u].item].content = task[u].content + 1]
        /\ edits' = [edits EXCEPT ![task[u].item] = @ + 1]
    BY <1>5 DEF UpdateItem
  <2> QED  BY <1>0, <2>1, <2>2 DEF Typed, VaultTypeOK, ItemRows
<1>6. ASSUME NEW u \in Staff, RekeyCommit(u)
      PROVE  \/ item'[i] = item[i] /\ edits'[i] = edits[i]
             \/ /\ item[i].life = "live" /\ edits'[i] = edits[i]
                /\ item'[i] = [item[i] EXCEPT !.version = @ + 1, !.key = @ + 1,
                                              !.under = collKey + 1]
  BY <1>6, RekeyedItems DEF RekeyCommit, Live
<1> QED  BY <1>1, <1>2, <1>3, <1>4, <1>5, <1>6 DEF ChangesItems

\* The same, said of the numbers only: `old` becomes `new`, and the accepted changes
\* `was` become `is`.
Turns(old, new, was, is) ==
  \/ new = old /\ is = was
  \/ /\ old.life = "absent" /\ new.life = "live" /\ is = was
     /\ new.version = 1 /\ new.key = 1 /\ new.content = 0
  \/ /\ old.life = "live" /\ new.life = "live" /\ is = was + 1
     /\ new.version = old.version + 1 /\ new.key = old.key
     /\ new.content = old.content + 1
  \/ /\ old.life = "live" /\ new.life = "live" /\ is = was
     /\ new.version = old.version + 1 /\ (new.key = old.key \/ new.key = old.key + 1)
     /\ new.content = old.content
  \/ /\ old.life # "absent" /\ new.life # "absent" /\ is = was
     /\ new.version = old.version /\ new.key = old.key /\ new.content = old.content

Counted == [life : {"absent", "live", "deleted"}, version : Nat, key : Nat,
            under : Keys, content : Nat]

LEMMA ChangesTurn ==
  ASSUME NEW old \in Counted, NEW new, NEW was \in Nat, NEW is, NEW k,
         \/ new = old /\ is = was
         \/ /\ old.life = "absent" /\ is = was
            /\ \E h : new = [life |-> "live", version |-> 1, key |-> 1, under |-> h,
                             content |-> 0]
         \/ /\ old.life = "live" /\ is = was + 1
            /\ new = [old EXCEPT !.version = @ + 1, !.content = @ + 1]
         \/ /\ old.life = "live" /\ is = was
            /\ new = [old EXCEPT !.version = @ + 1]
         \/ /\ old.life # "absent" /\ is = was
            /\ \E life \in {"live", "deleted"} : new = [old EXCEPT !.life = life]
         \/ /\ old.life = "live" /\ is = was
            /\ new = [old EXCEPT !.version = @ + 1, !.key = @ + 1, !.under = k]
  PROVE  Turns(old, new, was, is)
<1>1. CASE new = old /\ is = was  BY <1>1 DEF Turns
<1>2. ASSUME old.life = "absent", is = was, NEW h,
             new = [life |-> "live", version |-> 1, key |-> 1, under |-> h, content |-> 0]
      PROVE  Turns(old, new, was, is)
  BY <1>2 DEF Turns
<1>3. CASE /\ old.life = "live" /\ is = was + 1
           /\ new = [old EXCEPT !.version = @ + 1, !.content = @ + 1]
  BY <1>3 DEF Counted, Turns
<1>4. CASE old.life = "live" /\ is = was /\ new = [old EXCEPT !.version = @ + 1]
  BY <1>4 DEF Counted, Turns
<1>5. ASSUME old.life # "absent", is = was, NEW life \in {"live", "deleted"},
             new = [old EXCEPT !.life = life]
      PROVE  Turns(old, new, was, is)
  BY <1>5 DEF Counted, Turns
<1>6. CASE /\ old.life = "live" /\ is = was
           /\ new = [old EXCEPT !.version = @ + 1, !.key = @ + 1, !.under = k]
  BY <1>6 DEF Counted, Turns
<1> QED  BY <1>1, <1>2, <1>3, <1>4, <1>5, <1>6

LEMMA ItemNumbers ==
  ASSUME Typed, ItemsCount, TasksAreOld, VaultAct, NEW i \in Entries
  PROVE  /\ item[i] \in Counted /\ edits[i] \in Nat
         /\ Turns(item[i], item'[i], edits[i], edits'[i])
<1>1. item[i] \in Counted /\ edits[i] \in Nat
  BY DEF Typed, VaultTypeOK, ItemRows, Versions, Counted
<1>2. PICK k : k = collKey + 1  OBVIOUS
<1>3. \/ item'[i] = item[i] /\ edits'[i] = edits[i]
      \/ /\ item[i].life = "absent" /\ edits'[i] = edits[i]
         /\ \E h : item'[i] = [life |-> "live", version |-> 1, key |-> 1, under |-> h,
                               content |-> 0]
      \/ /\ item[i].life = "live" /\ edits'[i] = edits[i] + 1
         /\ item'[i] = [item[i] EXCEPT !.version = @ + 1, !.content = @ + 1]
      \/ /\ item[i].life = "live" /\ edits'[i] = edits[i]
         /\ item'[i] = [item[i] EXCEPT !.version = @ + 1]
      \/ /\ item[i].life # "absent" /\ edits'[i] = edits[i]
         /\ \E life \in {"live", "deleted"} : item'[i] = [item[i] EXCEPT !.life = life]
      \/ /\ item[i].life = "live" /\ edits'[i] = edits[i]
         /\ item'[i] = [item[i] EXCEPT !.version = @ + 1, !.key = @ + 1, !.under = k]
  <2>1. \A u \in Staff : item'[i] = [life |-> "live", version |-> 1, key |-> 1,
                                    under |-> held[u], content |-> 0]
          => \E h : item'[i] = [life |-> "live", version |-> 1, key |-> 1, under |-> h,
                                content |-> 0]
    OBVIOUS
  <2> QED  BY <1>2, <2>1, ItemChanges
<1> QED  BY <1>1, <1>3, ChangesTurn

\* The numbers of an item that counts its changes go on counting them.
LEMMA TurnsCount ==
  ASSUME NEW old \in Counted, NEW new, NEW was \in Nat, NEW is, Turns(old, new, was, is),
         old.content = was, old.content <= old.version, old.key <= old.version,
         old.life = "absent" => old = AbsentItem
  PROVE  /\ new.content = is /\ new.content <= new.version /\ new.key <= new.version
         /\ new.life = "absent" => new = AbsentItem
<1> DEFINE v == old.version
           k == old.key
           c == old.content
<1>1. v \in Nat /\ k \in Nat /\ c \in Nat /\ c = was /\ c <= v /\ k <= v  BY DEF Counted
<1>2. \/ new = old /\ is = was
      \/ new.life = "live" /\ is = c /\ new.version = 1 /\ new.key = 1 /\ new.content = 0 /\ c = 0
      \/ /\ new.life = "live" /\ is = c + 1 /\ new.version = v + 1 /\ new.key = k
         /\ new.content = c + 1
      \/ /\ new.life = "live" /\ is = c /\ new.version = v + 1
         /\ new.key = k \/ new.key = k + 1
         /\ new.content = c
      \/ /\ new.life # "absent" /\ is = c /\ new.version = v /\ new.key = k /\ new.content = c
  BY DEF Turns, AbsentItem
<1> HIDE DEF v, k, c
<1>3. CASE new = old /\ is = was  BY <1>3
<1>4. CASE ~(new = old /\ is = was)  BY <1>1, <1>2, <1>4
<1> QED  BY <1>3, <1>4

LEMMA ItemsCountStep ==
  ASSUME Typed, ItemsCount, TasksAreOld, VaultAct
  PROVE  ItemsCount'
<1> SUFFICES ASSUME NEW i \in Entries
             PROVE  /\ item'[i].content = edits'[i]
                    /\ item'[i].content <= item'[i].version /\ item'[i].key <= item'[i].version
                    /\ item'[i].life = "absent" => item'[i] = AbsentItem
  BY DEF ItemsCount
<1> DEFINE old == item[i]
           new == item'[i]
           was == edits[i]
           is == edits'[i]
<1>1. /\ old.content = was /\ old.content <= old.version /\ old.key <= old.version
      /\ old.life = "absent" => old = AbsentItem
  BY DEF ItemsCount
<1>2. old \in Counted /\ was \in Nat /\ Turns(old, new, was, is)  BY ItemNumbers
<1> HIDE DEF old, new, was, is
<1>3. /\ new.content = is /\ new.content <= new.version /\ new.key <= new.version
      /\ new.life = "absent" => new = AbsentItem
  BY <1>1, <1>2, TurnsCount
<1> QED  BY <1>3 DEF new, is

\* An item that exists stays, its version grows, and its content with it.
LEMMA PastStays ==
  ASSUME Typed, ItemsCount, TasksAreOld, VaultAct, NEW i \in Entries, NEW r,
         r.version \in Nat, IsPast(i, r)
  PROVE  /\ item'[i].life # "absent" /\ r.version <= item'[i].version
         /\ r.version = item'[i].version => r.content = item'[i].content
<1> DEFINE old == item[i]
           new == item'[i]
           v == r.version
           c == r.content
<1>1. old \in Counted /\ Turns(old, new, edits[i], edits'[i])  BY ItemNumbers
<1>2. v \in Nat /\ old.life # "absent" /\ v <= old.version /\ (v = old.version => c = old.content)
  BY DEF IsPast
<1> HIDE DEF old, new, v, c
<1>3. new.life # "absent" /\ v <= new.version /\ (v = new.version => c = new.content)
  BY <1>1, <1>2 DEF Counted, Turns
<1> QED  BY <1>3 DEF new, v, c

\* How the task of a tab may change in one step.
LEMMA TaskChanges ==
  ASSUME Typed, VaultAct, NEW v \in Staff
  PROVE  \/ task'[v] = task[v] \/ task'[v] = None
         \/ \E t \in Staff, new \in Levels, dated \in BOOLEAN :
              UpdateMemberReads(v, t, new, dated)
         \/ \E i \in Entries : \/ OpenForEditing(v, i) \/ OpenForUpload(v, i)
                               \/ \E t \in Staff : OpenForShare(v, i, t)
         \/ RekeyStart(v) \/ \E i \in Entries : RekeyReads(v, i)
<1>1. PICK u \in Staff :
        MemberStep(u) \/ ItemStep(u) \/ RekeyStep(u) \/ Reload(u) \/ GivesUp(u) \/ SystemStep(u)
  BY SomebodyActs
<1>2. CASE MemberStep(u) \/ SystemStep(u)
  BY <1>1, <1>2
     DEF MemberStep, SystemStep, Lapses, SweepExpired, RevokeCompanyAccess,
         RemoveMember, Gone, Offboard, AddMember, UpdateMemberReads, UpdateMemberWrites, Begins, Ends, Typed
<1>3. CASE ItemStep(u)
  BY <1>1, <1>3
     DEF ItemStep, CreateCompanyItem, CompleteRotation, DeleteItem, RestoreItem, UpdateItem,
         OpenForEditing, OpenForUpload, OpenForShare, AddAttachment, DeleteAttachment,
         CreateGrant, RevokeGrant, Begins, Ends, Typed
<1>4. CASE RekeyStep(u) \/ Reload(u) \/ GivesUp(u)
  BY <1>1, <1>4
     DEF RekeyStep, RekeyStart, RekeyReads, RekeyCommit, Reload, GivesUp, Begins, Ends, Typed
<1> QED  BY <1>1, <1>2, <1>3, <1>4

LEMMA TasksAreOldStep ==
  ASSUME Typed, ItemsCount, TasksAreOld, VaultAct
  PROVE  TasksAreOld'
<1> SUFFICES ASSUME NEW v \in Staff
    PROVE  /\ Does(v, "edit")' => IsPast(task[v].item, task[v])'
           /\ Does(v, "upload")' \/ Does(v, "share")' => item'[task'[v].item].life # "absent"
           /\ Does(v, "rekey")' =>
                /\ task'[v].key < MaxKey
                /\ \A i \in DOMAIN task'[v].read : IsPast(i, task[v].read[i])'
  BY DEF TasksAreOld
<1>1. CASE task'[v] = task[v]
  <2>1. \A op : Does(v, op)' <=> Does(v, op)  BY <1>1 DEF Does, Rests
  <2>2. ASSUME Does(v, "edit") PROVE IsPast(task[v].item, task[v])'
    <3>1. task[v] \in EditTasks  BY <2>2, TaskShapes DEF Does
    <3>2. task[v].item \in Entries /\ task[v].version \in Nat
      BY <3>1 DEF EditTasks, Versions
    <3>3. IsPast(task[v].item, task[v])  BY <2>2 DEF TasksAreOld
    <3> QED  BY <1>1, <3>2, <3>3, PastStays DEF IsPast
  <2>3. ASSUME Does(v, "upload") \/ Does(v, "share")
        PROVE  item'[task[v].item].life # "absent"
    <3>1. task[v] \in UploadTasks \cup ShareTasks  BY <2>3, TaskShapes DEF Does
    <3>2. task[v].item \in Entries  BY <3>1 DEF UploadTasks, ShareTasks
    <3>3. item[task[v].item].life # "absent"  BY <2>3 DEF TasksAreOld
    <3> QED  BY <3>2, <3>3, ItemNumbers DEF Turns
  <2>4. ASSUME Does(v, "rekey")
        PROVE  /\ task[v].key < MaxKey
               /\ \A i \in DOMAIN task[v].read : IsPast(i, task[v].read[i])'
    <3>1. task[v] \in RekeyTasks  BY <2>4, TaskShapes DEF Does
    <3>2. \A i \in DOMAIN task[v].read : i \in Entries /\ task[v].read[i].version \in Nat
      BY <3>1 DEF RekeyTasks, ReadSets, Readings, Versions
    <3>3. \A i \in DOMAIN task[v].read : IsPast(i, task[v].read[i])
      BY <2>4 DEF TasksAreOld
    <3>4. \A i \in DOMAIN task[v].read : IsPast(i, task[v].read[i])'
      BY <1>1, <3>2, <3>3, PastStays DEF IsPast
    <3> QED  BY <2>4, <3>4 DEF TasksAreOld
  <2> QED  BY <1>1, <2>1, <2>2, <2>3, <2>4
<1>2. CASE task'[v] = None  BY <1>2 DEF Does, Rests
<1>3. ASSUME NEW t \in Staff, NEW new \in Levels, NEW dated \in BOOLEAN,
             UpdateMemberReads(v, t, new, dated)
      PROVE  task'[v].op = "update"
  BY <1>3 DEF UpdateMemberReads, Begins, Typed
<1>4. ASSUME NEW i \in Entries, OpenForEditing(v, i)
      PROVE  task'[v].op = "edit" /\ IsPast(task[v].item, task[v])'
  <2>1. item[i].life # "absent" /\ item[i].version \in Nat
    BY <1>4 DEF OpenForEditing, CanOpen, OpensShared, Live, Typed, VaultTypeOK, ItemRows, Versions
  <2> QED  BY <1>4, <2>1 DEF OpenForEditing, Begins, rows, Typed, IsPast
<1>5. ASSUME NEW i \in Entries, OpenForUpload(v, i) \/ \E t \in Staff : OpenForShare(v, i, t)
      PROVE  task'[v].op \in {"upload", "share"} /\ item'[task'[v].item].life # "absent"
  BY <1>5 DEF OpenForUpload, OpenForShare, CanOpen, OpensShared, Live, Begins, rows, Typed
<1>6. ASSUME RekeyStart(v)
      PROVE  /\ task'[v].op = "rekey" /\ task'[v].key < MaxKey
             /\ \A i \in DOMAIN task'[v].read : IsPast(i, task[v].read[i])'
  BY <1>6 DEF RekeyStart, Begins, Typed
<1>7. ASSUME NEW i \in Entries, RekeyReads(v, i)
      PROVE  /\ task'[v].op = "rekey" /\ task'[v].key < MaxKey
             /\ \A j \in DOMAIN task'[v].read : IsPast(j, task[v].read[j])'
  <2> DEFINE x == [version |-> item[i].version, key |-> item[i].key,
                   content |-> item[i].content,
                   shares |-> RecipientsOf(i), files |-> FilesOf(i)]
             r == task[v].read
             s == [j \in DOMAIN r \cup {i} |-> IF j # i THEN r[j] ELSE x]
  <2>1. task[v] \in RekeyTasks /\ Does(v, "rekey")
    BY <1>7, TaskShapes DEF RekeyReads, Does
  <2>2. task' = [task EXCEPT ![v] = [task[v] EXCEPT !.read = s]]
    BY <1>7 DEF RekeyReads, Begins
  <2>3. task'[v].op = "rekey" /\ task'[v].key = task[v].key /\ task'[v].read = s
    <3> HIDE DEF s
    <3> QED  BY <2>1, <2>2 DEF RekeyTasks, Typed
  <2>4. item[i].life # "absent" /\ item[i].version \in Nat
    BY <1>7 DEF RekeyReads, CanOpen, Live, Typed, VaultTypeOK, ItemRows, Versions
  <2>5. item' = item  BY <1>7 DEF RekeyReads, rows
  <2>6. \A j \in DOMAIN r : IsPast(j, r[j])  BY <2>1 DEF TasksAreOld
  <2>7. IsPast(i, x)  BY <2>4 DEF IsPast
  <2>8. DOMAIN s = DOMAIN r \cup {i} /\ \A j \in DOMAIN s : s[j] = IF j # i THEN r[j] ELSE x
    OBVIOUS
  <2>9. \A j \in DOMAIN s : IsPast(j, s[j])
    <3> HIDE DEF s, x, r
    <3> QED  BY <2>6, <2>7, <2>8
  <2>10. \A j \in DOMAIN task'[v].read : IsPast(j, task[v].read[j])'
    <3> HIDE DEF s, x, r
    <3> QED  BY <2>3, <2>5, <2>9 DEF IsPast
  <2> QED  BY <2>1, <2>3, <2>10 DEF TasksAreOld
<1> QED  BY <1>1, <1>2, <1>3, <1>4, <1>5, <1>6, <1>7, TaskChanges DEF Does

LEMMA FilesStay ==
  ASSUME Typed, VaultAct
  PROVE  \/ UNCHANGED file \/ \E u \in Staff : RekeyCommit(u)
         \/ \E u \in Staff, f \in Files : AddAttachment(u, f) \/ DeleteAttachment(u, f)
<1>1. PICK u \in Staff :
        MemberStep(u) \/ ItemStep(u) \/ RekeyStep(u) \/ Reload(u) \/ GivesUp(u) \/ SystemStep(u)
  BY SomebodyActs
<1>2. CASE MemberStep(u) \/ SystemStep(u)
  BY <1>2 DEF MemberStep, SystemStep, Lapses, SweepExpired, RevokeCompanyAccess,
         RemoveMember, Gone, Offboard, AddMember, UpdateMemberReads, UpdateMemberWrites, rows
<1>3. CASE ItemStep(u)
  BY <1>1, <1>3
     DEF ItemStep, CreateCompanyItem, CompleteRotation, DeleteItem, RestoreItem, UpdateItem,
         OpenForEditing, OpenForUpload, OpenForShare, CreateGrant, RevokeGrant, rows
<1>4. CASE RekeyStep(u) \/ Reload(u) \/ GivesUp(u)
  BY <1>1, <1>4 DEF RekeyStep, RekeyStart, RekeyReads, Reload, GivesUp, rows
<1> QED  BY <1>1, <1>2, <1>3, <1>4

LEMMA SharesStay ==
  ASSUME Typed, VaultAct
  PROVE  \/ UNCHANGED box
         \/ \E u \in Staff : RekeyCommit(u) \/ CreateGrant(u) \/ Offboard(u)
         \/ \E u \in Staff, i \in Entries, t \in Staff : RevokeGrant(u, i, t)
<1>1. PICK u \in Staff :
        MemberStep(u) \/ ItemStep(u) \/ RekeyStep(u) \/ Reload(u) \/ GivesUp(u) \/ SystemStep(u)
  BY SomebodyActs
<1>2. CASE MemberStep(u) \/ Lapses(u) \/ SweepExpired
  BY <1>2 DEF MemberStep, Lapses, SweepExpired, RevokeCompanyAccess,
         RemoveMember, Gone, AddMember, UpdateMemberReads, UpdateMemberWrites, rows
<1>5. CASE SystemStep(u) /\ ~(MemberStep(u) \/ Lapses(u) \/ SweepExpired)
  BY <1>5 DEF SystemStep
<1>3. CASE ItemStep(u)
  BY <1>1, <1>3
     DEF ItemStep, CreateCompanyItem, CompleteRotation, DeleteItem, RestoreItem, UpdateItem,
         OpenForEditing, OpenForUpload, OpenForShare, AddAttachment, DeleteAttachment, rows
<1>4. CASE RekeyStep(u) \/ Reload(u) \/ GivesUp(u)
  BY <1>1, <1>4 DEF RekeyStep, RekeyStart, RekeyReads, Reload, GivesUp, rows
<1> QED  BY <1>1, <1>2, <1>3, <1>4, <1>5

LEMMA NothingOfAbsentStep ==
  ASSUME Typed, ItemsCount, TasksAreOld, NothingOfAbsent, VaultAct
  PROVE  NothingOfAbsent'
<1>1. \A i \in Entries : item[i].life # "absent" => item'[i].life # "absent"
  BY ItemNumbers DEF Turns
<1>2. ASSUME NEW f \in Files, file'[f].item # None
      PROVE  file'[f].item \in Entries /\ item[file'[f].item].life # "absent"
  <2>1. CASE file'[f].item = file[f].item
    BY <1>2, <2>1 DEF NothingOfAbsent, Typed, VaultTypeOK
  <2>2. ASSUME NEW u \in Staff, NEW g \in Files, AddAttachment(u, g),
               file'[f].item # file[f].item
        PROVE  file'[f].item \in Live
    BY <2>2 DEF AddAttachment, MayEdit, Typed, VaultTypeOK
  <2>3. ASSUME NEW u \in Staff, NEW g \in Files, DeleteAttachment(u, g)
        PROVE  file'[f].item \in {file[f].item, None}
    BY <2>3 DEF DeleteAttachment, AbsentFile, Typed, VaultTypeOK
  <2>4. ASSUME NEW u \in Staff, RekeyCommit(u)
        PROVE  file'[f].item = file[f].item
    BY <2>4 DEF RekeyCommit, Typed, VaultTypeOK
  <2>5. \/ file' = file \/ \E u \in Staff : RekeyCommit(u)
        \/ \E u \in Staff, g \in Files : AddAttachment(u, g) \/ DeleteAttachment(u, g)
    BY FilesStay
  <2> QED  BY <1>2, <2>1, <2>2, <2>3, <2>4, <2>5 DEF Live
<1>3. ASSUME NEW i \in Entries, NEW r \in Staff, box'[i][r] # 0
      PROVE  item[i].life # "absent"
  <2>1. CASE box[i][r] # 0  BY <2>1 DEF NothingOfAbsent
  <2>2. ASSUME NEW u \in Staff, CreateGrant(u), box[i][r] = 0
        PROVE  i \in Live
    <3>1. task[u] \in ShareTasks  BY <2>2, TaskShapes DEF CreateGrant
    <3> QED  BY <1>3, <2>2, <3>1 DEF CreateGrant, ShareTasks, Typed, VaultTypeOK
  <2>3. ASSUME NEW u \in Staff, RekeyCommit(u), box[i][r] = 0
        PROVE  FALSE
    <3>1. \A j \in DOMAIN task[u].read : task[u].read[j].shares = RecipientsOf(j)
      BY <2>3 DEF RekeyCommit, RecipientsMatch
    <3> QED  BY <1>3, <2>3, <3>1 DEF RekeyCommit, RecipientsOf
  <2>4. ASSUME NEW u \in Staff, NEW j \in Entries, NEW t \in Staff, RevokeGrant(u, j, t),
               box[i][r] = 0
        PROVE  FALSE
    BY <1>3, <2>4 DEF RevokeGrant, Typed, VaultTypeOK
  <2>5. ASSUME NEW u \in Staff, Offboard(u), box[i][r] = 0 PROVE FALSE
    BY <1>3, <2>5 DEF Offboard, Typed, VaultTypeOK
  <2> QED  BY <1>3, <2>1, <2>2, <2>3, <2>4, <2>5, SharesStay DEF Live
<1> QED  BY <1>1, <1>2, <1>3 DEF NothingOfAbsent

-----------------------------------------------------------------------------
(* What is behind the present keys was crossed.                            *)

\* StrandedOnlyByCrossing, and the same of what hangs on a deleted item: a re-key
\* passes it over, and it comes back as it was.
MembersWrapped ==
  \A u \in Staff : level[u] \in Reveals /\ sealed[u] # collKey => MemberW(u) \in crossed
ItemsWrapped ==
  \A i \in Entries : item[i].life = "live" /\ item[i].under # collKey => ItemW(i) \in crossed
FilesWrapped ==
  \A f \in Files : file[f].item # None /\ file[f].under # item[file[f].item].key
                     => FileW(f) \in crossed
SharesWrapped ==
  \A i \in Entries, u \in Staff : box[i][u] # 0 /\ box[i][u] # item[i].key
                                    => ShareW(i, u) \in crossed
Wrapped == MembersWrapped /\ ItemsWrapped /\ FilesWrapped /\ SharesWrapped

LEMMA WrappersDiffer ==
  /\ \A u, v : MemberW(u) = MemberW(v) => u = v
  /\ \A i, j : ItemW(i) = ItemW(j) => i = j
  /\ \A f, g : FileW(f) = FileW(g) => f = g
  /\ \A i, j, u, v : ShareW(i, u) = ShareW(j, v) => i = j /\ u = v
  /\ \A u, i : MemberW(u) # ItemW(i)
  /\ \A u, f : MemberW(u) # FileW(f)
  /\ \A u, i, v : MemberW(u) # ShareW(i, v)
  /\ \A i, f : ItemW(i) # FileW(f)
  /\ \A i, j, v : ItemW(i) # ShareW(j, v)
  /\ \A f, j, v : FileW(f) # ShareW(j, v)
<1>1. /\ \A u : MemberW(u).kind = "member" /\ MemberW(u).user = u
      /\ \A i : ItemW(i).kind = "item" /\ ItemW(i).item = i
      /\ \A f : FileW(f).kind = "file" /\ FileW(f).file = f
      /\ \A i, u : ShareW(i, u).kind = "share" /\ ShareW(i, u).item = i /\ ShareW(i, u).user = u
  BY DEF MemberW, ItemW, FileW, ShareW
<1>2. "member" # "item" /\ "member" # "file" /\ "member" # "share" /\ "item" # "file"
      /\ "item" # "share" /\ "file" # "share"
  OBVIOUS
<1>3. \A u, v : MemberW(u) = MemberW(v) => u = v  BY <1>1
<1>4. \A i, j : ItemW(i) = ItemW(j) => i = j  BY <1>1
<1>5. \A f, g : FileW(f) = FileW(g) => f = g  BY <1>1
<1>6. \A i, j, u, v : ShareW(i, u) = ShareW(j, v) => i = j /\ u = v
  BY <1>1
<1>7. /\ \A u, i : MemberW(u) # ItemW(i)
      /\ \A u, f : MemberW(u) # FileW(f)
      /\ \A i, f : ItemW(i) # FileW(f)
  BY <1>1, <1>2
<1>8. /\ \A u, i, v : MemberW(u) # ShareW(i, v)
      /\ \A i, j, v : ItemW(i) # ShareW(j, v)
      /\ \A f, j, v : FileW(f) # ShareW(j, v)
  BY <1>1, <1>2
<1> QED  BY <1>3, <1>4, <1>5, <1>6, <1>7, <1>8

LEMMA NotedWrappers ==
  ASSUME NEW w, NEW k, NEW n
  PROVE  /\ \A x : x # w => (x \in Noted(w, k, n) <=> x \in crossed)
         /\ k # n => w \in Noted(w, k, n)
BY DEF Noted

\* The wrappers stay as they are, and no item comes back.
SameKeys ==
  /\ UNCHANGED <<collKey, level, sealed, file, box, crossed>>
  /\ \A i \in Entries : /\ item'[i].under = item[i].under /\ item'[i].key = item[i].key
                        /\ item'[i].life = "live" => item[i].life = "live"

ChangesKeys(u) ==
  \/ \E t \in Staff : \/ RemoveMember(u, t) \/ RevokeCompanyAccess(u, t)
                     \/ \E new \in Levels : AddMember(u, t, new)
  \/ UpdateMemberWrites(u) \/ Offboard(u) \/ SweepExpired
  \/ \E i \in Entries : \/ CreateCompanyItem(u, i) \/ RestoreItem(u, i)
                        \/ \E t \in Staff : RevokeGrant(u, i, t)
  \/ \E f \in Files : AddAttachment(u, f) \/ DeleteAttachment(u, f)
  \/ CreateGrant(u) \/ RekeyCommit(u)

LEMMA KeysStay ==
  ASSUME Typed, VaultAct, \A u \in Staff : ~ChangesKeys(u)
  PROVE  SameKeys
<1>1. PICK u \in Staff :
        MemberStep(u) \/ ItemStep(u) \/ RekeyStep(u) \/ Reload(u) \/ GivesUp(u) \/ SystemStep(u)
  BY SomebodyActs
<1>2. ~ChangesKeys(u)  OBVIOUS
<1>3. CASE MemberStep(u) \/ SystemStep(u)
  BY <1>2, <1>3 DEF ChangesKeys, MemberStep, SystemStep, Lapses, UpdateMemberReads, rows, SameKeys
<1>4. CASE RekeyStep(u) \/ Reload(u) \/ GivesUp(u)
  BY <1>2, <1>4
     DEF ChangesKeys, RekeyStep, RekeyStart, RekeyReads, Reload, GivesUp, rows, SameKeys
<1>5. CASE \E i \in Entries : \/ OpenForEditing(u, i) \/ OpenForUpload(u, i)
                              \/ \E t \in Staff : OpenForShare(u, i, t)
  BY <1>5 DEF OpenForEditing, OpenForUpload, OpenForShare, rows, SameKeys
<1>6. ASSUME NEW i \in Entries, NEW x, \/ item' = [item EXCEPT ![i].version = x]
                                       \/ item' = [item EXCEPT ![i].life = "deleted"]
      PROVE  \A j \in Entries : /\ item'[j].under = item[j].under /\ item'[j].key = item[j].key
                                /\ item'[j].life = "live" => item[j].life = "live"
  <2>1. item[i] \in ItemRows /\ DOMAIN item = Entries  BY DEF Typed, VaultTypeOK
  <2>2. LET w == [item[i] EXCEPT !.version = x] IN
          w.under = item[i].under /\ w.key = item[i].key /\ w.life = item[i].life
    BY <2>1 DEF ItemRows
  <2>3. LET w == [item[i] EXCEPT !.life = "deleted"] IN
          w.under = item[i].under /\ w.key = item[i].key /\ w.life = "deleted"
    BY <2>1 DEF ItemRows
  <2> QED  BY <1>6, <2>1, <2>2, <2>3
<1>7. ASSUME NEW i \in Entries, CompleteRotation(u, i) \/ DeleteItem(u, i) PROVE SameKeys
  BY <1>7, <1>6 DEF CompleteRotation, DeleteItem, SameKeys
<1>8. CASE UpdateItem(u)
  <2>1. task[u].item \in Entries  BY <1>8, TaskShapes DEF UpdateItem, EditTasks
  <2>2. \A j \in Entries : item[j] \in ItemRows  BY DEF Typed, VaultTypeOK
  <2>3. item' = [item EXCEPT ![task[u].item].version = @ + 1,
                             ![task[u].item].content = task[u].content + 1]
    BY <1>8 DEF UpdateItem
  <2>4. \A j \in Entries : /\ item'[j].under = item[j].under /\ item'[j].key = item[j].key
                           /\ item'[j].life = item[j].life
    BY <2>1, <2>2, <2>3 DEF Typed, VaultTypeOK, ItemRows
  <2> QED  BY <1>8, <2>4 DEF UpdateItem, SameKeys
<1>9. CASE ItemStep(u)
  BY <1>2, <1>5, <1>7, <1>8, <1>9 DEF ChangesKeys, ItemStep
<1> QED  BY <1>1, <1>3, <1>4, <1>9

LEMMA FilesHaveItems ==
  ASSUME Typed
  PROVE  \A f \in Files : file[f].item # None => file[f].item \in Entries
BY DEF Typed, VaultTypeOK

LEMMA WrappedBeside ==
  ASSUME Typed, Wrapped, SameKeys
  PROVE  Wrapped'
<1>1. MembersWrapped'  BY DEF Wrapped, MembersWrapped, SameKeys
<1>2. ItemsWrapped'  BY DEF Wrapped, ItemsWrapped, SameKeys
<1>3. FilesWrapped'  BY FilesHaveItems DEF Wrapped, FilesWrapped, SameKeys
<1>4. SharesWrapped'  BY DEF Wrapped, SharesWrapped, SameKeys
<1> QED  BY <1>1, <1>2, <1>3, <1>4 DEF Wrapped

\* Changes of members.
LEMMA WrappedMember ==
  ASSUME Typed, Wrapped, NEW u \in Staff, NEW t \in Staff, NEW k, NEW new, NEW b,
         UNCHANGED <<collKey, item, file>>, b \in [Entries -> [Staff -> Nat]],
         \A i \in Entries, r \in Staff : b[i][r] \in {0, box[i][r]}, box' = b,
         level' = [level EXCEPT ![t] = new], sealed' = [sealed EXCEPT ![t] = k],
         \A x : x # MemberW(t) => (x \in crossed' <=> x \in crossed),
         new \in Reveals /\ k # collKey => MemberW(t) \in crossed'
  PROVE  Wrapped'
<1>1. MembersWrapped'
  BY WrappersDiffer DEF Wrapped, MembersWrapped, Typed, VaultTypeOK
<1>2. ItemsWrapped'  BY WrappersDiffer DEF Wrapped, ItemsWrapped
<1>3. FilesWrapped'  BY WrappersDiffer DEF Wrapped, FilesWrapped
<1>4. SharesWrapped'  BY WrappersDiffer DEF Wrapped, SharesWrapped
<1> QED  BY <1>1, <1>2, <1>3, <1>4 DEF Wrapped

LEMMA SharesAreNumbers ==
  ASSUME Typed
  PROVE  box \in [Entries -> [Staff -> Nat]]
BY DEF Typed, VaultTypeOK, Versions

\* Members go, and perhaps their shares.
LEMMA WrappedGone ==
  ASSUME Typed, Wrapped, NEW S, Gone(S),
         \A i \in Entries, r \in Staff : box'[i][r] \in {0, box[i][r]}
  PROVE  Wrapped'
<1>1. /\ UNCHANGED <<collKey, item, file>>
      /\ level' = [u \in Staff |-> IF u \in S THEN "none" ELSE level[u]]
      /\ sealed' = [u \in Staff |-> IF u \in S THEN 0 ELSE sealed[u]]
      /\ crossed' = crossed \ {MemberW(t) : t \in S}
  BY DEF Gone
<1>2. MembersWrapped'  BY <1>1, WrappersDiffer DEF Wrapped, MembersWrapped, Reveals
<1>3. ItemsWrapped'  BY <1>1, WrappersDiffer DEF Wrapped, ItemsWrapped
<1>4. FilesWrapped'  BY <1>1, WrappersDiffer DEF Wrapped, FilesWrapped
<1>5. SharesWrapped'  BY <1>1, WrappersDiffer DEF Wrapped, SharesWrapped
<1> QED  BY <1>2, <1>3, <1>4, <1>5 DEF Wrapped

LEMMA WrappedMembers ==
  ASSUME Typed, Wrapped, NEW u \in Staff, NEW t \in Staff
  PROVE  /\ RemoveMember(u, t) => Wrapped'
         /\ \A new \in Levels : AddMember(u, t, new) => Wrapped'
         /\ UpdateMemberWrites(u) => Wrapped'
         /\ Offboard(t) => Wrapped'
         /\ RevokeCompanyAccess(u, t) => Wrapped'
         /\ SweepExpired => Wrapped'
<1>1. ASSUME RemoveMember(u, t) \/ SweepExpired PROVE Wrapped'
  BY <1>1, WrappedGone DEF RemoveMember, SweepExpired
<1>2. ASSUME NEW new \in Levels, AddMember(u, t, new) PROVE Wrapped'
  <2> DEFINE k == IF new \in Reveals THEN held[u] ELSE 0
             n == IF new \in Reveals THEN collKey ELSE 0
  <2>1. sealed' = [sealed EXCEPT ![t] = k] /\ crossed' = Noted(MemberW(t), k, n)
        /\ level' = [level EXCEPT ![t] = new] /\ UNCHANGED <<collKey, item, file, box>>
    BY <1>2 DEF AddMember
  <2>2. new \in Reveals => n = collKey  OBVIOUS
  <2> HIDE DEF k, n
  <2> QED  BY <2>1, <2>2, NotedWrappers, WrappedMember, SharesAreNumbers
<1>3. ASSUME UpdateMemberWrites(u) PROVE Wrapped'
  <2> DEFINE s == task[u].to
             new == task[u].level
             k == task[u].secret
             n == IF new \in Reveals THEN collKey ELSE 0
  <2>1. sealed' = [sealed EXCEPT ![s] = k] /\ crossed' = Noted(MemberW(s), k, n)
        /\ level' = [level EXCEPT ![s] = new] /\ UNCHANGED <<collKey, item, file, box>>
    BY <1>3 DEF UpdateMemberWrites
  <2>2. s \in Staff  BY <1>3, TaskShapes DEF UpdateMemberWrites, UpdateTasks
  <2>3. new \in Reveals => n = collKey  OBVIOUS
  <2> HIDE DEF k, n, s, new
  <2> QED  BY <2>1, <2>2, <2>3, NotedWrappers, WrappedMember, SharesAreNumbers
<1>4. ASSUME Offboard(t) PROVE Wrapped'
  <2>1. \A i \in Entries, r \in Staff : box'[i][r] \in {0, box[i][r]}
    BY <1>4, SharesAreNumbers DEF Offboard
  <2> QED  BY <1>4, <2>1, WrappedGone DEF Offboard
<1> QED  BY <1>1, <1>2, <1>3, <1>4 DEF RevokeCompanyAccess

\* Items, attachments and shares, one at a time.
LEMMA WrappedItems ==
  ASSUME Typed, Wrapped, NothingOfAbsent, NEW u \in Staff, NEW i \in Entries
  PROVE  /\ CreateCompanyItem(u, i) => Wrapped'
         /\ RestoreItem(u, i) => Wrapped'
         /\ \A t \in Staff : RevokeGrant(u, i, t) => Wrapped'
<1>1. ASSUME CreateCompanyItem(u, i) PROVE Wrapped'
  <2> DEFINE x == [life |-> "live", version |-> 1, key |-> 1, under |-> held[u], content |-> 0]
  <2>1. /\ item' = [item EXCEPT ![i] = x] /\ crossed' = Noted(ItemW(i), held[u], collKey)
        /\ item[i].life = "absent" /\ UNCHANGED <<collKey, level, sealed, file, box>>
        /\ item'[i].under = held[u] /\ \A j \in Entries : j # i => item'[j] = item[j]
    BY <1>1 DEF CreateCompanyItem, Typed, VaultTypeOK
  <2>2. /\ \A w : w # ItemW(i) => (w \in crossed' <=> w \in crossed)
        /\ held[u] # collKey => ItemW(i) \in crossed'
    BY <2>1, NotedWrappers
  <2>3. /\ \A f \in Files : file[f].item # i
        /\ \A r \in Staff : box[i][r] = 0
    <3>1. i # None  BY NoneIsNoItem
    <3> QED  BY <2>1, <3>1 DEF NothingOfAbsent
  <2>4. MembersWrapped'  BY <2>1, <2>2, WrappersDiffer DEF Wrapped, MembersWrapped
  <2>5. ItemsWrapped'  BY <2>1, <2>2, WrappersDiffer DEF Wrapped, ItemsWrapped
  <2>6. FilesWrapped'
    BY <2>1, <2>2, <2>3, WrappersDiffer, FilesHaveItems DEF Wrapped, FilesWrapped
  <2>7. SharesWrapped'  BY <2>1, <2>2, <2>3, WrappersDiffer DEF Wrapped, SharesWrapped
  <2> QED  BY <2>4, <2>5, <2>6, <2>7 DEF Wrapped
<1>2. ASSUME RestoreItem(u, i) PROVE Wrapped'
  <2>1. /\ item' = [item EXCEPT ![i].life = "live"]
        /\ crossed' = Noted(ItemW(i), item[i].under, collKey)
        /\ UNCHANGED <<collKey, level, sealed, file, box>>
    BY <1>2 DEF RestoreItem
  <2>2. /\ \A w : w # ItemW(i) => (w \in crossed' <=> w \in crossed)
        /\ item[i].under # collKey => ItemW(i) \in crossed'
    BY <2>1, NotedWrappers
  <2>3. \A j \in Entries : /\ item'[j].under = item[j].under /\ item'[j].key = item[j].key
                           /\ j # i => item'[j].life = item[j].life
    BY <2>1 DEF Typed, VaultTypeOK, ItemRows
  <2>4. MembersWrapped'  BY <2>1, <2>2, WrappersDiffer DEF Wrapped, MembersWrapped
  <2>5. ItemsWrapped'  BY <2>1, <2>2, <2>3, WrappersDiffer DEF Wrapped, ItemsWrapped
  <2>6. FilesWrapped'
    BY <2>1, <2>2, <2>3, WrappersDiffer, FilesHaveItems DEF Wrapped, FilesWrapped
  <2>7. SharesWrapped'  BY <2>1, <2>2, <2>3, WrappersDiffer DEF Wrapped, SharesWrapped
  <2> QED  BY <2>4, <2>5, <2>6, <2>7 DEF Wrapped
<1>3. ASSUME NEW t \in Staff, RevokeGrant(u, i, t) PROVE Wrapped'
  <2>1. /\ box' = [box EXCEPT ![i][t] = 0] /\ crossed' = crossed \ {ShareW(i, t)}
        /\ UNCHANGED <<collKey, level, sealed, file, item>>
    BY <1>3 DEF RevokeGrant
  <2>2. \A j \in Entries, r \in Staff :
          box'[j][r] # 0 => box'[j][r] = box[j][r] /\ (j # i \/ r # t)
    BY <2>1 DEF Typed, VaultTypeOK
  <2>3. MembersWrapped'  BY <2>1, WrappersDiffer DEF Wrapped, MembersWrapped
  <2>4. ItemsWrapped'  BY <2>1, WrappersDiffer DEF Wrapped, ItemsWrapped
  <2>5. FilesWrapped'  BY <2>1, WrappersDiffer DEF Wrapped, FilesWrapped
  <2>6. SharesWrapped'  BY <2>1, <2>2, WrappersDiffer DEF Wrapped, SharesWrapped
  <2> QED  BY <2>3, <2>4, <2>5, <2>6 DEF Wrapped
<1> QED  BY <1>1, <1>2, <1>3

LEMMA WrappedFiles ==
  ASSUME Typed, Wrapped, NEW u \in Staff, NEW f \in Files
  PROVE  /\ AddAttachment(u, f) => Wrapped'
         /\ DeleteAttachment(u, f) => Wrapped'
<1>1. ASSUME AddAttachment(u, f) PROVE Wrapped'
  <2> DEFINE k == task[u].key
             i == task[u].item
  <2>1. /\ file' = [file EXCEPT ![f] = [item |-> i, under |-> k]]
        /\ crossed' = Noted(FileW(f), k, item[i].key)
        /\ UNCHANGED <<collKey, level, sealed, item, box>>
    BY <1>1 DEF AddAttachment
  <2>2. /\ \A w : w # FileW(f) => (w \in crossed' <=> w \in crossed)
        /\ k # item[i].key => FileW(f) \in crossed'
    BY <2>1, NotedWrappers
  <2>3. /\ file'[f].item = i /\ file'[f].under = k
        /\ \A g \in Files : g # f => file'[g] = file[g]
    BY <2>1 DEF Typed, VaultTypeOK
  <2> HIDE DEF k, i
  <2>4. MembersWrapped'  BY <2>1, <2>2, WrappersDiffer DEF Wrapped, MembersWrapped
  <2>5. ItemsWrapped'  BY <2>1, <2>2, WrappersDiffer DEF Wrapped, ItemsWrapped
  <2>6. FilesWrapped'  BY <2>1, <2>2, <2>3, WrappersDiffer DEF Wrapped, FilesWrapped
  <2>7. SharesWrapped'  BY <2>1, <2>2, WrappersDiffer DEF Wrapped, SharesWrapped
  <2> QED  BY <2>4, <2>5, <2>6, <2>7 DEF Wrapped
<1>2. ASSUME DeleteAttachment(u, f) PROVE Wrapped'
  <2>1. /\ file' = [file EXCEPT ![f] = AbsentFile] /\ crossed' = crossed \ {FileW(f)}
        /\ UNCHANGED <<collKey, level, sealed, item, box>>
    BY <1>2 DEF DeleteAttachment
  <2>2. file'[f].item = None /\ \A g \in Files : g # f => file'[g] = file[g]
    BY <2>1 DEF AbsentFile, Typed, VaultTypeOK
  <2>3. MembersWrapped'  BY <2>1, WrappersDiffer DEF Wrapped, MembersWrapped
  <2>4. ItemsWrapped'  BY <2>1, WrappersDiffer DEF Wrapped, ItemsWrapped
  <2>5. FilesWrapped'  BY <2>1, <2>2, WrappersDiffer DEF Wrapped, FilesWrapped
  <2>6. SharesWrapped'  BY <2>1, WrappersDiffer DEF Wrapped, SharesWrapped
  <2> QED  BY <2>3, <2>4, <2>5, <2>6 DEF Wrapped
<1> QED  BY <1>1, <1>2

LEMMA WrappedGrant ==
  ASSUME Typed, Wrapped, NEW u \in Staff, CreateGrant(u)
  PROVE  Wrapped'
<1> DEFINE k == task[u].key
           i == task[u].item
           t == task[u].to
<1>1. /\ box' = [box EXCEPT ![i][t] = k] /\ crossed' = Noted(ShareW(i, t), k, item[i].key)
      /\ UNCHANGED <<collKey, level, sealed, item, file>>
  BY DEF CreateGrant
<1>2. i \in Entries /\ t \in Staff  BY TaskShapes DEF CreateGrant, ShareTasks
<1>3. /\ \A w : w # ShareW(i, t) => (w \in crossed' <=> w \in crossed)
      /\ k # item[i].key => ShareW(i, t) \in crossed'
  BY <1>1, NotedWrappers
<1> HIDE DEF k, i, t
<1>4. /\ box'[i][t] = k
      /\ \A j \in Entries, r \in Staff : j # i \/ r # t => box'[j][r] = box[j][r]
  BY <1>1, <1>2 DEF Typed, VaultTypeOK
<1>5. MembersWrapped'  BY <1>1, <1>3, WrappersDiffer DEF Wrapped, MembersWrapped
<1>6. ItemsWrapped'  BY <1>1, <1>3, WrappersDiffer DEF Wrapped, ItemsWrapped
<1>7. FilesWrapped'  BY <1>1, <1>3, WrappersDiffer DEF Wrapped, FilesWrapped
<1>8. SharesWrapped'  BY <1>1, <1>3, <1>4, WrappersDiffer DEF Wrapped, SharesWrapped
<1> QED  BY <1>5, <1>6, <1>7, <1>8 DEF Wrapped

\* A re-key that its comparisons let through wraps everything in use again.
LEMMA WrappedRekey ==
  ASSUME Typed, ItemsCount, TasksAreOld, Wrapped, NEW u \in Staff, RekeyCommit(u)
  PROVE  Wrapped'
<1> DEFINE read == task[u].read
<1>1. /\ DOMAIN read = Live /\ task[u].holders = Holders
      /\ \A i \in Live : /\ read[i].files = FilesOf(i) /\ read[i].shares = RecipientsOf(i)
                         /\ read[i].key = item[i].key
  BY DEF RekeyCommit, ItemsMatch, MembersMatch, AttachmentsMatch, RecipientsMatch, VersionsMatch
<1>2. \A i \in Entries :
        /\ item'[i].life = item[i].life
        /\ i \in Live => item'[i].under = collKey + 1 /\ item'[i].key = item[i].key + 1
        /\ i \notin Live => item'[i].key = item[i].key
  <2> TAKE i \in Entries
  <2>1. item[i] \in ItemRows  BY DEF Typed, VaultTypeOK
  <2> QED  BY <2>1, RekeyedItems DEF ItemRows
<1>3. /\ \A f \in Files : FileW(f) \in crossed /\ file[f].item \notin Live => FileW(f) \in crossed'
      /\ \A i \in Entries, r \in Staff :
           ShareW(i, r) \in crossed /\ i \notin Live => ShareW(i, r) \in crossed'
  <2>1. crossed' = {w \in crossed :
           \/ w.kind = "file" /\ file[w.file].item \notin Live
           \/ w.kind = "share" /\ w.item \notin Live}
    BY DEF RekeyCommit
  <2>2. /\ \A f : FileW(f).kind = "file" /\ FileW(f).file = f
        /\ \A i, r : ShareW(i, r).kind = "share" /\ ShareW(i, r).item = i
    BY DEF FileW, ShareW
  <2> QED  BY <2>1, <2>2
<1>4. MembersWrapped'
  BY <1>1 DEF RekeyCommit, Holders, MembersWrapped
<1>5. ItemsWrapped'
  <2>1. collKey' = collKey + 1  BY DEF RekeyCommit
  <2> QED  BY <1>2, <2>1 DEF ItemsWrapped, Live
<1>6. FilesWrapped'
  <2>1. file' = [f \in Files |->
            IF \E i \in DOMAIN read : f \in read[i].files
            THEN [file[f] EXCEPT !.under = read[file[f].item].key + 1] ELSE file[f]]
    BY DEF RekeyCommit
  <2>2. \A f \in Files : (\E i \in DOMAIN read : f \in read[i].files) <=> file[f].item \in Live
    BY <1>1 DEF FilesOf
  <2>3. \A f \in Files :
          /\ file'[f].item = file[f].item
          /\ file[f].item \in Live => file'[f].under = item[file[f].item].key + 1
          /\ file[f].item \notin Live => file'[f].under = file[f].under
    BY <1>1, <2>1, <2>2 DEF Typed, VaultTypeOK
  <2> QED  BY <1>2, <1>3, <2>3, FilesHaveItems DEF Wrapped, FilesWrapped
<1>7. SharesWrapped'
  <2>1. box' = [i \in Entries |-> [r \in Staff |->
            IF i \in DOMAIN read /\ r \in read[i].shares THEN read[i].key + 1 ELSE box[i][r]]]
    BY DEF RekeyCommit
  <2>2. \A i \in Entries, r \in Staff :
          box'[i][r] = IF i \in Live /\ box[i][r] # 0 THEN item[i].key + 1 ELSE box[i][r]
    BY <1>1, <2>1 DEF RecipientsOf
  <2> QED  BY <1>2, <1>3, <2>2 DEF Wrapped, SharesWrapped
<1> QED  BY <1>4, <1>5, <1>6, <1>7 DEF Wrapped

LEMMA WrappedStep ==
  ASSUME Typed, ItemsCount, TasksAreOld, NothingOfAbsent, Wrapped, VaultAct
  PROVE  Wrapped'
<1>1. CASE \A u \in Staff : ~ChangesKeys(u)  BY <1>1, KeysStay, WrappedBeside
<1>2. ASSUME NEW u \in Staff, ChangesKeys(u) PROVE Wrapped'
  BY <1>2, WrappedMembers, WrappedItems, WrappedFiles, WrappedGrant, WrappedRekey
     DEF ChangesKeys
<1> QED  BY <1>1, <1>2

-----------------------------------------------------------------------------
(* No key is ahead of the rows, and who has lost a right does not keep up.   *)

KeysFollow ==
  /\ \A u \in Staff : /\ sealed[u] <= collKey /\ held[u] <= collKey
                      /\ knows[u].coll <= collKey
                      /\ Does(u, "update") => task[u].secret <= collKey
  /\ \A i \in Entries : item[i].under <= collKey
  /\ \A u \in Staff, i \in Entries : knows[u].item[i] <= item[i].key

\* The same rows, said of numbers.
LEMMA KeysAreNumbers ==
  ASSUME Typed
  PROVE  /\ collKey \in Nat /\ collKey >= 1
         /\ \A u \in Staff : /\ sealed[u] \in Nat /\ held[u] \in Nat /\ knows[u].coll \in Nat
                             /\ Does(u, "update") => task[u].secret \in Nat /\ task[u].to \in Staff
         /\ \A i \in Entries : item[i].under \in Nat /\ item[i].key \in Nat
         /\ \A u \in Staff, i \in Entries : knows[u].item[i] \in Nat
<1>1. collKey \in Nat /\ collKey >= 1  BY DEF Typed, VaultTypeOK
<1>2. \A u \in Staff : sealed[u] \in Nat /\ held[u] \in Nat /\ knows[u].coll \in Nat
  BY DEF Typed, VaultTypeOK, Keys
<1>3. \A u \in Staff : Does(u, "update") => task[u].secret \in Nat /\ task[u].to \in Staff
  BY TaskShapes DEF Does, UpdateTasks, Keys
<1>4. \A i \in Entries : item[i].under \in Nat /\ item[i].key \in Nat
  BY DEF Typed, VaultTypeOK, ItemRows, Keys, Versions
<1>5. \A u \in Staff, i \in Entries : knows[u].item[i] \in Nat
  BY DEF Typed, VaultTypeOK, Versions
<1> QED  BY <1>1, <1>2, <1>3, <1>4, <1>5

\* Between two re-keys the collection's key stays, and so does an item's once it exists.
LEMMA KeysRemain ==
  ASSUME Typed, ItemsCount, VaultAct, \A u \in Staff : ~RekeyCommit(u)
  PROVE  /\ collKey' = collKey
         /\ \A i \in Entries :
              \/ item'[i].under = item[i].under /\ item'[i].key = item[i].key
              \/ /\ item[i].key = 0 /\ item'[i].key = 1
                 /\ \E u \in Staff : item'[i].under = held[u]
<1>1. CASE \A u \in Staff : ~ChangesKeys(u)  BY <1>1, KeysStay DEF SameKeys
<1>2. ASSUME NEW u \in Staff, NEW i \in Entries, CreateCompanyItem(u, i)
      PROVE  /\ collKey' = collKey
             /\ \A j \in Entries :
                  \/ item'[j].under = item[j].under /\ item'[j].key = item[j].key
                  \/ /\ item[j].key = 0 /\ item'[j].key = 1
                     /\ \E v \in Staff : item'[j].under = held[v]
  <2>1. item'[i].under = held[u] /\ item'[i].key = 1
        /\ \A j \in Entries : j # i => item'[j] = item[j]
    BY <1>2 DEF CreateCompanyItem, Typed, VaultTypeOK
  <2>2. item[i].key = 0  BY <1>2 DEF CreateCompanyItem, ItemsCount, AbsentItem
  <2> QED  BY <1>2, <2>1, <2>2 DEF CreateCompanyItem
<1>3. ASSUME NEW u \in Staff, NEW i \in Entries, RestoreItem(u, i)
      PROVE  /\ collKey' = collKey
             /\ \A j \in Entries : item'[j].under = item[j].under /\ item'[j].key = item[j].key
  BY <1>3 DEF RestoreItem, Typed, VaultTypeOK, ItemRows
<1>4. ASSUME NEW u \in Staff, ChangesKeys(u),
             \A i \in Entries : ~CreateCompanyItem(u, i) /\ ~RestoreItem(u, i)
      PROVE  UNCHANGED <<collKey, item>>
  BY <1>4
     DEF ChangesKeys, RemoveMember, RevokeCompanyAccess, SweepExpired, Gone, AddMember,
         UpdateMemberWrites, Offboard, RevokeGrant,
         AddAttachment, DeleteAttachment, CreateGrant
<1> QED  BY <1>1, <1>2, <1>3, <1>4

\* Where an envelope, a key in memory or the key of a change comes from.
LEMMA Envelopes ==
  ASSUME Typed, VaultAct, \A u \in Staff : ~RekeyCommit(u), NEW v \in Staff
  PROVE  /\ \/ sealed'[v] \in {0, sealed[v]}
            \/ \E u \in Staff : \/ sealed'[v] = held[u]
                                \/ Does(u, "update") /\ sealed'[v] = task[u].secret
         /\ held'[v] \in {0, collKey, held[v]}
         /\ Does(v, "update")' => \/ Does(v, "update") /\ task'[v] = task[v]
                                  \/ task'[v].secret \in {0, held[v]}
                                  \/ \E t \in Staff : task'[v].secret = sealed[t]
<1>1. PICK u \in Staff :
        MemberStep(u) \/ ItemStep(u) \/ RekeyStep(u) \/ Reload(u) \/ GivesUp(u) \/ SystemStep(u)
  BY SomebodyActs
<1>2. \/ sealed'[v] \in {0, sealed[v]}
      \/ \E w \in Staff : \/ sealed'[v] = held[w]
                          \/ Does(w, "update") /\ sealed'[v] = task[w].secret
  <2>1. CASE \E t \in Staff, new \in Levels : AddMember(u, t, new)
    BY <2>1 DEF AddMember, Typed, VaultTypeOK
  <2>2. CASE UpdateMemberWrites(u)
    <3>1. Does(u, "update") /\ task[u].to \in Staff
      BY <2>2, TaskShapes DEF UpdateMemberWrites, Does, UpdateTasks
    <3> QED  BY <2>2, <3>1 DEF UpdateMemberWrites, Typed, VaultTypeOK
  <2>3. CASE SystemStep(u) \/ \E t \in Staff : RemoveMember(u, t) \/ RevokeCompanyAccess(u, t)
    BY <2>3 DEF SystemStep, Lapses, SweepExpired, RevokeCompanyAccess, Offboard, RemoveMember, Gone
  <2>4. CASE ItemStep(u)
    BY <2>4
       DEF ItemStep, CreateCompanyItem, CompleteRotation, DeleteItem, RestoreItem, UpdateItem,
           OpenForEditing, OpenForUpload, OpenForShare, AddAttachment, DeleteAttachment,
           CreateGrant, RevokeGrant, rows
  <2>5. CASE RekeyStep(u) \/ Reload(u) \/ GivesUp(u)
    BY <2>5 DEF RekeyStep, RekeyStart, RekeyReads, Reload, GivesUp, rows
  <2>6. CASE \E t \in Staff, new \in Levels, dated \in BOOLEAN : UpdateMemberReads(u, t, new, dated)
    BY <2>6 DEF UpdateMemberReads, rows
  <2> QED  BY <1>1, <2>1, <2>2, <2>3, <2>4, <2>5, <2>6 DEF MemberStep
<1>3. held'[v] \in {0, collKey, held[v]}
  <2>1. CASE MemberStep(u) \/ SystemStep(u)
    BY <2>1 DEF MemberStep, SystemStep, Lapses, SweepExpired, RevokeCompanyAccess,
         RemoveMember, Gone, Offboard, AddMember, UpdateMemberReads,
                UpdateMemberWrites
  <2>2. CASE ItemStep(u)
    BY <2>2
       DEF ItemStep, CreateCompanyItem, CompleteRotation, DeleteItem, RestoreItem, UpdateItem,
           OpenForEditing, OpenForUpload, OpenForShare, AddAttachment, DeleteAttachment,
           CreateGrant, RevokeGrant
  <2>3. CASE RekeyStep(u) \/ GivesUp(u)
    BY <2>3 DEF RekeyStep, RekeyStart, RekeyReads, GivesUp
  <2>4. CASE Reload(u)  BY <2>4 DEF Reload, Typed, VaultTypeOK
  <2> QED  BY <1>1, <2>1, <2>2, <2>3, <2>4
<1>4. ASSUME Does(v, "update")'
      PROVE  \/ Does(v, "update") /\ task'[v] = task[v]
             \/ task'[v].secret \in {0, held[v]}
             \/ \E t \in Staff : task'[v].secret = sealed[t]
  <2>1. CASE task'[v] = task[v] \/ task'[v] = None  BY <1>4, <2>1 DEF Does, Rests
  <2>2. ASSUME NEW t \in Staff, NEW new \in Levels, NEW dated \in BOOLEAN,
             UpdateMemberReads(v, t, new, dated)
        PROVE  \/ task'[v].secret \in {0, held[v]} \/ task'[v].secret = sealed[t]
    BY <2>2 DEF UpdateMemberReads, Begins, Typed
  <2>3. ASSUME NEW i \in Entries, \/ OpenForEditing(v, i) \/ OpenForUpload(v, i)
                                  \/ \E t \in Staff : OpenForShare(v, i, t)
        PROVE  FALSE
    BY <1>4, <2>3 DEF OpenForEditing, OpenForUpload, OpenForShare, Begins, Typed, Does
  <2>4. ASSUME RekeyStart(v) PROVE FALSE
    BY <1>4, <2>4 DEF RekeyStart, Begins, Typed, Does
  <2>5. ASSUME NEW i \in Entries, RekeyReads(v, i) PROVE FALSE
    <3>1. PICK r : task' = [task EXCEPT ![v] = [task[v] EXCEPT !.read = r]]
      BY <2>5 DEF RekeyReads, Begins
    <3>2. task[v] \in RekeyTasks  BY <2>5, TaskShapes DEF RekeyReads
    <3>3. [task[v] EXCEPT !.read = r].op = "rekey"  BY <3>2 DEF RekeyTasks
    <3> QED  BY <1>4, <3>1, <3>3 DEF Does, Typed
  <2> QED  BY <2>1, <2>2, <2>3, <2>4, <2>5, TaskChanges
<1> QED  BY <1>2, <1>3, <1>4

\* Who may reveal goes on doing so, unless the collection asks to be re-keyed.
LEMMA HoldersStay ==
  ASSUME Typed, UpdatesHold, VaultAct, \A u \in Staff : ~RekeyCommit(u), ~rekeyAsked'
  PROVE  ~rekeyAsked /\ Holders \subseteq {v \in Staff : level'[v] \in Reveals}
<1>1. PICK u \in Staff :
        MemberStep(u) \/ ItemStep(u) \/ RekeyStep(u) \/ Reload(u) \/ GivesUp(u) \/ SystemStep(u)
  BY SomebodyActs
<1>2. CASE UNCHANGED <<rekeyAsked, level>>  BY <1>2 DEF Holders
<1>3. CASE SystemStep(u) \/ \E t \in Staff : RemoveMember(u, t) \/ RevokeCompanyAccess(u, t)
  BY <1>2, <1>3
     DEF SystemStep, Lapses, SweepExpired, RevokeCompanyAccess, Offboard, RemoveMember, Gone
<1>4. CASE \E t \in Staff, new \in Levels : AddMember(u, t, new)
  BY <1>4 DEF AddMember, Holders, Reveals, Typed, VaultTypeOK
<1>5. CASE UpdateMemberWrites(u)
  <2>1. task[u] \in UpdateTasks /\ Does(u, "update")
    BY <1>5, TaskShapes DEF UpdateMemberWrites, Does
  <2>2. ~rekeyAsked /\ ~task[u].lost  BY <1>5 DEF UpdateMemberWrites
  <2>3. task[u].level \in Reveals \/ level[task[u].to] \notin Reveals
    BY <2>1, <2>2 DEF UpdatesHold
  <2>4. level' = [level EXCEPT ![task[u].to] = task[u].level] /\ task[u].to \in Staff
    BY <1>5, <2>1 DEF UpdateMemberWrites, UpdateTasks
  <2> QED  BY <2>2, <2>3, <2>4 DEF Holders, Typed, VaultTypeOK
<1>6. CASE \E t \in Staff, new \in Levels, dated \in BOOLEAN : UpdateMemberReads(u, t, new, dated)
  BY <1>2, <1>6 DEF UpdateMemberReads, rows
<1>7. CASE ItemStep(u)
  BY <1>2, <1>7
     DEF ItemStep, CreateCompanyItem, CompleteRotation, DeleteItem, RestoreItem, UpdateItem,
         OpenForEditing, OpenForUpload, OpenForShare, AddAttachment, DeleteAttachment,
         CreateGrant, RevokeGrant, rows
<1>8. CASE RekeyStep(u) \/ Reload(u) \/ GivesUp(u)
  BY <1>2, <1>8 DEF RekeyStep, RekeyStart, RekeyReads, Reload, GivesUp, rows
<1> QED  BY <1>1, <1>3, <1>4, <1>5, <1>6, <1>7, <1>8 DEF MemberStep

LEMMA RekeyedKeys ==
  ASSUME Typed, ItemsCount, TasksAreOld, NEW u \in Staff, RekeyCommit(u)
  PROVE  /\ collKey' = collKey + 1 /\ UNCHANGED <<held, level>>
         /\ \A v \in Staff : sealed'[v] = IF v \in Holders THEN collKey + 1 ELSE 0
         /\ \A i \in Entries :
              \/ item'[i].under = collKey + 1 /\ item'[i].key = item[i].key + 1
              \/ item'[i] = item[i]
         /\ \A v \in Staff : Does(v, "update")' => Does(v, "update") /\ task'[v] = task[v]
<1>1. \A i \in Entries :
        \/ item'[i].under = collKey + 1 /\ item'[i].key = item[i].key + 1
        \/ item'[i] = item[i]
  <2> TAKE i \in Entries
  <2>1. item[i] \in ItemRows  BY DEF Typed, VaultTypeOK
  <2> QED  BY <2>1, RekeyedItems DEF ItemRows
<1>2. \A v \in Staff : Does(v, "update")' => Does(v, "update") /\ task'[v] = task[v]
  BY DEF RekeyCommit, Ends, Does, Rests, Typed
<1>3. \A v \in Staff : sealed'[v] = IF v \in Holders THEN collKey + 1 ELSE 0
  BY DEF RekeyCommit, MembersMatch
<1> QED  BY <1>1, <1>2, <1>3 DEF RekeyCommit

LEMMA KeysFollowStep ==
  ASSUME Typed, ItemsCount, TasksAreOld, KeysFollow, VaultAct, Learns, Rest'
  PROVE  KeysFollow'
<1>1. /\ \A u \in Staff :
           knows'[u].coll = IF Entitled(u)' /\ sealed'[u] > knows[u].coll
                            THEN sealed'[u] ELSE knows[u].coll
      /\ \A u \in Staff, i \in Entries :
           knows'[u].item[i] = IF CanOpen(u, i)' THEN item'[i].key ELSE knows[u].item[i]
  BY Learning DEF Rest
<1>2. \A i \in Entries : item'[i].key \in Nat  BY DEF Rest, ItemRows, Versions
<1>3. ASSUME NEW w \in Staff, RekeyCommit(w) PROVE KeysFollow'
  <2>1. /\ collKey' = collKey + 1 /\ held' = held
        /\ \A v \in Staff : sealed'[v] = collKey + 1 \/ sealed'[v] = 0
        /\ \A i \in Entries :
             \/ item'[i].under = collKey + 1 /\ item'[i].key = item[i].key + 1
             \/ item'[i] = item[i]
        /\ \A v \in Staff : Does(v, "update")' => Does(v, "update") /\ task'[v] = task[v]
    BY <1>3, RekeyedKeys
  <2>2. ASSUME NEW u \in Staff
        PROVE  /\ sealed'[u] <= collKey' /\ held'[u] <= collKey'
               /\ knows'[u].coll <= collKey'
               /\ Does(u, "update")' => task'[u].secret <= collKey'
    <3>1. sealed'[u] <= collKey' /\ held'[u] <= collKey'
      BY <2>1, KeysAreNumbers DEF KeysFollow
    <3>2. knows'[u].coll <= collKey'
      BY <1>1, <2>1, <3>1, KeysAreNumbers DEF KeysFollow
    <3>3. Does(u, "update")' => task'[u].secret <= collKey'
      BY <2>1, KeysAreNumbers DEF KeysFollow
    <3> QED  BY <3>1, <3>2, <3>3
  <2>3. \A i \in Entries : item'[i].under <= collKey'
    BY <2>1, KeysAreNumbers DEF KeysFollow
  <2>4. \A u \in Staff, i \in Entries : knows'[u].item[i] <= item'[i].key
    BY <1>1, <1>2, <2>1, KeysAreNumbers DEF KeysFollow
  <2> QED  BY <2>2, <2>3, <2>4 DEF KeysFollow
<1>4. CASE \A w \in Staff : ~RekeyCommit(w)
  <2>1. collKey' = collKey
        /\ \A i \in Entries :
             \/ item'[i].under = item[i].under /\ item'[i].key = item[i].key
             \/ /\ item[i].key = 0 /\ item'[i].key = 1
                /\ \E u \in Staff : item'[i].under = held[u]
    BY <1>4, KeysRemain
  <2>2. ASSUME NEW u \in Staff
        PROVE  /\ sealed'[u] <= collKey' /\ held'[u] <= collKey'
               /\ knows'[u].coll <= collKey'
               /\ Does(u, "update")' => task'[u].secret <= collKey'
    <3>1. sealed'[u] <= collKey'
      <4>1. \/ sealed'[u] \in {0, sealed[u]}
            \/ \E v \in Staff : \/ sealed'[u] = held[v]
                                \/ Does(v, "update") /\ sealed'[u] = task[v].secret
        BY <1>4, Envelopes
      <4> QED  BY <2>1, <4>1, KeysAreNumbers DEF KeysFollow
    <3>2. held'[u] <= collKey'
      <4>1. held'[u] \in {0, collKey, held[u]}  BY <1>4, Envelopes
      <4> QED  BY <2>1, <4>1, KeysAreNumbers DEF KeysFollow
    <3>3. knows'[u].coll <= collKey'
      BY <1>1, <2>1, <3>1, KeysAreNumbers DEF KeysFollow
    <3>4. Does(u, "update")' => task'[u].secret <= collKey'
      <4>1. Does(u, "update")' => \/ Does(u, "update") /\ task'[u] = task[u]
                                  \/ task'[u].secret \in {0, held[u]}
                                  \/ \E t \in Staff : task'[u].secret = sealed[t]
        BY <1>4, Envelopes
      <4> QED  BY <2>1, <4>1, KeysAreNumbers DEF KeysFollow
    <3> QED  BY <3>1, <3>2, <3>3, <3>4
  <2>3. \A i \in Entries : item'[i].under <= collKey'
    BY <2>1, KeysAreNumbers DEF KeysFollow
  <2>4. \A u \in Staff, i \in Entries : knows'[u].item[i] <= item'[i].key
    BY <1>1, <1>2, <2>1, KeysAreNumbers DEF KeysFollow
  <2> QED  BY <2>2, <2>3, <2>4 DEF KeysFollow
<1> QED  BY <1>3, <1>4

LEMMA OutsidersStep ==
  ASSUME Typed, UpdatesHold, ItemsCount, TasksAreOld, KeysFollow, OutsidersHoldNoCurrentKey,
         VaultAct, Learns, Rest'
  PROVE  OutsidersHoldNoCurrentKey'
<1> SUFFICES ASSUME ~rekeyAsked', NEW u \in Staff, level'[u] \notin Reveals
             PROVE  /\ knows'[u].coll < collKey'
                    /\ \A i \in Entries : item'[i].under = collKey'
                                            => knows'[u].item[i] # item'[i].key
  BY DEF OutsidersHoldNoCurrentKey, Holders
<1>1. knows'[u].coll = knows[u].coll
  <2>1. sealed'[u] = 0  BY DEF Rest
  <2>2. knows'[u].coll = IF Entitled(u)' /\ sealed'[u] > knows[u].coll
                         THEN sealed'[u] ELSE knows[u].coll
    BY Learning DEF Rest
  <2> QED  BY <2>1, <2>2, KeysAreNumbers
<1>2. \A i \in Entries : knows'[u].item[i] = knows[u].item[i]
  BY Learning DEF Rest, CanOpen, MayReveal
<1>3. ASSUME NEW w \in Staff, RekeyCommit(w)
      PROVE  /\ knows'[u].coll < collKey'
             /\ \A i \in Entries : item'[i].under = collKey'
                                     => knows'[u].item[i] # item'[i].key
  <2>1. /\ collKey' = collKey + 1
        /\ \A i \in Entries :
             \/ item'[i].under = collKey + 1 /\ item'[i].key = item[i].key + 1
             \/ item'[i] = item[i]
    BY <1>3, RekeyedKeys
  <2>2. knows'[u].coll < collKey'  BY <1>1, <2>1, KeysAreNumbers DEF KeysFollow
  <2>3. \A i \in Entries : item'[i].under = collKey' => knows'[u].item[i] # item'[i].key
    BY <1>2, <2>1, KeysAreNumbers DEF KeysFollow
  <2> QED  BY <2>2, <2>3
<1>4. CASE \A w \in Staff : ~RekeyCommit(w)
  <2>1. ~rekeyAsked /\ u \in Staff \ Holders  BY <1>4, HoldersStay
  <2>2. /\ knows[u].coll < collKey
        /\ \A i \in Entries : item[i].under = collKey => knows[u].item[i] # item[i].key
    BY <2>1 DEF OutsidersHoldNoCurrentKey
  <2>3. collKey' = collKey
        /\ \A i \in Entries :
             \/ item'[i].under = item[i].under /\ item'[i].key = item[i].key
             \/ item[i].key = 0 /\ item'[i].key = 1
    BY <1>4, KeysRemain
  <2>4. \A i \in Entries : item'[i].under = collKey' => knows'[u].item[i] # item'[i].key
    BY <1>2, <2>2, <2>3, KeysAreNumbers DEF KeysFollow
  <2> QED  BY <1>1, <2>2, <2>3, <2>4
<1> QED  BY <1>3, <1>4

-----------------------------------------------------------------------------
(* The theorems.                                                           *)

VaultInv ==
  /\ Typed /\ UpdatesHold /\ ItemsCount /\ TasksAreOld /\ NothingOfAbsent
  /\ Wrapped /\ KeysFollow /\ OutsidersHoldNoCurrentKey

LEMMA InitVault == VaultInit => VaultInv
<1> SUFFICES ASSUME VaultInit PROVE VaultInv  OBVIOUS
<1>1. PICK m \in Staff :
        /\ collKey = 1
        /\ level = [u \in Staff |-> IF u = m THEN "manager" ELSE "none"]
        /\ sealed = [u \in Staff |-> IF u = m THEN 1 ELSE 0]
  BY DEF VaultInit
<1>2. /\ item = [i \in Entries |-> AbsentItem] /\ file = [f \in Files |-> AbsentFile]
      /\ box = [i \in Entries |-> [u \in Staff |-> 0]] /\ held = sealed
      /\ task = [u \in Staff |-> None]
      /\ knows = [u \in Staff |-> [coll |-> sealed[u], item |-> [i \in Entries |-> 0]]]
  BY DEF VaultInit
<1>3. \A u \in Staff : \A op : ~Does(u, op)  BY <1>2 DEF Does, Rests
<1>4. UpdatesHold  BY <1>3 DEF UpdatesHold
<1>5. Wrapped
  BY <1>1, <1>2 DEF Wrapped, MembersWrapped, ItemsWrapped, FilesWrapped, SharesWrapped,
                    Reveals, AbsentItem, AbsentFile
<1>6. KeysFollow  BY <1>1, <1>2, <1>3 DEF KeysFollow, AbsentItem
<1>7. OutsidersHoldNoCurrentKey
  BY <1>1, <1>2 DEF OutsidersHoldNoCurrentKey, Holders, Reveals, AbsentItem
<1> QED  BY <1>4, <1>5, <1>6, <1>7, InitTyped, InitItems DEF VaultInv

LEMMA VaultSteps ==
  ASSUME VaultInv, [VaultNext]_vaultVars
  PROVE  VaultInv'
<1>1. ASSUME VaultAct, Learns PROVE VaultInv'
  <2>1. Rest'
    <3>1. PICK u \in Staff :
            MemberStep(u) \/ ItemStep(u) \/ RekeyStep(u) \/ Reload(u) \/ GivesUp(u) \/ SystemStep(u)
      BY <1>1, SomebodyActs DEF VaultInv
    <3>2. CASE Reload(u)
      <4>1. held' \in [Staff -> Keys]
        BY <3>2, MaxKeyType DEF Reload, Typed, VaultInv, VaultTypeOK, Keys
      <4> QED  BY <3>2, <4>1 DEF Reload, rows, Rest, Typed, VaultInv, VaultTypeOK
    <3>3. CASE GivesUp(u)
      BY <3>3 DEF GivesUp, Ends, rows, Rest, Typed, VaultInv, VaultTypeOK
    <3> QED
      BY <3>1, <3>2, <3>3, MembersAreTyped, SystemIsTyped, ItemsAreTyped, RekeyIsTyped
         DEF VaultInv
  <2>2. Typed'  BY <1>1, <2>1, RestIsEnough DEF VaultInv
  <2>3. UpdatesHold'  BY <1>1, UpdatesHoldStep DEF VaultInv
  <2>4. ItemsCount' /\ TasksAreOld' /\ NothingOfAbsent'
    BY <1>1, ItemsCountStep, TasksAreOldStep, NothingOfAbsentStep DEF VaultInv
  <2>5. Wrapped'  BY <1>1, WrappedStep DEF VaultInv
  <2>6. KeysFollow'  BY <1>1, <2>1, KeysFollowStep DEF VaultInv
  <2>7. OutsidersHoldNoCurrentKey'  BY <1>1, <2>1, OutsidersStep DEF VaultInv
  <2> QED  BY <2>2, <2>3, <2>4, <2>5, <2>6, <2>7 DEF VaultInv
<1>2. CASE UNCHANGED vaultVars
  <2>1. Typed'  BY <1>2 DEF VaultInv, Typed, VaultTypeOK, vaultVars, rows
  <2>2. UpdatesHold'  BY <1>2 DEF VaultInv, UpdatesHold, Does, Rests, vaultVars, rows
  <2>3. ItemsCount'  BY <1>2 DEF VaultInv, ItemsCount, vaultVars, rows
  <2>4. TasksAreOld'  BY <1>2 DEF VaultInv, TasksAreOld, IsPast, Does, Rests, vaultVars, rows
  <2>5. NothingOfAbsent'  BY <1>2 DEF VaultInv, NothingOfAbsent, vaultVars, rows
  <2>6. Wrapped'
    BY <1>2 DEF VaultInv, Wrapped, MembersWrapped, ItemsWrapped, FilesWrapped, SharesWrapped,
                vaultVars, rows
  <2>7. KeysFollow'  BY <1>2 DEF VaultInv, KeysFollow, Does, Rests, vaultVars, rows
  <2>8. OutsidersHoldNoCurrentKey'
    BY <1>2 DEF VaultInv, OutsidersHoldNoCurrentKey, Holders, vaultVars, rows
  <2> QED  BY <2>1, <2>2, <2>3, <2>4, <2>5, <2>6, <2>7, <2>8 DEF VaultInv
<1> QED  BY <1>1, <1>2 DEF VaultNext

LEMMA VaultInvariant == VaultSpec => []VaultInv
BY InitVault, VaultSteps, PTL DEF VaultSpec

\* Every row, task and history keeps its type, and an envelope exists exactly for a right
\* to reveal.
THEOREM VaultTypeCorrect == VaultSpec => []VaultTypeOK
<1>1. VaultInv => VaultTypeOK  BY DEF VaultInv, Typed
<1> QED  BY <1>1, VaultInvariant, PTL

\* Whatever is in use opens with the present keys unless it was wrapped with keys already
\* replaced: the comparisons of a re-key leave nothing in use behind.
THEOREM NobodyStranded == VaultSpec => []StrandedOnlyByCrossing
<1>1. VaultInv => StrandedOnlyByCrossing
  <2> SUFFICES ASSUME VaultInv PROVE Behind \subseteq crossed  BY DEF StrandedOnlyByCrossing
  <2>1. {MemberW(u) : u \in {v \in Holders : sealed[v] # collKey}} \subseteq crossed
    BY DEF VaultInv, Wrapped, MembersWrapped, Holders
  <2>2. {ItemW(i) : i \in {j \in Live : item[j].under # collKey}} \subseteq crossed
    BY DEF VaultInv, Wrapped, ItemsWrapped, Live
  <2>3. {FileW(f) : f \in {g \in Files : file[g].item \in Live
                                         /\ file[g].under # item[file[g].item].key}}
          \subseteq crossed
    BY NoneIsNoItem DEF VaultInv, Wrapped, FilesWrapped, Live
  <2>4. UNION {{ShareW(i, u) : u \in {v \in RecipientsOf(i) : box[i][v] # item[i].key}}
                 : i \in Live} \subseteq crossed
    BY DEF VaultInv, Wrapped, SharesWrapped, Live, RecipientsOf
  <2> QED  BY <2>1, <2>2, <2>3, <2>4 DEF Behind
<1> QED  BY <1>1, VaultInvariant, PTL

\* An item holds every accepted change: the version a save and a re-key compare is
\* enough, since one version of an item never has two contents.
THEOREM ChangesStay == VaultSpec => []NothingOverwritten
<1>1. VaultInv => NothingOverwritten  BY DEF VaultInv, ItemsCount, NothingOverwritten
<1> QED  BY <1>1, VaultInvariant, PTL

\* Whoever has lost the right to reveal, by a removal, a smaller right, an account that
\* is closed or the sweep of what has expired, knows no present key unless a re-key is
\* asked for.  A membership that has expired and is not yet swept is no such loss.
THEOREM OutsidersLockedOut == VaultSpec => []OutsidersHoldNoCurrentKey
<1>1. VaultInv => OutsidersHoldNoCurrentKey  BY DEF VaultInv
<1> QED  BY <1>1, VaultInvariant, PTL
=============================================================================
