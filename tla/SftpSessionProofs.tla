------------------------- MODULE SftpSessionProofs -------------------------
(***************************************************************************)
(* Theorems about SftpSession: its types, what its items say, that its     *)
(* listings are whole, the handles it leaves open, and the order of its    *)
(* items, for any names, any number of opens and of changes by other       *)
(* clients.                                                                *)
(***************************************************************************)
EXTENDS SftpSession, SequenceTheorems, TLAPS

Dirs == [Names -> Kind \cup {Absent}]

(* A handle is open only if it is the current one or was replaced.         *)
HandleInv ==
  \A h \in Handle : handle[h] = "open" => h = sftp_handle \/ h \in replaced

(* During a call, what is there has been seen, and the name of a file: is  *)
(* a string.                                                               *)
SeenInv ==
  /\ pc \in {"stat", "readdir"} => Entries \subseteq seen
  /\ pc = "stat" => path \in Names \ Undecodable

(* A listing so far has what was handed over and is to be shown, once.     *)
Shown ==
  /\ \A i \in 1 .. Len(ret) :
       ret[i].name # NIL => ret[i].name \in handed \ Hidden
  /\ \A n \in handed \ (Hidden \cup Undecodable) :
       \E i \in 1 .. Len(ret) : ret[i].name = n

Distinct ==
  \A i, j \in 1 .. Len(ret) :
    i # j /\ ret[i].name # NIL => ret[i].name # ret[j].name

ListInv ==
  /\ handed # {} => pc \in {"readdir", "idle"}
  /\ handed # {} \/ pc = "readdir" => Shown
  /\ handed # {} /\ pc = "idle" => stayed \subseteq handed
  /\ pc = "stat" => ret = <<>> /\ handed = {}
  /\ Distinct

-----------------------------------------------------------------------------
(* An item is an item.                                                     *)
LEMMA ItemTyped ==
  \A n \in Names, d \in BOOLEAN : Item(n, d) \in Items
BY DEF Item, Items, Decoded

(* Its flag is a Boolean, whatever the kind.                               *)
LEMMA FlagTyped ==
  ASSUME NEW kind, NEW permissions \in BOOLEAN
  PROVE  IsDirectory(kind, permissions) \in BOOLEAN
BY DEF IsDirectory

(* What is there at the far end is made of names and kinds.                *)
LEMMA EntriesTyped ==
  ASSUME remote \in Dirs
  PROVE  Entries \subseteq Names \X Kind /\ Present \subseteq Names
BY DEF Entries, Present, Dirs, Kind, Absent

(* The steps keep the types (MPSftpSession.m:21-136).                      *)
THEOREM SftpTypeCorrect == Spec => []TypeOK
<1> USE SftpAssumption
<1>1. Init => TypeOK
  <2> SUFFICES ASSUME Init PROVE TypeOK
    OBVIOUS
  <2>1. ret \in Seq(Items)
    BY DEF Init
  <2>2. lost \in BOOLEAN /\ seen \subseteq Names \X Kind
    BY Zenon DEF Init
  <2>3. /\ opens \in 0 .. MaxOpens /\ sftp_handle = 0
        /\ sftp_handle \in 0 .. opens /\ changes \in 0 .. MaxChanges
    BY DEF Init
  <2>4. /\ handle \in [Handle -> {"none", "open", "closed"}]
        /\ pc \in {"idle", "stat", "readdir", "gone"}
    BY DEF Init
  <2>5. /\ remote \in [Names -> Kind \cup {Absent}] /\ path = NIL
        /\ stayed = {} /\ handed = {} /\ replaced = {}
    BY Zenon DEF Init
  <2>6. QED
    BY <2>1, <2>2, <2>3, <2>4, <2>5, Zenon DEF TypeOK
<1>2. TypeOK /\ [Next]_vars => TypeOK'
  <2> SUFFICES ASSUME TypeOK, [Next]_vars PROVE TypeOK'
    OBVIOUS
  <2> USE DEF TypeOK, Handle
  <2>0. Entries \subseteq Names \X Kind /\ Present \subseteq Names
    BY EntriesTyped DEF Dirs
  <2>1. CASE OpenFails
    BY <2>1 DEF OpenFails, NotOpened, Replace, Forget
  <2>2. ASSUME NEW n \in Names, FileOpens(n) PROVE TypeOK'
    BY <2>0, <2>2 DEF FileOpens, Opened, Replace, Begin
  <2>3. CASE FileStat
    <3>1. PICK kind \in Followed, permissions \in BOOLEAN :
            ret' = <<[name |-> path,
                      directory |-> IsDirectory(kind, permissions)]>>
      BY <2>3 DEF FileStat
    <3>2. IsDirectory(kind, permissions) \in BOOLEAN
      BY FlagTyped
    <3>3. [name |-> path, directory |-> IsDirectory(kind, permissions)] \in Items
      BY <3>2 DEF Items
    <3>4. ret' \in Seq(Items)
      BY <3>1, <3>3
    <3>5. QED
      BY <2>3, <3>4 DEF FileStat, farEnd, handles
  <2>4. CASE FileStatFails
    BY <2>4 DEF FileStatFails, farEnd, handles
  <2>5. CASE DirectoryOpens
    BY <2>0, <2>5 DEF DirectoryOpens, Opened, Replace, Begin
  <2>6. ASSUME NEW n \in Names, NEW kind \in Kind, NEW permissions \in BOOLEAN,
               ReaddirEntry(n, kind, permissions)
        PROVE  TypeOK'
    <3>0. IsDirectory(kind, permissions) \in BOOLEAN
      BY FlagTyped
    <3>1. Item(n, IsDirectory(kind, permissions)) \in Items
      BY <3>0, ItemTyped
    <3>2. ret' \in Seq(Items)
      BY <2>6, <3>1 DEF ReaddirEntry
    <3>3. QED
      BY <2>6, <3>2 DEF ReaddirEntry, farEnd, handles
  <2>7. CASE ReaddirEnds
    BY <2>7 DEF ReaddirEnds, farEnd, handles
  <2>8. CASE ReaddirFails
    BY <2>8 DEF ReaddirFails, handles
  <2>9. CASE Dealloc
    BY <2>9 DEF Dealloc, Forget
  <2>10. CASE ConnectionLost
    BY <2>10 DEF ConnectionLost, handles
  <2>11. ASSUME NEW n \in Names, NEW kind \in Kind \cup {Absent},
                OtherChanges(n, kind)
         PROVE  TypeOK'
    BY <2>11 DEF OtherChanges, handles
  <2>12. CASE UNCHANGED vars
    BY <2>12 DEF vars, farEnd, handles
  <2>13. QED
    BY <2>1, <2>2, <2>3, <2>4, <2>5, <2>6, <2>7, <2>8, <2>9, <2>10, <2>11,
       <2>12 DEF Next, Readdir
<1>3. QED
  BY <1>1, <1>2, PTL DEF Spec

-----------------------------------------------------------------------------
(* dealloc leaves open only what another call has taken the place of       *)
(* (MPSftpSession.m:41, 77 and 125-136).                                   *)
THEOREM OnlyReplacedLeak == Spec => []LeftOpenWereReplaced
<1> DEFINE IInv == HandleInv /\ (pc = "gone" => sftp_handle = 0)
<1>1. Init => IInv
  BY DEF Init, HandleInv
<1>2. TypeOK /\ IInv /\ [Next]_vars => IInv'
  <2> SUFFICES ASSUME TypeOK, IInv, [Next]_vars PROVE IInv'
    OBVIOUS
  <2>0. /\ opens \in Nat /\ sftp_handle \in Nat
        /\ DOMAIN handle = Handle
        /\ handle \in [Handle -> {"none", "open", "closed"}]
    BY SftpAssumption DEF TypeOK
  <2> USE DEF HandleInv, Handle
  <2>1. ASSUME Opened, pc' # "gone" PROVE IInv'
    BY <2>0, <2>1 DEF Opened, Replace
  <2>2. CASE OpenFails
    BY <2>0, <2>2 DEF OpenFails, NotOpened, Replace
  <2>3. CASE \E n \in Names : FileOpens(n)
    BY <2>1, <2>3 DEF FileOpens
  <2>4. CASE DirectoryOpens
    BY <2>1, <2>4 DEF DirectoryOpens
  <2>5. CASE Dealloc
    BY <2>0, <2>5 DEF Dealloc
  <2>6. ASSUME UNCHANGED handles, pc' = "gone" => pc = "gone" PROVE IInv'
    BY <2>6 DEF handles
  <2>7. CASE FileStat \/ FileStatFails
    BY <2>6, <2>7 DEF FileStat, FileStatFails
  <2>8. CASE Readdir
    BY <2>6, <2>8 DEF Readdir, ReaddirEntry, ReaddirEnds, ReaddirFails
  <2>9. CASE ConnectionLost
    BY <2>6, <2>9 DEF ConnectionLost
  <2>10. CASE \E n \in Names, kind \in Kind \cup {Absent} : OtherChanges(n, kind)
    BY <2>6, <2>10 DEF OtherChanges
  <2>11. CASE UNCHANGED vars
    BY <2>6, <2>11 DEF vars
  <2>12. QED
    BY <2>2, <2>3, <2>4, <2>5, <2>7, <2>8, <2>9, <2>10, <2>11 DEF Next
<1>3. IInv => LeftOpenWereReplaced
  BY DEF HandleInv, LeftOpenWereReplaced, Handle
<1>4. QED
  BY <1>1, <1>2, <1>3, SftpTypeCorrect, PTL DEF Spec

-----------------------------------------------------------------------------
(* What is said of an item holds on when more is seen.                     *)
LEMMA SeenGrows ==
  ASSUME ItemsWereThere, ret' = ret, seen \subseteq seen'
  PROVE  ItemsWereThere'
BY DEF ItemsWereThere, Decoded

(* An item speaks of what was there during the call, whatever other        *)
(* clients do between its steps (MPSftpSession.m:41-66 and 86-110).        *)
THEOREM ItemsTellWhatWas == Spec => []ItemsWereThere
<1> DEFINE IInv == SeenInv /\ ItemsWereThere
<1>1. Init => IInv
  BY DEF Init, SeenInv, ItemsWereThere
<1>2. TypeOK /\ IInv /\ [Next]_vars => IInv'
  <2> SUFFICES ASSUME TypeOK, IInv, [Next]_vars PROVE IInv'
    OBVIOUS
  <2>0. remote \in Dirs /\ ret \in Seq(Items)
    BY DEF TypeOK, Dirs
  <2>1. ASSUME ret' = <<>> PROVE ItemsWereThere'
    BY <2>1 DEF ItemsWereThere
  <2>2. ASSUME remote' = remote, seen' = seen, path' = path, pc' = pc
        PROVE  SeenInv'
    BY <2>2 DEF SeenInv, Entries, Present
  <2>3. ASSUME pc' \in {"idle", "gone"} PROVE SeenInv'
    BY <2>3 DEF SeenInv
  <2>4. CASE OpenFails \/ Dealloc
    <3>1. ret' = <<>> /\ pc' \in {"idle", "gone"}
      BY <2>4 DEF OpenFails, Dealloc, Forget
    <3>2. QED
      BY <2>1, <2>3, <3>1
  <2>5. ASSUME NEW n \in Names, FileOpens(n) PROVE IInv'
    <3>1. ret' = <<>> /\ seen' = Entries /\ remote' = remote
      BY <2>5 DEF FileOpens, Begin
    <3>2. path' = n /\ n \notin Undecodable
      BY <2>5 DEF FileOpens
    <3>3. SeenInv'
      BY <3>1, <3>2 DEF SeenInv, Entries, Present
    <3>4. QED
      BY <2>1, <3>1, <3>3
  <2>6. CASE DirectoryOpens
    <3>1. ret' = <<>> /\ seen' = Entries /\ remote' = remote /\ pc' = "readdir"
      BY <2>6 DEF DirectoryOpens, Begin
    <3>2. SeenInv'
      BY <3>1 DEF SeenInv, Entries, Present
    <3>3. QED
      BY <2>1, <3>1, <3>2
  <2>7. CASE FileStat
    <3>1. PICK kind \in Followed, permissions \in BOOLEAN :
            ret' = <<[name |-> path,
                      directory |-> IsDirectory(kind, permissions)]>>
      BY <2>7 DEF FileStat
    <3>2. <<path, remote[path]>> \in seen' /\ path \in Names \ Undecodable
      BY <2>0, <2>7 DEF FileStat, farEnd, SeenInv, Entries, Present, Dirs
    <3>3. Decoded(path) = path
      BY <3>2 DEF Decoded
    <3>4. IsDirectory(kind, permissions) => remote[path] # "file"
      BY <3>1 DEF IsDirectory, Followed
    <3>5. ItemsWereThere'
      BY <3>1, <3>2, <3>3, <3>4 DEF ItemsWereThere, Decoded
    <3>6. QED
      BY <2>3, <2>7, <3>5 DEF FileStat
  <2>8. CASE FileStatFails \/ ReaddirEnds \/ ReaddirFails
    <3>1. ret' = ret /\ seen' = seen /\ pc' = "idle"
      BY <2>8 DEF FileStatFails, ReaddirEnds, ReaddirFails, farEnd
    <3>2. QED
      BY <2>3, <3>1, SeenGrows
  <2>9. ASSUME NEW n \in Names, NEW kind \in Kind, NEW permissions \in BOOLEAN,
               ReaddirEntry(n, kind, permissions)
        PROVE  IInv'
    <3> DEFINE item == Item(n, IsDirectory(kind, permissions))
    <3>1. /\ remote' = remote /\ seen' = seen /\ path' = path /\ pc' = pc
          /\ <<n, kind>> \in seen
          /\ ret' = ret \/ ret' = Append(ret, item)
      BY <2>9 DEF ReaddirEntry, farEnd
    <3>2. /\ item.name = Decoded(n)
          /\ item.directory => kind # "file"
      BY DEF Item, IsDirectory
    <3>3. CASE ret' = Append(ret, item)
      <4>1. ASSUME NEW i \in 1 .. Len(ret')
            PROVE  \E entry \in seen : /\ ret'[i].name = Decoded(entry[1])
                                       /\ ret'[i].directory => entry[2] # "file"
        <5>0. Len(ret) \in Nat /\ Len(ret') = Len(ret) + 1
          BY <2>0, <3>3
        <5>1. CASE i = Len(ret) + 1
          <6>1. ret'[i] = item
            BY <2>0, <3>3, <5>1
          <6>2. QED
            BY <3>1, <3>2, <6>1
        <5>2. CASE i # Len(ret) + 1
          <6>1. i \in 1 .. Len(ret)
            BY <4>1, <5>0, <5>2
          <6>2. ret'[i] = ret[i]
            BY <2>0, <3>3, <6>1
          <6>3. QED
            BY <6>1, <6>2 DEF ItemsWereThere
        <5>3. QED
          BY <5>1, <5>2
      <4>2. QED
        BY <2>2, <3>1, <4>1 DEF ItemsWereThere, Decoded
    <3>4. CASE ret' = ret
      BY <2>2, <3>1, <3>4, SeenGrows
    <3>5. QED
      BY <3>1, <3>3, <3>4
  <2>10. CASE ConnectionLost
    <3>1. remote' = remote /\ seen' = seen /\ path' = path /\ pc' = pc
          /\ ret' = ret
      BY <2>10 DEF ConnectionLost
    <3>2. QED
      BY <2>2, <3>1, SeenGrows
  <2>11. ASSUME NEW n \in Names, NEW kind \in Kind \cup {Absent},
                OtherChanges(n, kind)
         PROVE  IInv'
    <3>1. /\ ret' = ret /\ path' = path /\ pc' = pc
          /\ remote' = [remote EXCEPT ![n] = kind]
          /\ seen' = seen \cup (IF kind = Absent THEN {} ELSE {<<n, kind>>})
          /\ pc \in {"stat", "readdir"}
      BY <2>11 DEF OtherChanges
    <3>2. Entries' \subseteq seen'
      BY <2>0, <3>1 DEF SeenInv, Entries, Present, Dirs
    <3>3. SeenInv'
      BY <3>1, <3>2 DEF SeenInv
    <3>4. QED
      BY <3>1, <3>3, SeenGrows
  <2>12. CASE UNCHANGED vars
    <3>1. remote' = remote /\ seen' = seen /\ path' = path /\ pc' = pc
          /\ ret' = ret
      BY <2>12 DEF vars, farEnd
    <3>2. QED
      BY <2>2, <3>1, SeenGrows
  <2>13. QED
    BY <2>4, <2>5, <2>6, <2>7, <2>8, <2>9, <2>10, <2>11, <2>12
    DEF Next, Readdir
<1>3. QED
  BY <1>1, <1>2, SftpTypeCorrect, PTL DEF Spec

-----------------------------------------------------------------------------
(* compare: places any two items that have names by kind and then by name. *)
LEMMA CompareIsOrder ==
  ASSUME NEW a \in Items, NEW b \in Items, a.name # NIL, b.name # NIL
  PROVE  LET Place(item) == <<IF item.directory THEN 0 ELSE 1, Rank[item.name]>>
             Before(p, q) == p[1] < q[1] \/ (p[1] = q[1] /\ p[2] < q[2])
         IN /\ Compare(a, b) = -1 <=> Before(Place(a), Place(b))
            /\ Compare(a, b) = 1 <=> Before(Place(b), Place(a))
<1>1. /\ a.directory \in BOOLEAN /\ b.directory \in BOOLEAN
      /\ Rank[a.name] \in Nat /\ Rank[b.name] \in Nat
  BY SftpAssumption DEF Items
<1>2. CASE a.directory = b.directory
  BY <1>1, <1>2 DEF Compare, CompareNames
<1>3. CASE a.directory /\ ~b.directory
  BY <1>1, <1>3 DEF Compare, CompareNames
<1>4. CASE ~a.directory /\ b.directory
  BY <1>1, <1>4 DEF Compare, CompareNames
<1>5. QED
  BY <1>1, <1>2, <1>3, <1>4

(* Any listing can be sorted by compare: (MPSftpItem.m:16-24).             *)
THEOREM ListingsSort == Spec => []CompareOrders
<1>1. TypeOK => CompareOrders
  <2> SUFFICES ASSUME TypeOK, NEW i \in 1 .. Len(ret), NEW j \in 1 .. Len(ret),
                      ret[i].name # NIL, ret[j].name # NIL
               PROVE  LET Place(item) == <<IF item.directory THEN 0 ELSE 1,
                                           Rank[item.name]>>
                          Before(p, q) == \/ p[1] < q[1]
                                          \/ (p[1] = q[1] /\ p[2] < q[2])
                      IN /\ Compare(ret[i], ret[j]) = -1
                              <=> Before(Place(ret[i]), Place(ret[j]))
                         /\ Compare(ret[i], ret[j]) = 1
                              <=> Before(Place(ret[j]), Place(ret[i]))
    BY DEF CompareOrders
  <2>1. ret[i] \in Items /\ ret[j] \in Items
    BY DEF TypeOK
  <2>2. QED
    BY <2>1, CompareIsOrder
<1>2. QED
  BY <1>1, SftpTypeCorrect, PTL

-----------------------------------------------------------------------------
(* A listing that ran to the end lacks nothing that stayed and has a name  *)
(* to show, has nothing hidden and nothing twice (MPSftpSession.m:86-118). *)
THEOREM ListingsAreWhole == Spec => []ListsWhatStayed
<1>1. Init => ListInv
  BY DEF Init, ListInv, Shown, Distinct
<1>2. TypeOK /\ ListInv /\ [Next]_vars => ListInv'
  <2> SUFFICES ASSUME TypeOK, ListInv, [Next]_vars PROVE ListInv'
    OBVIOUS
  <2>0. /\ ret \in Seq(Items) /\ NIL \notin Names /\ Hidden \subseteq Names
        /\ handed \subseteq Names
    BY SftpAssumption DEF TypeOK
  <2>1. ASSUME ret' = <<>>, handed' = {} PROVE ListInv'
    BY <2>1 DEF ListInv, Shown, Distinct
  <2>2. ASSUME ret' = ret, handed' = handed, pc' = pc,
               stayed' \subseteq stayed
        PROVE  ListInv'
    BY <2>2 DEF ListInv, Shown, Distinct
  <2>3. CASE OpenFails \/ Dealloc \/ DirectoryOpens
    BY <2>1, <2>3 DEF OpenFails, Dealloc, DirectoryOpens, Forget, Begin
  <2>4. ASSUME NEW n \in Names, FileOpens(n) PROVE ListInv'
    BY <2>1, <2>4 DEF FileOpens, Begin
  <2>5. CASE FileStat
    <3>1. handed' = {} /\ Len(ret') = 1 /\ pc' = "idle"
      BY <2>5 DEF FileStat, ListInv
    <3>2. QED BY <3>1 DEF ListInv, Shown, Distinct
  <2>6. CASE FileStatFails
    <3>1. handed' = {} /\ ret' = <<>>
      BY <2>6 DEF FileStatFails, ListInv
    <3>2. QED BY <2>1, <3>1
  <2>7. CASE ReaddirEnds
    BY <2>7 DEF ReaddirEnds, ListInv, Shown, Distinct, farEnd
  <2>8. CASE ReaddirFails
    BY <2>8 DEF ReaddirFails, ListInv, Shown, Distinct
  <2>9. ASSUME NEW n \in Names, NEW kind \in Kind, NEW permissions \in BOOLEAN,
               ReaddirEntry(n, kind, permissions)
        PROVE  ListInv'
    <3> DEFINE item == Item(n, IsDirectory(kind, permissions))
    <3>1. /\ pc = "readdir" /\ pc' = "readdir" /\ n \notin handed
          /\ handed' = handed \cup {n}
          /\ ret' = IF item.name \in Hidden THEN ret ELSE Append(ret, item)
      BY <2>9 DEF ReaddirEntry
    <3>2. item.name = IF n \in Undecodable THEN NIL ELSE n
      BY DEF Item, Decoded
    <3>3. Len(ret) \in Nat
      BY <2>0
    <3>4. CASE item.name \in Hidden
      <4>1. ret' = ret /\ n \in Hidden
        BY <2>0, <3>1, <3>2, <3>4
      <4>2. QED BY <3>1, <4>1 DEF ListInv, Shown, Distinct
    <3>5. CASE item.name \notin Hidden
      <4>1. /\ Len(ret') = Len(ret) + 1 /\ ret'[Len(ret) + 1] = item
            /\ \A i \in 1 .. Len(ret) : ret'[i] = ret[i]
        <5>1. item \in Items
          BY DEF Item, Items, Decoded, IsDirectory
        <5>2. ret' = Append(ret, item)
          BY <3>1, <3>5
        <5> HIDE DEF item
        <5>3. QED BY <2>0, <5>1, <5>2, AppendProperties
      <4>2. \A i \in 1 .. Len(ret') : i \in 1 .. Len(ret) \/ i = Len(ret) + 1
        BY <3>3, <4>1
      <4> HIDE DEF item
      <4>3. Shown'
        <5>1. ASSUME NEW i \in 1 .. Len(ret'), ret'[i].name # NIL
              PROVE  ret'[i].name \in handed' \ Hidden
          BY <3>1, <3>2, <3>5, <4>1, <4>2, <5>1 DEF ListInv, Shown
        <5>2. ASSUME NEW m \in handed' \ (Hidden \cup Undecodable)
              PROVE  \E i \in 1 .. Len(ret') : ret'[i].name = m
          <6>1. CASE m = n
            <7>1. ret'[Len(ret) + 1].name = m
              BY <3>2, <4>1, <5>2, <6>1
            <7>2. QED BY <3>3, <4>1, <7>1
          <6>2. CASE m # n
            <7>1. PICK i \in 1 .. Len(ret) : ret[i].name = m
              BY <3>1, <5>2, <6>2 DEF ListInv, Shown
            <7>2. i \in 1 .. Len(ret')
              BY <3>3, <4>1
            <7>3. QED BY <4>1, <7>1, <7>2
          <6>3. QED BY <6>1, <6>2
        <5>3. QED BY <5>1, <5>2 DEF Shown
      <4>4. Distinct'
        <5>1. \A i \in 1 .. Len(ret) : ret[i].name # NIL => ret[i].name # n
          BY <3>1 DEF ListInv, Shown
        <5>2. SUFFICES ASSUME NEW i \in 1 .. Len(ret'),
                              NEW j \in 1 .. Len(ret'),
                              i # j, ret'[i].name # NIL
                       PROVE  ret'[i].name # ret'[j].name
          BY DEF Distinct
        <5>3. CASE i \in 1 .. Len(ret) /\ j \in 1 .. Len(ret)
          BY <4>1, <5>2, <5>3 DEF ListInv, Distinct
        <5>4. CASE i = Len(ret) + 1 /\ j \in 1 .. Len(ret)
          BY <3>2, <4>1, <5>1, <5>2, <5>4
        <5>5. CASE i \in 1 .. Len(ret) /\ j = Len(ret) + 1
          BY <3>2, <4>1, <5>1, <5>2, <5>5
        <5>6. QED BY <4>2, <5>2, <5>3, <5>4, <5>5
      <4>5. QED BY <3>1, <4>3, <4>4 DEF ListInv
    <3>6. QED BY <3>4, <3>5
  <2>10. CASE ConnectionLost
    BY <2>2, <2>10 DEF ConnectionLost
  <2>11. ASSUME NEW n \in Names, NEW kind \in Kind \cup {Absent},
                OtherChanges(n, kind)
         PROVE  ListInv'
    BY <2>2, <2>11 DEF OtherChanges
  <2>12. CASE UNCHANGED vars
    BY <2>2, <2>12 DEF vars, farEnd
  <2>13. QED
    BY <2>3, <2>4, <2>5, <2>6, <2>7, <2>8, <2>9, <2>10, <2>11, <2>12
    DEF Next, Readdir
<1>3. ListInv => ListsWhatStayed
  BY SftpAssumption DEF ListInv, Shown, Distinct, ListsWhatStayed
<1>4. QED
  BY <1>1, <1>2, <1>3, SftpTypeCorrect, PTL DEF Spec
=============================================================================
