---------------------------- MODULE SftpSession ----------------------------
(***************************************************************************)
(* One MPSftpSession (MPSftpSession.m): file:, filesInDirectory: and       *)
(* dealloc, over one directory of the far end that other clients change    *)
(* meanwhile, and the order of MPSftpItem's compare:.                      *)
(*                                                                         *)
(* The calls are made by one thread; a step is one call of libssh2, so     *)
(* that the other clients' steps fall between.  libssh2 and the far end    *)
(* are external: an open may be refused, readdir hands over each name at   *)
(* most once and every name that is there throughout, with attributes it   *)
(* had at some time during the call, unless it fails first (the connection *)
(* is lost, a name is longer than the 512 bytes of mem).  EAGAIN goes      *)
(* round the loop with nothing changed, and does not occur in the blocking *)
(* mode that connect sets.  Sizes are left out.                            *)
(***************************************************************************)
EXTENDS Integers, Sequences

CONSTANTS
  Names,         \* names an entry of the directory may have
  Hidden,        \* those that begin with "."
  Undecodable,   \* those that are not UTF-8: @(mem) is nil for them
  Rank,          \* their places in the case-insensitive order
  NIL,           \* nil, as a name
  MaxOpens,      \* bound: files and directories opened
  MaxChanges     \* bound: changes by other clients

ASSUME SftpAssumption ==
  /\ Hidden \subseteq Names /\ Undecodable \subseteq Names
  /\ Rank \in [Names -> Nat]
  /\ NIL \notin Names
  /\ MaxOpens \in Nat /\ MaxChanges \in Nat

Kind == {"file", "dir", "link"}
Absent == "absent"
Handle == 1 .. MaxOpens

VARIABLES
  remote,        \* the directory at the far end
  changes,       \* changes by other clients so far
  lost,          \* the connection is lost
  handle,        \* what became of each handle libssh2 opened
  opens,         \* handles opened so far
  sftp_handle,   \* the property, 0 for NULL
  pc,            \* where the thread is
  path,          \* argument of file: while it runs
  ret,           \* the items returned, or about to be
  \* history
  seen,          \* name and kind of what was there at some time in the call
  stayed,        \* names that were there all the time since opendir, none
                 \* once readdir has failed
  handed,        \* names readdir has handed over
  replaced       \* handles whose place in sftp_handle another call took

farEnd == <<remote, changes, lost, seen, stayed>>
handles == <<handle, opens, sftp_handle, replaced>>
vars == <<farEnd, handles, pc, path, ret, handed>>

Present == {n \in Names : remote[n] # Absent}
Entries == {<<n, remote[n]>> : n \in Present}

Init ==
  /\ remote \in [Names -> Kind \cup {Absent}]
  /\ changes = 0
  /\ lost = FALSE
  /\ handle = [h \in Handle |-> "none"]
  /\ opens = 0
  /\ sftp_handle = 0
  /\ pc = "idle"
  /\ path = NIL
  /\ ret = <<>>
  /\ seen = {}
  /\ stayed = {}
  /\ handed = {}
  /\ replaced = {}

-----------------------------------------------------------------------------
(* self.sftp_handle = what an open returned, whatever it held before.      *)
Replace == replaced' = replaced \cup ({sftp_handle} \ {0})

Opened ==
  /\ ~lost
  /\ opens < MaxOpens
  /\ opens' = opens + 1
  /\ handle' = [handle EXCEPT ![opens'] = "open"]
  /\ sftp_handle' = opens'
  /\ Replace

NotOpened ==
  /\ sftp_handle' = 0
  /\ Replace
  /\ UNCHANGED <<handle, opens>>

(* A call begins: what is there now is what it may see.                    *)
Begin == ret' = <<>> /\ handed' = {} /\ seen' = Entries /\ stayed' = Present

(* The items of the last call are its caller's from here on.               *)
Forget == ret' = <<>> /\ handed' = {} /\ seen' = {} /\ stayed' = {}

(* An open that fails: both methods return nil.                            *)
OpenFails ==
  /\ pc = "idle"
  /\ NotOpened
  /\ Forget
  /\ UNCHANGED <<remote, changes, lost, pc, path>>

(* MPSftpItem: the name as @(mem) or nil, and whether it is a directory,   *)
(* as which a link counts; without permissions it is not one.              *)
Decoded(n) == IF n \in Undecodable THEN NIL ELSE n
IsDirectory(kind, permissions) == permissions /\ kind \in {"dir", "link"}
Item(n, d) == [name |-> Decoded(n), directory |-> d]
Items == [name : Names \cup {NIL}, directory : BOOLEAN]

FileOpens(n) ==
  /\ pc = "idle"
  /\ remote[n] # Absent
  /\ n \notin Undecodable
  /\ Opened
  /\ Begin
  /\ path' = n
  /\ pc' = "stat"
  /\ UNCHANGED <<remote, changes, lost>>

(* libssh2_sftp_stat, by the path and not by the handle: what is there by  *)
(* now; it follows a link, which may lead to a file, a directory or no-    *)
(* where.  The name is the path's own, which was a string to begin with.   *)
Followed == IF remote[path] = "link" THEN {"file", "dir"} ELSE {remote[path]}

FileStat ==
  /\ pc = "stat"
  /\ ~lost
  /\ remote[path] # Absent
  /\ \E kind \in Followed, permissions \in BOOLEAN :
       ret' = <<[name |-> path, directory |-> IsDirectory(kind, permissions)]>>
  /\ pc' = "idle"
  /\ path' = NIL
  /\ UNCHANGED <<farEnd, handles, handed>>

FileStatFails ==
  /\ pc = "stat"
  /\ pc' = "idle"
  /\ path' = NIL
  /\ UNCHANGED <<farEnd, handles, ret, handed>>

DirectoryOpens ==
  /\ pc = "idle"
  /\ Opened
  /\ Begin
  /\ pc' = "readdir"
  /\ UNCHANGED <<remote, changes, lost, path>>

(* Mutant of ReaddirEntry: one item is made before the loop and its flag   *)
(* is never set back.                                                      *)
ReaddirKeepsFlag(n, kind, permissions) ==
  /\ pc = "readdir" /\ ~lost /\ n \notin handed /\ <<n, kind>> \in seen
  /\ ret' = IF n \in Hidden \ Undecodable THEN ret
            ELSE Append(ret, Item(n, \/ IsDirectory(kind, permissions)
                                     \/ ret # <<>> /\ ret[1].directory))
  /\ handed' = handed \cup {n}
  /\ UNCHANGED <<farEnd, handles, pc, path>>

(* Mutant of ReaddirEntry: entries without permissions are skipped.        *)
ReaddirSkipsUnknown(n, kind, permissions) ==
  /\ pc = "readdir" /\ ~lost /\ n \notin handed /\ <<n, kind>> \in seen
  /\ ret' = IF n \in Hidden \ Undecodable \/ ~permissions THEN ret
            ELSE Append(ret, Item(n, IsDirectory(kind, permissions)))
  /\ handed' = handed \cup {n}
  /\ UNCHANGED <<farEnd, handles, pc, path>>

(* readdir hands over an entry: rc > 0.  A nil name has no prefix ".".     *)
ReaddirEntry(n, kind, permissions) ==
  /\ pc = "readdir"
  /\ ~lost
  /\ n \notin handed
  /\ <<n, kind>> \in seen
  /\ LET item == Item(n, IsDirectory(kind, permissions))
     IN ret' = IF item.name \in Hidden THEN ret ELSE Append(ret, item)
  /\ handed' = handed \cup {n}
  /\ UNCHANGED <<farEnd, handles, pc, path>>

(* rc = 0: everything that stayed has been handed over.                    *)
ReaddirEnds ==
  /\ pc = "readdir"
  /\ ~lost
  /\ stayed \subseteq handed
  /\ pc' = "idle"
  /\ UNCHANGED <<farEnd, handles, path, ret, handed>>

(* Mutant of ReaddirFails: an error is taken for EAGAIN.                   *)
ReaddirFailsAgain == pc = "readdir" /\ UNCHANGED vars

(* rc < 0, not EAGAIN: the loop ends just the same, and what it has is     *)
(* returned.                                                               *)
ReaddirFails ==
  /\ pc = "readdir"
  /\ pc' = "idle"
  /\ stayed' = {}
  /\ UNCHANGED <<remote, changes, lost, seen, handles, path, ret, handed>>

(* Mutant of Dealloc: the handle is not closed.                            *)
DeallocLeavesHandle ==
  /\ pc = "idle"
  /\ sftp_handle' = 0
  /\ pc' = "gone"
  /\ Forget
  /\ UNCHANGED <<remote, changes, lost, handle, opens, replaced, path>>

(* Mutant of Dealloc: self.sftp_handle = nil is dropped.                   *)
DeallocKeepsHandle ==
  /\ pc = "idle"
  /\ handle' = [h \in Handle |-> IF h = sftp_handle THEN "closed"
                                 ELSE handle[h]]
  /\ pc' = "gone"
  /\ Forget
  /\ UNCHANGED <<remote, changes, lost, sftp_handle, opens, replaced, path>>

(* libssh2_sftp_closedir of the last handle, libssh2_sftp_shutdown.        *)
Dealloc ==
  /\ pc = "idle"
  /\ handle' = [h \in Handle |-> IF h = sftp_handle THEN "closed"
                                 ELSE handle[h]]
  /\ sftp_handle' = 0
  /\ pc' = "gone"
  /\ Forget
  /\ UNCHANGED <<remote, changes, lost, opens, replaced, path>>

(* Another client creates, removes or replaces an entry.  Between calls it *)
(* may too, but a call begins with any directory as it is.                 *)
OtherChanges(n, kind) ==
  /\ pc \in {"stat", "readdir"}
  /\ changes < MaxChanges
  /\ changes' = changes + 1
  /\ remote' = [remote EXCEPT ![n] = kind]
  /\ seen' = seen \cup (IF kind = Absent THEN {} ELSE {<<n, kind>>})
  /\ stayed' = IF kind = Absent THEN stayed \ {n} ELSE stayed
  /\ UNCHANGED <<lost, handles, pc, path, ret, handed>>

(* The connection is lost: from here on libssh2 gives nothing but errors.  *)
ConnectionLost ==
  /\ pc = "readdir"
  /\ lost' = TRUE
  /\ UNCHANGED <<remote, changes, seen, stayed, handles, pc, path, ret, handed>>

-----------------------------------------------------------------------------
(* compare: of MPSftpItem, -1 for NSOrderedAscending, 1 for Descending.    *)
CompareNames(a, b) ==
  IF a = NIL \/ Rank[a] = Rank[b] THEN 0 ELSE IF Rank[a] < Rank[b] THEN -1 ELSE 1

(* Mutant of Compare: one of the two tests is dropped.                     *)
CompareOneTest(a, b) ==
  IF b.directory /\ ~a.directory THEN 1 ELSE CompareNames(a.name, b.name)

Compare(a, b) ==
  CASE b.directory /\ ~a.directory -> 1
    [] ~b.directory /\ a.directory -> -1
    [] OTHER -> CompareNames(a.name, b.name)

-----------------------------------------------------------------------------
Readdir ==
  \/ \E n \in Names, kind \in Kind, permissions \in BOOLEAN :
       ReaddirEntry(n, kind, permissions)
  \/ ReaddirEnds
  \/ ReaddirFails

Next ==
  \/ OpenFails
  \/ \E n \in Names : FileOpens(n)
  \/ FileStat \/ FileStatFails
  \/ DirectoryOpens \/ Readdir
  \/ Dealloc
  \/ ConnectionLost
  \/ \E n \in Names, kind \in Kind \cup {Absent} : OtherChanges(n, kind)

(* The far end answers a readdir, if only by failing.                      *)
Spec == Init /\ [][Next]_vars /\ WF_vars(Readdir)

-----------------------------------------------------------------------------
(* The type invariant; among it, that a handle in sftp_handle is open.     *)
TypeOK ==
  /\ remote \in [Names -> Kind \cup {Absent}]
  /\ changes \in 0 .. MaxChanges
  /\ lost \in BOOLEAN
  /\ handle \in [Handle -> {"none", "open", "closed"}]
  /\ opens \in 0 .. MaxOpens
  /\ sftp_handle \in 0 .. opens
  /\ sftp_handle # 0 => handle[sftp_handle] = "open"
  /\ pc \in {"idle", "stat", "readdir", "gone"}
  /\ path \in Names \cup {NIL}
  /\ ret \in Seq(Items)
  /\ seen \subseteq Names \X Kind
  /\ stayed \subseteq Names /\ handed \subseteq Names
  /\ replaced \subseteq 1 .. opens

(* An item says of a name what was there at some time during the call: a   *)
(* directory is not made of a file, nor an item of what was not there,     *)
(* though other clients change the directory between the open and the stat *)
(* and between one readdir and the next (MPSftpSession.m:41-66, 86-110).   *)
ItemsWereThere ==
  \A i \in 1 .. Len(ret) : \E entry \in seen :
    /\ ret[i].name = Decoded(entry[1])
    /\ ret[i].directory => entry[2] # "file"

(* A listing has, once each, all entries readdir has handed over that have *)
(* a name to show, even when an error then ends it, and no hidden one; if  *)
(* it ran to the end, all that were there throughout                       *)
(* (MPSftpSession.m:86-118).  One that an error ended is returned too, and *)
(* may lack any of those that were not handed over.                        *)
ListsWhatStayed ==
  /\ \A n \in handed \ (Hidden \cup Undecodable) :
       \E i \in 1 .. Len(ret) : ret[i].name = n
  /\ pc = "idle" /\ handed # {} =>
       \A n \in stayed \ (Hidden \cup Undecodable) :
         \E i \in 1 .. Len(ret) : ret[i].name = n
  /\ \A i, j \in 1 .. Len(ret) :
       /\ pc # "stat" /\ handed # {} => ret[i].name \notin Hidden
       /\ i # j /\ ret[i].name # NIL => ret[i].name # ret[j].name

(* The one handle property is enough for the last open: what dealloc       *)
(* leaves open is what a later open, a failed one too, has taken the place *)
(* of (MPSftpSession.m:41, 77 and 125-136).                                *)
LeftOpenWereReplaced ==
  pc = "gone" => \A h \in Handle : handle[h] = "open" => h \in replaced

(* On items that have names compare: is an order, for any sort: directories *)
(* before files, and each by name (MPSftpItem.m:16-24).                    *)
CompareOrders ==
  LET Place(item) == <<IF item.directory THEN 0 ELSE 1, Rank[item.name]>>
      Before(p, q) == p[1] < q[1] \/ (p[1] = q[1] /\ p[2] < q[2])
  IN \A i, j \in 1 .. Len(ret) :
       ret[i].name # NIL /\ ret[j].name # NIL =>
         /\ Compare(ret[i], ret[j]) = -1 <=> Before(Place(ret[i]), Place(ret[j]))
         /\ Compare(ret[i], ret[j]) = 1 <=> Before(Place(ret[j]), Place(ret[i]))

(* filesInDirectory: returns, for every name is handed over once and an    *)
(* error ends the loop as the end does (MPSftpSession.m:86-118).           *)
ListingReturns == (pc = "readdir") ~> (pc = "idle")
=============================================================================
