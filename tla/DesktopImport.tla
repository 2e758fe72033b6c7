--------------------------- MODULE DesktopImport ---------------------------
(***************************************************************************)
(* Files chosen for a Managed Import on the Desktop Client: the core walks *)
(* what the native picker returned, keeps each file under an opaque id     *)
(* with its identity, and uploads it later, maybe more than once           *)
(* (desktop/core desktop_import.rs, web/src/desktop/bridge.ts).  Other     *)
(* programs change the directory between any two of its system calls, and  *)
(* the renderer cancels from another task.                                 *)
(***************************************************************************)
EXTENDS Naturals, FiniteSets

CONSTANTS
  Names,        \* directory entries under the chosen folder
  Hidden,       \* entries that are hidden, or under a hidden directory
  Audio,        \* entries with a supported extension
  Uploads,      \* upload ids
  MaxInode,     \* files created in a behaviour
  MaxSize,      \* bytes of a file
  MaxChanges    \* changes other programs make

VARIABLES
  entry,        \* [Names -> what the directory holds there]
  size,         \* inode -> bytes
  walk,         \* register_paths: entries still to visit and files collected
  chosen,       \* selections: Names -> identity, and the file the listener meant
  upload,       \* [Uploads -> upload_selection]
  token,        \* cancellations
  cancel,       \* [Uploads -> the renderer's cancellation]
  changes

vars == <<entry, size, walk, chosen, upload, token, cancel, changes>>

Inodes == 1 .. MaxInode
Gone == [kind |-> "gone", ino |-> 0]
File(i) == [kind |-> "file", ino |-> i]
Link(i) == [kind |-> "link", ino |-> i]
NoUpload == [at |-> "idle", of |-> "", meant |-> 0, ino |-> 0, total |-> 0, sent |-> 0,
             shown |-> 0, result |-> "none"]
NoWalk == [left |-> {}, seen |-> "", files |-> [n \in {} |-> 0]]

\* Every name of the folder begins with a file of its own.
ConstantsOK ==
  IsFiniteSet(Names) /\ MaxInode \in Nat /\ Cardinality(Names) <= MaxInode /\ MaxSize \in Nat

Init ==
  /\ LET at == CHOOSE f \in [Names -> 1 .. Cardinality(Names)] :
                  \A m, n \in Names : f[m] = f[n] => m = n
     IN  entry = [n \in Names |-> File(at[n])]
  /\ size \in [Inodes -> {MaxSize}]
  /\ walk = NoWalk /\ chosen = NoWalk.files
  /\ upload = [u \in Uploads |-> NoUpload]
  /\ token = [u \in Uploads |-> "none"] /\ cancel = [u \in Uploads |-> "none"]
  /\ changes = 0

----------------------------------------------------------------------------
(* Other programs                                                          *)

Unused == {i \in Inodes : i > Cardinality(Names) /\ \A n \in Names : entry[n].ino # i}

\* A file is replaced, removed, or replaced by a link to another file.
Change(n) ==
  /\ changes < MaxChanges /\ changes' = changes + 1
  /\ entry' \in { [entry EXCEPT ![n] = e] :
                  e \in {Gone} \cup {File(i) : i \in Unused}
                        \cup {Link(entry[m].ino) : m \in Names \ {n}} }
  /\ UNCHANGED <<size, walk, chosen, upload, token, cancel>>

\* A file is written in place.
Write(i, s) ==
  /\ changes < MaxChanges /\ changes' = changes + 1 /\ size[i] # s
  /\ size' = [size EXCEPT ![i] = s]
  /\ UNCHANGED <<entry, walk, chosen, upload, token, cancel>>

----------------------------------------------------------------------------
(* The walk                                                                *)

Register ==
  /\ walk.left = {} /\ chosen = NoWalk.files
  /\ walk' = [NoWalk EXCEPT !.left = Names]
  /\ UNCHANGED <<entry, size, chosen, upload, token, cancel, changes>>

\* collect_directory_files looks at an entry: hidden ones, links, other kinds
\* and unsupported names are passed over.
Wanted(n) == n \notin Hidden /\ n \in Audio /\ entry[n].kind = "file"

Look(n) ==
  /\ n \in walk.left /\ walk.seen = ""
  /\ walk' = IF Wanted(n) THEN [walk EXCEPT !.seen = n]
             ELSE [walk EXCEPT !.left = @ \ {n}]
  /\ UNCHANGED <<entry, size, chosen, upload, token, cancel, changes>>

\* It opens it without following a link; anything unreadable ends the walk,
\* and a walk that failed keeps nothing.
Open ==
  /\ walk.seen # ""
  /\ walk' = IF entry[walk.seen].kind # "file" THEN NoWalk
             ELSE [left |-> walk.left \ {walk.seen}, seen |-> "",
                   files |-> [n \in DOMAIN walk.files \cup {walk.seen} |->
                                IF n = walk.seen THEN entry[n].ino ELSE walk.files[n]]]
  /\ UNCHANGED <<entry, size, chosen, upload, token, cancel, changes>>

StoreSelections ==
  /\ walk.left = {} /\ DOMAIN walk.files # {} /\ walk.seen = ""
  /\ chosen' = walk.files
  /\ walk' = NoWalk
  /\ UNCHANGED <<entry, size, upload, token, cancel, changes>>

Release(n) ==
  /\ n \in DOMAIN chosen
  /\ chosen' = [m \in DOMAIN chosen \ {n} |-> chosen[m]]
  /\ UNCHANGED <<entry, size, walk, upload, token, cancel, changes>>

----------------------------------------------------------------------------
(* upload_selection                                                        *)

Ends(u, result) ==
  /\ upload' = [upload EXCEPT ![u].at = "ended", ![u].result = result]
  /\ token' = [token EXCEPT ![u] = "none"]

\* begin_upload keeps the token a cancellation may have left; the selection is
\* looked up in the same poll.
Begin(u, n) ==
  /\ upload[u].at = "idle"
  /\ LET t == IF token[u] = "none" THEN "live" ELSE token[u]
     IN  IF n \in DOMAIN chosen
         THEN /\ token' = [token EXCEPT ![u] = t]
              /\ upload' = [upload EXCEPT ![u].at = "opening", ![u].of = n,
                                          ![u].meant = chosen[n]]
         ELSE Ends(u, IF t = "cancelled" THEN "canceled" ELSE "invalid")
  /\ UNCHANGED <<entry, size, walk, chosen, cancel, changes>>

SamePath(n, expected) == entry[n].kind = "file"

\* open_verified_file: never through a link, and only the identity selected.
SameFile(n, expected) == entry[n].kind = "file" /\ entry[n].ino = expected

Prepare(u) ==
  /\ upload[u].at = "opening"
  /\ IF SameFile(upload[u].of, upload[u].meant)
     THEN /\ upload' = [upload EXCEPT ![u].at = "sending",
                          ![u].ino = entry[upload[u].of].ino,
                          ![u].total = size[entry[upload[u].of].ino]]
          /\ UNCHANGED token
     ELSE Ends(u, IF token[u] = "cancelled" THEN "canceled" ELSE "unavailable")
  /\ UNCHANGED <<entry, size, walk, chosen, cancel, changes>>

\* cancellable_preparation and the select around send_import.
Stop(u) ==
  /\ upload[u].at \in {"opening", "sending"} /\ token[u] = "cancelled"
  /\ Ends(u, "canceled")
  /\ UNCHANGED <<entry, size, walk, chosen, cancel, changes>>

Percentage(sent, total) == IF total = 0 THEN 0
                           ELSE IF sent > total THEN 100 ELSE (sent * 100) \div total

\* ProgressThrottle::update: shown when the percentage rose.
Update(u, sent) ==
  LET p == Percentage(sent, upload[u].total)
  IN  IF p <= upload[u].shown THEN upload[u].shown ELSE p

\* A chunk is read and sent.
Chunk(u) ==
  /\ upload[u].at = "sending" /\ upload[u].sent < size[upload[u].ino]
  /\ upload' = [upload EXCEPT ![u].sent = @ + 1, ![u].shown = Update(u, upload[u].sent + 1)]
  /\ UNCHANGED <<entry, size, walk, chosen, token, cancel, changes>>

\* The server's answer, or a lost connection; a body that is not as long as its
\* content-length is refused.  finish_upload runs first, then the token decides.
Sent(u) ==
  /\ upload[u].at = "sending" /\ upload[u].sent >= size[upload[u].ino]
  /\ Ends(u, IF token[u] = "cancelled" THEN "canceled"
             ELSE IF upload[u].sent = upload[u].total THEN "stored" ELSE "refused")
  /\ UNCHANGED <<entry, size, walk, chosen, cancel, changes>>

Lost(u) ==
  /\ upload[u].at = "sending"
  /\ Ends(u, IF token[u] = "cancelled" THEN "canceled" ELSE "lost")
  /\ UNCHANGED <<entry, size, walk, chosen, cancel, changes>>

\* cancel keeps a token for an upload that has not begun.
Cancelled(u) == "cancelled"

Cancel(u) ==
  /\ cancel[u] = "none"
  /\ token' = [token EXCEPT ![u] = Cancelled(u)]
  /\ cancel' = [cancel EXCEPT ![u] = IF upload[u].at = "ended" THEN "late" ELSE "in time"]
  /\ UNCHANGED <<entry, size, walk, chosen, upload, changes>>

----------------------------------------------------------------------------
Next ==
  \/ \E n \in Names : Change(n) \/ Look(n) \/ Release(n)
  \/ \E i \in Inodes, s \in 0 .. MaxSize + 1 : Write(i, s)
  \/ Register \/ Open \/ StoreSelections
  \/ \E u \in Uploads : \/ \E n \in Names : Begin(u, n)
                        \/ Prepare(u) \/ Stop(u) \/ Chunk(u) \/ Sent(u) \/ Lost(u) \/ Cancel(u)

Spec == Init /\ [][Next]_vars

----------------------------------------------------------------------------
TypeOK ==
  /\ entry \in [Names -> {Gone} \cup {File(i) : i \in Inodes} \cup {Link(i) : i \in 0 .. MaxInode}]
  /\ DOMAIN chosen \subseteq Names /\ DOMAIN walk.files \subseteq Names
  /\ \A u \in Uploads : /\ upload[u].at \in {"idle", "opening", "sending", "ended"}
                        /\ upload[u].shown \in 0 .. 100
                        /\ token[u] \in {"none", "live", "cancelled"}
                        /\ cancel[u] \in {"none", "in time", "late"}

\* What is uploaded is the file that was at the path when the listener chose
\* it, however the directory changed since, and no hidden file is ever among
\* the choices (open_verified_file, collect_directory_files).
UploadsTheChosenFile ==
  /\ DOMAIN chosen \cap (Hidden \cup (Names \ Audio)) = {}
  /\ \A u \in Uploads : upload[u].at = "sending" => upload[u].ino = upload[u].meant

\* A cancellation that came before its upload's end, even before its begin,
\* ends it as canceled, and an ended upload keeps a token only for a
\* cancellation that came later (ImportSelectionStore::cancel).
CancellationIsKept ==
  \A u \in Uploads : upload[u].at = "ended" =>
    /\ cancel[u] = "in time" => upload[u].result = "canceled"
    /\ token[u] # "none" => cancel[u] = "late"

\* The listener is shown a whole upload exactly when every byte announced was
\* sent, though the file may grow or shrink meanwhile (ProgressThrottle).
ShownWhole ==
  \A u \in Uploads : LET x == upload[u]
                    IN  x.total > 0 => (x.shown = 100 <=> x.sent >= x.total)

\* The chosen file is uploaded, a cancellation holds and progress is true, at
\* once and for every upload (desktop_import.rs).
ImportIsAsChosen == TypeOK /\ UploadsTheChosenFile /\ CancellationIsKept /\ ShownWhole
=============================================================================
