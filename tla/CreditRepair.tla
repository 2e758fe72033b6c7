---------------------------- MODULE CreditRepair ----------------------------
(***************************************************************************)
(* The offline repair of Artist credits                                    *)
(* (server/src/modules/managed_import/credit_repair.rs): a preview reads   *)
(* the library, inspects the managed files one by one and plans which      *)
(* Tracks and Albums to credit anew; apply makes a backup, checks the      *)
(* files and rewrites the credits in one transaction.  The command cannot  *)
(* keep the Music Server from running, so the library and the files may    *)
(* change at any moment in between.                                        *)
(***************************************************************************)
EXTENDS Integers, Sequences, FiniteSets, SequencesExt

CONSTANTS
  Tracks, Albums,
  Fold,         \* the identity of each spelling of a name (normalize_identity)
  TrackLists,   \* lists of names an earlier version may have credited to
  DbLists,      \* a Track, and to an Album
  ArtistLists,  \* lists of Artists the files' tags may hold
  AlbumLists,   \* lists of Album Artists the files' tags may hold
  Editions,     \* what follows the credits in an Album's key
  MaxChanges    \* changes somebody makes meanwhile

VARIABLES
  db,           \* tracks, albums and artists of the library
  file,         \* what each Track's managed file holds
  pending,      \* a file operation's journal is open
  phase,        \* of the repair
  snapshot,     \* the library as the preview read it
  inspected,    \* the metadata of each Track inspected so far
  plan,         \* the Tracks and Albums to credit anew
  backup,       \* the copy made before the repair
  failed,       \* why the transaction was rolled back
  changes

vars == <<db, file, pending, phase, snapshot, inspected, plan, backup, failed, changes>>

\* A file is told by its tags, as its hash would.
Contents == [artists : ArtistLists, albumArtists : AlbumLists]
NoFile == [artists |-> <<>>, albumArtists |-> <<>>]
NoPlan == [tracks |-> <<>>, albums |-> <<>>, keys |-> <<>>]

Folds(names) == [i \in DOMAIN names |-> Fold[names[i]]]

\* INSERT OR IGNORE: an Artist is credited once.
Once(folds) ==
  FoldLeft(LAMBDA kept, f : IF \E i \in DOMAIN kept : kept[i] = f THEN kept ELSE Append(kept, f), <<>>, folds)

\* album_key_of, with what follows it in the key.
KeyOf(folds, edition) == [of |-> folds, edition |-> edition]

TrackRow(album, names, content) ==
  [album |-> album, shown |-> names, credits |-> Folds(names), hash |-> content, hidden |-> FALSE]
AlbumRow(folds, primary, key) == [credits |-> folds, primary |-> primary, key |-> key]

ArtistsOf(tracks, albums) ==
  UNION {ToSet(tracks[t].credits) : t \in Tracks}
    \cup UNION {ToSet(albums[b].credits) \cup {albums[b].primary} : b \in Albums}

\* A library whose credits may disagree with its files: split or joined names
\* of an earlier version, an Album's main Artist left behind, a key of old.
Init ==
  /\ \E tracks \in [Tracks -> {TrackRow(b, n, c) : b \in Albums, n \in TrackLists, c \in Contents}],
        albums \in [Albums -> {AlbumRow(Folds(n), Folds(p)[1], KeyOf(Folds(n), e)) :
                                 n \in DbLists, p \in DbLists, e \in Editions}] :
       /\ \A a, b \in Albums : a # b => albums[a].key # albums[b].key
       /\ db = [tracks |-> tracks, albums |-> albums, artists |-> ArtistsOf(tracks, albums)]
       /\ file = [t \in Tracks |-> tracks[t].hash]
  /\ pending = FALSE /\ phase = "ready" /\ snapshot = <<>> /\ inspected = [t \in Tracks |-> NoFile]
  /\ plan = NoPlan /\ backup = <<>> /\ failed = "no" /\ changes = 0

----------------------------------------------------------------------------
(* The preview                                                             *)

\* reject_pending and read_snapshot
BeginPreview ==
  /\ phase = "ready" /\ ~ pending
  /\ phase' = "inspecting"
  /\ snapshot' = db
  /\ inspected' = [t \in Tracks |-> NoFile]
  /\ UNCHANGED <<db, file, pending, plan, backup, failed, changes>>

\* inspect_track: the hash is checked before and after the inspection.
Inspectable(t, content) == ~ snapshot.tracks[t].hidden /\ content = snapshot.tracks[t].hash

Inspect(t) ==
  /\ phase = "inspecting" /\ inspected[t] = NoFile /\ Inspectable(t, file[t])
  /\ inspected' = [inspected EXCEPT ![t] = file[t]]
  /\ UNCHANGED <<db, file, pending, phase, snapshot, plan, backup, failed, changes>>

SameCredits(folds, names) == folds = Folds(names)

Members(lib, b) == {t \in Tracks : lib.tracks[t].album = b}

\* consensus: every member was inspected and they agree, spelling included.
Agreed(lib, found, b) ==
  LET lists == {found[t].albumArtists : t \in Members(lib, b)}
  IN IF Cardinality(lists) = 1 /\ <<>> \notin lists THEN CHOOSE l \in lists : TRUE ELSE <<>>

\* The Albums to credit anew: those that agree on other credits, or whose main
\* Artist is not the first credited.
Wrong(lib, found) ==
  {b \in Albums : LET names == Agreed(lib, found, b)
                      album == lib.albums[b]
                  IN names # <<>> /\ ~ (SameCredits(album.credits, names) /\ album.credits[1] = album.primary)}

\* album_identity: what follows the old credits in the key is kept; a key that
\* does not begin with them is left for a person.
Recognised(album) == album.key.of = album.credits /\ album.key.edition # "odd"

NewKey(lib, found, b) == KeyOf(Folds(Agreed(lib, found, b)), lib.albums[b].key.edition)

\* No other Album holds the key, and none is planned to.
Free(lib, keys, b) ==
  /\ \A other \in Albums \ {b} : lib.albums[other].key # keys[b]
  /\ \A other \in DOMAIN keys \ {b} : keys[other] # keys[b]

\* What preview reports as changes; conflicts and skipped ones are left alone.
Changes(lib, found) ==
  LET keys == [b \in {b \in Wrong(lib, found) : Recognised(lib.albums[b])} |-> NewKey(lib, found, b)]
      albums == {b \in DOMAIN keys : Free(lib, keys, b)}
  IN [tracks |-> [t \in {t \in Tracks : /\ found[t] # NoFile
                                        /\ \/ ~ SameCredits(lib.tracks[t].credits, found[t].artists)
                                           \/ lib.tracks[t].shown # found[t].artists}
                    |-> found[t].artists],
      albums |-> [b \in albums |-> Agreed(lib, found, b)],
      keys |-> [b \in albums |-> keys[b]]]

\* Every Track was inspected or cannot be.
EndPreview ==
  /\ phase = "inspecting" /\ \A t \in Tracks : inspected[t] # NoFile \/ ~ Inspectable(t, file[t])
  /\ plan' = Changes(snapshot, inspected)
  /\ phase' = IF DOMAIN plan'.tracks = {} /\ DOMAIN plan'.albums = {} THEN "nothing" ELSE "planned"
  /\ UNCHANGED <<db, file, pending, snapshot, inspected, backup, failed, changes>>

----------------------------------------------------------------------------
(* Apply                                                                   *)

\* apply_with, reject_pending and backup
MakeBackup ==
  /\ phase = "planned"
  /\ IF pending THEN phase' = "refused" /\ UNCHANGED backup ELSE phase' = "backed up" /\ backup' = db
  /\ UNCHANGED <<db, file, pending, snapshot, inspected, plan, failed, changes>>

\* The files the plan rests on still have the hashes the preview read.
CheckFiles ==
  /\ phase = "backed up"
  /\ phase' = IF \A t \in Tracks :
                   t \in DOMAIN plan.tracks \/ snapshot.tracks[t].album \in DOMAIN plan.albums =>
                     file[t] = snapshot.tracks[t].hash
              THEN "checked" ELSE "refused"
  /\ UNCHANGED <<db, file, pending, snapshot, inspected, plan, backup, failed, changes>>

StillAsReadLoosely == ~ pending

\* The second look, inside the transaction.
StillAsRead == ~ pending /\ db = snapshot

\* insert_track_artist_credits fails on an Artist credited twice.
TwiceCredited == \E t \in DOMAIN plan.tracks : Once(Folds(plan.tracks[t])) # Folds(plan.tracks[t])

RewrittenAlbum(b) == AlbumRow(Once(Folds(plan.albums[b])), Folds(plan.albums[b])[1], plan.keys[b])

Rewritten ==
  [tracks |-> [t \in Tracks |-> IF t \in DOMAIN plan.tracks
                 THEN [db.tracks[t] EXCEPT !.shown = plan.tracks[t], !.credits = Folds(plan.tracks[t])]
                 ELSE db.tracks[t]],
   albums |-> [b \in Albums |-> IF b \in DOMAIN plan.albums
                 THEN RewrittenAlbum(b)
                 ELSE db.albums[b]]]

\* The Artists the rewritten rows were credited to before.
OldArtists ==
  UNION {ToSet(db.tracks[t].credits) : t \in DOMAIN plan.tracks}
    \cup UNION {ToSet(db.albums[b].credits) \cup {db.albums[b].primary} : b \in DOMAIN plan.albums}

\* delete_unreferenced_artists, and no Album's main Artist.
Deletable(new, artist) ==
  /\ \A t \in Tracks : artist \notin ToSet(new.tracks[t].credits)
  /\ \A b \in Albums : artist \notin ToSet(new.albums[b].credits) /\ artist # new.albums[b].primary

\* Rows are written in the order of their ids: an Album's new key meets the
\* keys the others have by then or had before.
KeyTaken(new) ==
  \E b \in DOMAIN plan.keys : \E other \in Albums \ {b} :
    plan.keys[b] \in {db.albums[other].key, new.albums[other].key}

\* The transaction: all of it, or nothing.
Commit ==
  /\ phase = "checked"
  /\ LET new == Rewritten
         known == db.artists \cup ArtistsOf(new.tracks, new.albums)
         gone == {a \in OldArtists : Deletable(new, a)}
         why == IF ~ StillAsRead THEN "stale"
                ELSE IF TwiceCredited THEN "twice"
                ELSE IF KeyTaken(new) THEN "key"
                ELSE IF gone \cap ArtistsOf(new.tracks, new.albums) # {} THEN "reference"
                ELSE "no"
     IN /\ failed' = why
        /\ phase' = IF why = "no" THEN "applied" ELSE "refused"
        /\ db' = IF why = "no"
                 THEN [tracks |-> new.tracks, albums |-> new.albums, artists |-> known \ gone]
                 ELSE db
  /\ UNCHANGED <<file, pending, snapshot, inspected, plan, backup, changes>>

\* Apply takes a fresh preview; the command is run again.
RunAgain ==
  /\ phase \in {"nothing", "refused", "applied"} /\ changes < MaxChanges
  /\ changes' = changes + 1
  /\ phase' = "ready" /\ failed' = "no"
  /\ UNCHANGED <<db, file, pending, snapshot, inspected, plan, backup>>

----------------------------------------------------------------------------
(* Somebody else meanwhile                                                 *)

\* The Music Server replaces, deletes or moves a Track, and its journal may
\* stay open; or a person touches a managed file.
Interfere ==
  /\ changes < MaxChanges
  /\ changes' = changes + 1
  /\ \/ \E t \in Tracks, c \in Contents :
          /\ db' = [db EXCEPT !.tracks[t].hash = c] /\ file' = [file EXCEPT ![t] = c] /\ UNCHANGED pending
     \/ \E t \in Tracks, b \in Albums :
          /\ db' = [db EXCEPT !.tracks[t].album = b] /\ UNCHANGED <<file, pending>>
     \/ \E t \in Tracks :
          /\ db' = [db EXCEPT !.tracks[t].hidden = ~ @] /\ UNCHANGED <<file, pending>>
     \/ \E t \in Tracks, c \in Contents \cup {NoFile} :
          /\ file' = [file EXCEPT ![t] = c] /\ UNCHANGED <<db, pending>>
     \/ pending' = ~ pending /\ UNCHANGED <<db, file>>
  /\ UNCHANGED <<phase, snapshot, inspected, plan, backup, failed>>

Next ==
  \/ BeginPreview \/ (\E t \in Tracks : Inspect(t)) \/ EndPreview
  \/ MakeBackup \/ CheckFiles \/ Commit \/ RunAgain \/ Interfere

Spec == Init /\ [][Next]_vars

----------------------------------------------------------------------------
(* Properties                                                              *)

\* Every variable has its type.
TypeOK ==
  /\ pending \in BOOLEAN /\ changes \in 0 .. MaxChanges
  /\ phase \in {"ready", "inspecting", "nothing", "planned", "backed up", "checked", "refused", "applied"}
  /\ failed \in {"no", "stale", "twice", "key", "reference"}
  /\ file \in [Tracks -> Contents \cup {NoFile}]
  /\ ArtistsOf(db.tracks, db.albums) \subseteq db.artists
  /\ DOMAIN plan.tracks \subseteq Tracks /\ DOMAIN plan.albums \subseteq Albums

Applies == phase = "checked" /\ phase' = "applied"

\* Whatever happened between the preview and the transaction, a repair that
\* goes through credits each Track as the content its source row names, and
\* each Album as all its Tracks agree; the backup is the library just before.
AppliedIsTruth ==
  Applies =>
    /\ backup = db
    /\ \A t \in DOMAIN plan.tracks : db'.tracks[t].shown = db.tracks[t].hash.artists
    /\ \A b \in DOMAIN plan.albums : \A t \in Members(db, b) :
         plan.albums[b] = db.tracks[t].hash.albumArtists

\* No repair comes back: a preview right after a repair plans nothing for the
\* Tracks, nor for an Album that was just repaired.
RepairedIsSettled ==
  Applies =>
    LET again == Changes(db', inspected)
    IN DOMAIN again.tracks = {} /\ DOMAIN again.albums \cap DOMAIN plan.albums = {}

\* The transaction is never rolled back because two Albums would get one key
\* or an Artist is deleted that an Album or a Track still needs: the preview
\* reports such Albums as conflicts instead.
PlanIsSound == failed \notin {"key", "reference"}
=============================================================================
