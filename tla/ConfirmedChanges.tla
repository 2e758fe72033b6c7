-------------------------- MODULE ConfirmedChanges --------------------------
(***************************************************************************)
(* Changes of the Library that a listener confirms from a preview: a Track *)
(* Replacement and a Permanent Track Deletion, of one Track or of an Album *)
(* (server/src/modules/managed_import/replacement.rs, deletion.rs), while  *)
(* Tracks are imported and Playlists and Queues change                     *)
(* (playlists/service.rs, repository.rs).  A preview carries a token, the  *)
(* hash of all it depends on; the confirmation recomputes it.  Files are   *)
(* the subject of TrackFiles.                                              *)
(***************************************************************************)
EXTENDS Integers, Sequences, FiniteSets

CONSTANTS
  Tracks, Playlists, Users,
  Favorites,    \* the default Playlist, which is never deleted
  AlbumArtists, \* Album -> its Artists: an Album's identity includes them
  First,        \* Tracks of the first Library -> their metadata
  Candidates,   \* metadata of files to import or to replace with
  MaxImports, MaxEdits, MaxFaults

VARIABLES
  track,        \* tracks: id -> metadata and revision
  hidden,       \* Tracks with missing_at set
  albums, artists, genres, \* rows of the catalog
  playlist,     \* existing Playlists -> their Tracks
  queue,        \* user -> Tracks in the Queue
  job,          \* the Track Replacement
  del,          \* the deletion
  lock,         \* who holds commit_lock (with deletion_lock)
  adding,       \* an add_track or Queue append past its check of the Track
  late,         \* additions that land on a hidden Track
  imports, edits, faults

vars == <<track, hidden, albums, artists, genres, playlist, queue, job, del, lock, adding, late, imports, edits, faults>>
catalog == <<track, hidden, albums, artists, genres>>

NoJob == [step |-> "none"]
NoDel == [step |-> "none"]
NoAdd == [to |-> "none"]

Here == DOMAIN track
Visible == Here \ hidden
On(album) == {t \in Here : track[t].meta.album = album}

\* Artists that a set of Tracks and Albums refer to: track_artists, album_artists.
Referenced(ts, als) == UNION ({ts[t].meta.artists : t \in DOMAIN ts} \cup {AlbumArtists[a] : a \in als})

Init ==
  /\ track = [t \in DOMAIN First |-> [meta |-> First[t], revision |-> 1]] /\ hidden = {}
  /\ albums = {First[t].album : t \in DOMAIN First}
  /\ artists = Referenced(track, albums)
  /\ genres = UNION {First[t].genres : t \in DOMAIN First}
  /\ \E ts \in SUBSET DOMAIN First : playlist = [p \in Playlists |-> IF p = Favorites THEN {} ELSE ts]
  /\ queue = [u \in Users |-> {}]
  /\ job = NoJob /\ del = NoDel /\ lock = "free" /\ adding = NoAdd /\ late = {}
  /\ imports = 0 /\ edits = 0 /\ faults = 0

----------------------------------------------------------------------------
(* Playlists, Queues and imports                                           *)

\* add_track and the Queue's append read the Track first ...
Check(to, t) ==
  /\ adding = NoAdd /\ edits < MaxEdits /\ t \in Visible
  /\ to \in DOMAIN playlist \cup Users
  /\ adding' = [to |-> to, track |-> t] /\ edits' = edits + 1
  /\ UNCHANGED <<catalog, playlist, queue, job, del, lock, late, imports, faults>>

\* ... and insert it afterwards: append_track, refused by a foreign key.
Insert ==
  /\ adding # NoAdd
  /\ adding' = NoAdd
  /\ IF adding.track \in Here /\ adding.to \in DOMAIN playlist
     THEN playlist' = [playlist EXCEPT ![adding.to] = @ \cup {adding.track}]
     ELSE UNCHANGED playlist
  /\ IF adding.track \in Here /\ adding.to \in Users
     THEN queue' = [queue EXCEPT ![adding.to] = @ \cup {adding.track}]
     ELSE UNCHANGED queue
  /\ late' = IF adding.track \in hidden THEN late \cup {adding} ELSE late
  /\ UNCHANGED <<catalog, job, del, lock, imports, edits, faults>>

\* remove_track: "deletes a user playlist it left empty" in the same transaction.
LeavesEmpty(p, t) == playlist[p] \subseteq {t}

RemoveTrack(p, t) ==
  /\ edits < MaxEdits /\ p \in DOMAIN playlist /\ t \in playlist[p]
  /\ edits' = edits + 1
  /\ IF p # Favorites /\ LeavesEmpty(p, t)
     THEN playlist' = [q \in DOMAIN playlist \ {p} |-> playlist[q]]
     ELSE playlist' = [playlist EXCEPT ![p] = @ \ {t}]
  /\ UNCHANGED <<catalog, queue, job, del, lock, adding, late, imports, faults>>

\* The rows that metadata needs: upsert_artists, upsert_album_for, upsert_genre.
UpsertArtists(m) == artists \cup m.artists \cup AlbumArtists[m.album]
UpsertAlbum(m) == albums \cup {m.album}
UpsertGenres(m) == genres \cup m.genres

\* insert_track with insert_relationships.
InsertTrack(t, m) == [o \in Here \cup {t} |-> IF o = t THEN [meta |-> m, revision |-> 1] ELSE track[o]]

\* write_commit_data, under commit_lock.
Import(t, m) ==
  /\ lock = "free" /\ imports < MaxImports /\ t \notin Here
  /\ \A o \in Visible : track[o].meta.album # m.album \/ track[o].meta.no # m.no
  /\ imports' = imports + 1
  /\ track' = InsertTrack(t, m)
  /\ albums' = UpsertAlbum(m) /\ artists' = UpsertArtists(m) /\ genres' = UpsertGenres(m)
  /\ UNCHANGED <<hidden, playlist, queue, job, del, lock, adding, late, edits, faults>>

----------------------------------------------------------------------------
(* Track Replacement                                                       *)

\* load_replacement_target: the visible Track and who refers to it.
IsSoleTrack(t) == On(track[t].meta.album) \cap Visible = {t}
Target(t) == [track |-> t, row |-> track[t], sole |-> IsSoleTrack(t),
              playlists |-> {p \in DOMAIN playlist : t \in playlist[p]},
              queues |-> {u \in Users : t \in queue[u]}]

\* orphaned_artist_names: "Artists that lose every reference once the Track
\* adopts the replacement credits."
OrphanedArtists(target, m, removesAlbum) ==
  LET old == target.row.meta
      going == old.artists \cup (IF removesAlbum THEN AlbumArtists[old.album] ELSE {})
      others == [o \in Here \ {target.track} |-> track[o]]
  IN  (going \ (m.artists \cup AlbumArtists[m.album]))
        \ Referenced(others, IF removesAlbum THEN albums \ {old.album} ELSE albums)

MissingNames(names, rows) == names \ rows

\* library_change: read after the target was.
LibraryChange(target, m) ==
  LET moves == m.album # target.row.meta.album
      removesAlbum == moves /\ target.sole
  IN  [createsAlbum |-> {m.album} \ albums,
       removesAlbum |-> IF removesAlbum THEN {target.row.meta.album} ELSE {},
       removesArtists |-> OrphanedArtists(target, m, removesAlbum),
       createsArtists |-> MissingNames(m.artists \cup AlbumArtists[m.album], artists),
       createsGenres |-> MissingNames(m.genres, genres)]

\* position_candidates: another Track at the candidate's place.
Occupied(t, m) == \E o \in Visible \ {t} : track[o].meta.album = m.album /\ track[o].meta.no = m.no

\* create_replacement_job and the upload's preview: the target ...
LoadTarget(t, m) ==
  /\ job = NoJob /\ t \in Visible
  /\ job' = [step |-> "loaded", meta |-> m, target |-> Target(t)]
  /\ UNCHANGED <<catalog, playlist, queue, del, lock, adding, late, imports, edits, faults>>

BuildPreview(target, m, library) == [step |-> "shown", meta |-> m, target |-> target, library |-> library]

\* ... and then the Library, with no lock held: build_replacement_state.
Preview ==
  /\ job.step = "loaded"
  /\ job' = IF Occupied(job.target.track, job.meta) THEN NoJob
            ELSE BuildPreview(job.target, job.meta, LibraryChange(job.target, job.meta))
  /\ UNCHANGED <<catalog, playlist, queue, del, lock, adding, late, imports, edits, faults>>

\* confirm_replacement takes its locks and prepare_replacement_confirmation
\* builds the state anew; replacement_token over all of it must be the same.
TokenOfTarget(target, library) == target
ReplacementToken(target, library) == <<target, library>>

\* prepare_replacement_confirmation: the state can be built again.
CanPrepare(t, m) == t \in Visible /\ ~Occupied(t, m)

Confirm ==
  LET t == job.target.track
      now == Target(t)
      library == LibraryChange(now, job.meta)
  IN
  /\ job.step = "shown" /\ lock = "free"
  /\ IF /\ CanPrepare(t, job.meta)
        /\ ReplacementToken(now, library) = ReplacementToken(job.target, job.library)
     THEN job' = [job EXCEPT !.step = "placing"] /\ lock' = "replacement"
     ELSE job' = NoJob /\ UNCHANGED lock
  /\ UNCHANGED <<catalog, playlist, queue, del, adding, late, imports, edits, faults>>

\* delete_unreferenced_artists of the Artists that the Track and its Album had.
PreviousArtists(row) == row.meta.artists \cup AlbumArtists[row.meta.album]

\* delete_album_if_empty: hidden Tracks count.
AlbumsAfter(old, ts, als) == IF \E o \in DOMAIN ts : ts[o].meta.album = old THEN als ELSE als \ {old}

\* commit_replacement_data, write_replacement_data: one transaction.
CommitReplacement ==
  LET t == job.target.track
      old == track[t].meta
      m == job.meta
      ts == [track EXCEPT ![t] = [meta |-> m, revision |-> @.revision + 1]]
      als == AlbumsAfter(old.album, ts, UpsertAlbum(m))
  IN
  /\ job.step = "placing"
  /\ track' = ts /\ albums' = als
  /\ artists' = UpsertArtists(m) \ (PreviousArtists(track[t]) \ Referenced(ts, als))
  /\ genres' = UpsertGenres(m)
  /\ job' = [step |-> "committed", library |-> job.library,
             did |-> [createsAlbum |-> als \ albums, removesAlbum |-> albums \ als,
                      removesArtists |-> artists \ artists', createsArtists |-> artists' \ artists,
                      createsGenres |-> genres' \ genres],
             beside |-> On(old.album) \cap hidden # {}]
  /\ lock' = "free"
  /\ UNCHANGED <<hidden, playlist, queue, del, adding, late, imports, edits, faults>>

----------------------------------------------------------------------------
(* Permanent Track Deletion                                                *)

\* load_track_deletion: what its token covers.
Deletion(t) == [track |-> t, row |-> track[t],
                playlists |-> {p \in DOMAIN playlist : t \in playlist[p]},
                queues |-> {u \in Users : t \in queue[u]}]

PreviewTrackDeletion(t) ==
  /\ del = NoDel /\ t \in Visible
  /\ del' = [step |-> "waiting", kind |-> "track", shown |-> {Deletion(t)}, todo |-> {}, token |-> Deletion(t)]
  /\ UNCHANGED <<catalog, playlist, queue, job, lock, adding, late, imports, edits, faults>>

AlbumDeletion(a) == {Deletion(t) : t \in On(a) \cap Visible}

PreviewAlbumDeletion(a) ==
  /\ del = NoDel /\ AlbumDeletion(a) # {}
  /\ del' = [step |-> "shown", kind |-> "album", album |-> a, shown |-> AlbumDeletion(a)]
  /\ UNCHANGED <<catalog, playlist, queue, job, lock, adding, late, imports, edits, faults>>

\* delete_album: one token check for the Album, with no lock held ...
AlbumIsAsShown(a) == AlbumDeletion(a) = del.shown

ConfirmAlbumDeletion ==
  /\ del.step = "shown"
  /\ IF AlbumIsAsShown(del.album)
     THEN del' = [step |-> "next", kind |-> "album", shown |-> del.shown,
                  todo |-> {d.track : d \in AlbumDeletion(del.album)}]
     ELSE del' = NoDel
  /\ UNCHANGED <<catalog, playlist, queue, job, lock, adding, late, imports, edits, faults>>

\* ... then each Track with the token it has at that moment.
NextTrack(t) ==
  /\ del.step = "next" /\ t \in del.todo
  /\ del' = IF t \in Visible
            THEN [step |-> "waiting", kind |-> "album", shown |-> del.shown, todo |-> del.todo \ {t}, token |-> Deletion(t)]
            ELSE NoDel
  /\ UNCHANGED <<catalog, playlist, queue, job, lock, adding, late, imports, edits, faults>>

\* delete_track takes its locks; prepare_track_deletion "Re-reads the Track,
\* checks the token, then journals the deletion and hides the Track".
TokenHolds(token) == token.track \in Visible /\ Deletion(token.track) = token

PrepareDeletion ==
  /\ del.step = "waiting" /\ lock = "free"
  /\ IF TokenHolds(del.token)
     THEN /\ hidden' = hidden \cup {del.token.track}
          /\ del' = [del EXCEPT !.step = "removing"] /\ lock' = "deletion"
     ELSE del' = NoDel /\ UNCHANGED <<hidden, lock>>
  /\ UNCHANGED <<track, albums, artists, genres, playlist, queue, job, adding, late, imports, edits, faults>>

\* remove_prepared_deletion_files fails: nothing was removed and the Track is
\* shown again, or it stays hidden for the next start; an Album's run stops.
RemoveFails(cancels) ==
  /\ del.step = "removing" /\ faults < MaxFaults
  /\ faults' = faults + 1
  /\ hidden' = IF cancels THEN hidden \ {del.token.track} ELSE hidden
  /\ del' = NoDel /\ lock' = "free"
  /\ UNCHANGED <<track, albums, artists, genres, playlist, queue, job, adding, late, imports, edits>>

\* "DELETE FROM playlist_tracks WHERE track_id = ?"
PlaylistsLeft(t) == [p \in DOMAIN playlist |-> playlist[p] \ {t}]

\* finalize_track_deletion, also recover_pending_track_deletions'.
Gone(t) ==
  LET ts == [o \in Here \ {t} |-> track[o]]
      als == AlbumsAfter(track[t].meta.album, ts, albums)
  IN
  /\ track' = ts /\ hidden' = hidden \ {t} /\ albums' = als
  /\ artists' = artists \ (PreviousArtists(track[t]) \ Referenced(ts, als))
  /\ playlist' = PlaylistsLeft(t)
  /\ queue' = [u \in Users |-> queue[u] \ {t}]

FinalizeDeletion ==
  /\ del.step = "removing"
  /\ Gone(del.token.track)
  /\ lock' = "free"
  /\ del' = IF del.todo = {} THEN NoDel
            ELSE [step |-> "next", kind |-> "album", shown |-> del.shown, todo |-> del.todo]
  /\ UNCHANGED <<genres, job, adding, late, imports, edits, faults>>

\* recover_pending_track_deletions: a restart, and no request survives it.
Recover(t) ==
  /\ t \in hidden /\ lock = "free"
  /\ Gone(t)
  /\ del' = NoDel /\ adding' = NoAdd /\ job' = IF job.step = "loaded" THEN NoJob ELSE job
  /\ UNCHANGED <<genres, lock, late, imports, edits, faults>>

Next ==
  \/ \E t \in Tracks :
       \/ \E to \in Playlists \cup Users : Check(to, t)
       \/ \E p \in Playlists : RemoveTrack(p, t)
       \/ \E m \in Candidates : Import(t, m) \/ LoadTarget(t, m)
       \/ PreviewTrackDeletion(t) \/ NextTrack(t) \/ Recover(t)
  \/ Insert \/ Preview \/ Confirm \/ CommitReplacement
  \/ \E a \in albums : PreviewAlbumDeletion(a)
  \/ ConfirmAlbumDeletion \/ PrepareDeletion \/ FinalizeDeletion
  \/ \E cancels \in BOOLEAN : RemoveFails(cancels)

Spec == Init /\ [][Next]_vars

----------------------------------------------------------------------------
TypeOK ==
  /\ Here \subseteq Tracks /\ hidden \subseteq Here
  /\ albums \subseteq DOMAIN AlbumArtists
  /\ DOMAIN playlist \subseteq Playlists /\ DOMAIN queue = Users
  /\ \A p \in DOMAIN playlist : playlist[p] \subseteq Here
  /\ lock \in {"free", "replacement", "deletion"}
  /\ (lock = "replacement") = (job.step = "placing")
  /\ (lock = "deletion") = (del.step = "removing")

\* What a Track Replacement creates in and removes from the catalog is what the
\* confirmed preview listed, whatever was imported or deleted since
\* (replacement_token, library_change against write_replacement_data); an Album
\* whose other Tracks wait for a deletion to finish stays for them.
ReplacesAsConfirmed == job.step = "committed" /\ ~job.beside => job.did = job.library

\* Every Album has a Track and every Artist a credit: imports, replacements and
\* deletions leave no empty entry behind and take none away that is in use
\* (delete_album_if_empty, delete_unreferenced_artists).
CatalogIsReferenced ==
  /\ albums = {track[t].meta.album : t \in Here}
  /\ artists = Referenced(track, albums)

\* A deletion never removes a Track its preview did not list, even when Tracks
\* are imported into the Album while it runs (delete_album).
DeletesWhatWasShown ==
  del.step \in {"waiting", "removing"} => del.token.track \in {d.track : d \in del.shown}

\* The deletion of one Track empties no Playlist and no Queue of it that its
\* preview did not name, but for an addition that had passed its check when the
\* Track was hidden (prepare_track_deletion's token covers both).
TakesFromWhomWasShown ==
  del.step = "removing" /\ del.kind = "track" =>
    LET t == del.token.track
        named == UNION {d.playlists \cup d.queues : d \in del.shown}
    IN  {p \in DOMAIN playlist : t \in playlist[p]} \cup {u \in Users : t \in queue[u]}
          \subseteq named \cup {x.to : x \in late}

\* In no step does a Playlist disappear but when nothing is left in it: not with Tracks that
\* are hidden while their deletion may still be cancelled (remove_track).
PlaylistsGoEmpty ==
  \A p \in DOMAIN playlist \ DOMAIN playlist' : Cardinality(playlist[p]) = 1
=============================================================================
