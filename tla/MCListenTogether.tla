-------------------------- MODULE MCListenTogether --------------------------
(* Instances of ListenTogether for TLC. *)
EXTENDS ListenTogether, TLC

CONSTANT t1

\* A command that needs the library, and one that does not.
PlayAndPause == {PlayTracks(<<t1>>, 0), Pause}

PlayOnly == {PlayTracks(<<t1>>, 0)}

\* Sessions, connections and requests are interchangeable.
Symmetry ==
  Permutations(Keys) \cup Permutations(StreamIds) \cup Permutations(Requests)
=============================================================================
