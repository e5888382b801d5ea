----------------------------- MODULE MCPlayback -----------------------------
(***************************************************************************)
(* Small instances of Playback for TLC.                                    *)
(*                                                                         *)
(* The script has the shapes of src/recordings: a request with one reply,  *)
(* one with several (a 0x78 "response pending" first, with no delay to the *)
(* one after it), one recorded without any reply, and one that is not in   *)
(* the recording and gets the NRC, slower than the quick one.              *)
(***************************************************************************)
EXTENDS Playback, TLC

MCRequests == {"slow", "quick", "silent", "unknown"}

MCRecorded == {"slow", "quick", "silent"}

MCFewRequests == {"slow", "quick"}

MCDelayOf(recorded) ==
    [r \in recorded |->
        CASE r = "slow"   -> <<1, 0>>
          [] r = "quick"  -> <<0>>
          [] r = "silent" -> << >>]

MCDelay == MCDelayOf(MCRecorded)

MCFewDelay == MCDelayOf(MCFewRequests)

(***************************************************************************)
(* Threads are interchangeable, and so are links: neither carries data.    *)
(***************************************************************************)
MCSymmetry == Permutations(Threads) \cup Permutations(Links)

=============================================================================
