----------------------------- MODULE FrameStore ------------------------------
(***************************************************************************)
(* What a store of completed frames promises its producers and consumers,  *)
(* without the sequences, indices and receipts of FramePublication: every  *)
(* slot shows at most one frame, only the one producer with authority can  *)
(* complete a frame, it does so once, for the slot and the mirror lifetime *)
(* it asked for, and no mirror and no texture is shown by two slots.       *)
(***************************************************************************)
EXTENDS Naturals

CONSTANTS Slots, Mirrors, Textures, NoFrame, NoToken

\* Mirrors are records with a form; a form shows in one slot at most.
ShownFrames == [mirror : Mirrors, textures : SUBSET Textures]
Authorities == [mirror : Mirrors, slot : Slots]

VARIABLES frames,   \* the frame each slot shows
          authority \* the producer that may complete a frame

storeVars == <<frames, authority>>

StoreInit ==
  /\ frames = [s \in Slots |-> NoFrame]
  /\ authority = NoToken

Shows(s, m) == frames[s] # NoFrame /\ frames[s].mirror = m

\* A producer starts on slot s: the frame of another lifetime always goes, the
\* frame of the same mirror stays when asked.
Authorise(s, m, keep) ==
  /\ authority' = [mirror |-> m, slot |-> s]
  /\ frames' = IF keep /\ Shows(s, m) THEN frames
               ELSE [frames EXCEPT ![s] = NoFrame]

\* No other slot shows the mirror or one of the textures.
Exclusive(s, m, textures) ==
  \A t \in Slots \ {s} : frames[t] # NoFrame =>
    /\ frames[t].mirror.form # m.form
    /\ frames[t].textures \cap textures = {}

\* The producer with authority completes a frame and loses its authority.
Complete(textures) ==
  /\ authority # NoToken
  /\ Exclusive(authority.slot, authority.mirror, textures)
  /\ frames' = [frames EXCEPT ![authority.slot] =
                  [mirror |-> authority.mirror, textures |-> textures]]
  /\ authority' = NoToken

\* Frames are revoked; a producer of a revoked slot loses its authority, and
\* any producer may.
Drop(S, withdraw) ==
  /\ frames' = [s \in Slots |-> IF s \in S THEN NoFrame ELSE frames[s]]
  /\ authority' = IF withdraw \/ (authority # NoToken /\ authority.slot \in S)
                  THEN NoToken ELSE authority

StoreNext ==
  \/ \E s \in Slots, m \in Mirrors, keep \in BOOLEAN : Authorise(s, m, keep)
  \/ \E textures \in SUBSET Textures : Complete(textures)
  \/ \E S \in SUBSET Slots, withdraw \in BOOLEAN : Drop(S, withdraw)

StoreSpec == StoreInit /\ [][StoreNext]_storeVars
=============================================================================
