------------------------ MODULE CapturePipelineProofs ------------------------
(***************************************************************************)
(* The invariants of CapturePipeline, for any number of slots, mirrors,    *)
(* textures and spares.  They hold only together: a pane shows its mirror  *)
(* because the scratch target is never a shown one, which holds because a  *)
(* frame is the retained target of its slot, which the swap keeps because  *)
(* no other capture can be running.  IInv adds what a running capture may  *)
(* rely on between its steps.                                              *)
(***************************************************************************)
EXTENDS CapturePipeline, TLAPS

Typed ==
  /\ frames \in [Slots -> ShownFrames \cup {NoFrame}]
  /\ owner \in [Slots -> Mirrors \cup {NoMirror}]
  /\ known \in [Slots -> Mirrors \cup {NoMirror}]
  /\ scratch \in Textures \cup {NoTexture}
  /\ retained \in [Slots -> Textures \cup {NoTexture}]
  /\ spares \subseteq Textures
  /\ content \in [Textures -> Mirrors \cup {NoMirror}]
  /\ pending \subseteq Mirrors
  /\ job \in Jobs \cup {NoJob}
  /\ pc \in {"idle", "begun", "allocated", "ready", "rendered", "published"}

\* A running capture has a job, for the mirror that still has the slot, and
\* gives its authority up when it publishes.
Captures ==
  /\ pc = "idle" <=> job = NoJob
  /\ job # NoJob => known[job.slot] = job.mirror
  /\ pc = "published" => authority = NoToken

\* A game load may take a slot from its mirror before the slots are reconciled;
\* no form has two slots.
Owners ==
  /\ \A s \in Slots : owner[s] \in {known[s], NoMirror}
  /\ \A s, t \in Slots : s # t /\ known[s] # NoMirror /\ known[t] # NoMirror =>
       known[s].form # known[t].form

\* The scratch target of a capture on its way: there is one, it holds what was
\* rendered, and between publication and swap it is what the slot shows.
Scratch ==
  /\ pc \in {"allocated", "ready", "rendered", "published"} => scratch \in Textures
  /\ pc \in {"rendered", "published"} => content[scratch] = job.mirror
  /\ pc = "published" /\ frames[job.slot] # NoFrame => frames[job.slot].textures = {scratch}

IInv ==
  /\ Typed /\ Captures /\ Owners /\ Scratch
  /\ OneRole /\ ImageOfMirror /\ FrameOfOwner /\ NoFalseFault /\ NoOrphanAuthority

\* The step shows no frame that was not shown.
Fewer ==
  /\ frames' \in [Slots -> ShownFrames \cup {NoFrame}]
  /\ \A s \in Slots : frames'[s] \in {frames[s], NoFrame}

\* The step keeps the scratch target and the spares off the retained targets.
SafeTargets ==
  /\ scratch' \in Textures \cup {NoTexture} /\ spares' \subseteq Textures
  /\ scratch' \notin Retained \cup spares' /\ Retained \cap spares' = {}

\* The step renders into no target that is shown.
SafeContent ==
  /\ content' \in [Textures -> Mirrors \cup {NoMirror}]
  /\ \A t \in Shown : content'[t] = content[t]

LEMMA JobTypes ==
  /\ Jobs = Authorities /\ NoJob = NoToken
  /\ \A j \in Jobs : j # NoJob /\ j.slot \in Slots /\ j.mirror \in Mirrors
  BY PipelineConstants DEF Jobs, Authorities, NoJob

LEMMA ShownFact ==
  \A t : t \in Shown <=> \E s \in Slots : frames[s] # NoFrame /\ t \in frames[s].textures
  BY DEF Shown

LEMMA DropFact ==
  ASSUME Typed, NEW S, NEW withdraw, Drop(S, withdraw)
  PROVE  Fewer /\ authority' \in {authority, NoToken}
  BY DEF Drop, Fewer, Typed

\* While no capture waits for its swap, every shown texture is retained, so the
\* scratch target is not among them.
LEMMA ShownIsRetained ==
  ASSUME IInv, pc # "published"
  PROVE  Shown \subseteq Retained /\ scratch \notin Shown
<1>1. ASSUME NEW t \in Shown PROVE t \in Retained
  <2>1. PICK s \in Slots : frames[s] # NoFrame /\ t \in frames[s].textures
    BY ShownFact
  <2>2. frames[s].textures = {retained[s]} /\ frames[s] \in ShownFrames
    BY <2>1 DEF IInv, Typed, OneRole
  <2>3. t = retained[s] /\ t \in Textures
    BY <2>1, <2>2 DEF ShownFrames
  <2> QED
    BY <2>3, PipelineConstants DEF Retained
<1> QED
  BY <1>1 DEF IInv, OneRole

LEMMA InitIInv == Init => IInv
<1> SUFFICES ASSUME Init PROVE IInv
  OBVIOUS
<1> USE DEF Init, StoreInit
<1>1. Typed /\ Captures /\ Owners /\ Scratch
  BY DEF Typed, Captures, Owners, Scratch, NoJob
<1>2. Retained = {}
  BY DEF Retained
<1>3. OneRole
  BY <1>2 DEF OneRole
<1>4. ImageOfMirror /\ FrameOfOwner /\ NoFalseFault /\ NoOrphanAuthority
  BY DEF ImageOfMirror, FrameOfOwner, NoFalseFault, NoOrphanAuthority
<1> QED
  BY <1>1, <1>3, <1>4 DEF IInv

-----------------------------------------------------------------------------
\* Revoked frames disturb nothing else, in any state of a capture.
LEMMA RevokeKeepsIInv ==
  ASSUME IInv, Fewer, authority' \in {authority, NoToken},
         owner' \in [Slots -> Mirrors \cup {NoMirror}],
         \A s \in Slots : owner'[s] \in {owner[s], NoMirror},
         pending' \subseteq Mirrors,
         UNCHANGED <<known, targets, content, job, pc, fault>>
  PROVE  IInv'
<1>1. UNCHANGED <<known, scratch, retained, spares, content, job, pc, fault, Retained>>
  BY DEF targets, Retained
<1>2. Typed'
  BY <1>1 DEF IInv, Typed, Fewer
<1>3. Captures' /\ Owners'
  BY <1>1 DEF IInv, Captures, Owners
<1>4. Scratch'
  <2>1. pc \in {"allocated", "ready", "rendered", "published"} => scratch \in Textures
    BY DEF IInv, Scratch
  <2>2. pc \in {"rendered", "published"} => content[scratch] = job.mirror
    BY DEF IInv, Scratch
  <2>3. pc = "published" => job.slot \in Slots
    BY JobTypes DEF IInv, Typed, Captures
  <2>4. pc = "published" /\ frames'[job.slot] # NoFrame => frames'[job.slot].textures = {scratch}
    BY <2>3 DEF IInv, Scratch, Fewer
  <2> QED
    BY <1>1, <2>1, <2>2, <2>4 DEF Scratch
<1>5. OneRole'
  BY <1>1 DEF IInv, OneRole, Fewer
<1>6. ImageOfMirror' /\ FrameOfOwner'
  BY <1>1 DEF IInv, ImageOfMirror, FrameOfOwner, Fewer
<1>7. NoFalseFault' /\ NoOrphanAuthority'
  BY <1>1 DEF IInv, NoFalseFault, NoOrphanAuthority
<1> QED
  BY <1>2, <1>3, <1>4, <1>5, <1>6, <1>7 DEF IInv

\* The end of a capture that does not publish: its authority is gone with it.
LEMMA FinishKeepsIInv ==
  ASSUME IInv, pc \notin {"idle", "published"}, Finish, Keep \/ Lose \/ InvalidateReflectedFrames,
         SafeTargets, SafeContent, fault' # "alias"
  PROVE  IInv'
<1>1. pc' = "idle" /\ job' = NoJob /\ UNCHANGED <<owner, known, retained, pending, Retained>>
  BY DEF Finish, Retained
<1>2. Fewer
  BY DropFact DEF IInv, Keep, Lose, InvalidateReflectedFrames
<1>3. authority' = NoToken
  <2>1. job \in Jobs
    BY DEF IInv, Typed, Captures
  <2>2. authority = NoToken \/ authority = job
    BY DEF IInv, NoOrphanAuthority
  <2> QED
    BY <2>1, <2>2 DEF Keep, Lose, InvalidateReflectedFrames, Drop
<1>4. Typed'
  BY <1>1, <1>2 DEF IInv, Typed, Fewer, SafeTargets, SafeContent
<1>5. Captures' /\ Owners' /\ Scratch'
  BY <1>1, <1>3 DEF IInv, Captures, Owners, Scratch
<1>6. OneRole'
  BY <1>1, <1>2 DEF IInv, OneRole, SafeTargets, Fewer
<1>7. ImageOfMirror'
  <2>1. ASSUME NEW s \in Slots, frames'[s] # NoFrame, NEW t \in frames'[s].textures
        PROVE  content'[t] = frames'[s].mirror
    <3>1. frames[s] = frames'[s]
      BY <1>2, <2>1 DEF Fewer
    <3>2. t \in Shown /\ content[t] = frames[s].mirror
      BY <2>1, <3>1, ShownFact DEF IInv, ImageOfMirror
    <3> QED
      BY <3>1, <3>2 DEF SafeContent
  <2> QED
    BY <2>1 DEF ImageOfMirror
<1>8. FrameOfOwner' /\ NoFalseFault' /\ NoOrphanAuthority'
  BY <1>1, <1>2, <1>3 DEF IInv, FrameOfOwner, Fewer, NoFalseFault, NoOrphanAuthority
<1> QED
  BY <1>4, <1>5, <1>6, <1>7, <1>8 DEF IInv

\* Whatever target a capture is given, it is not shown and not retained.
LEMMA EnsureFact ==
  ASSUME IInv, pc = "begun", NEW target \in Textures \cup {NoTexture}, Ensure(target),
         scratch' = target
  PROVE  SafeTargets /\ SafeContent
<1>1. CASE target = scratch /\ UNCHANGED <<spares, content>>
  BY <1>1 DEF SafeTargets, SafeContent, IInv, Typed, OneRole
<1>2. CASE /\ target # scratch
           /\ target \in spares \cup (Textures \ InUse) \cup {NoTexture}
           /\ spares' \in SUBSET ((spares \cup {scratch}) \ {target, NoTexture})
           /\ content' = IF target \in Textures \ InUse
                         THEN [content EXCEPT ![target] = NoMirror] ELSE content
  <2>1. target \notin Retained
    BY <1>2, PipelineConstants DEF InUse, IInv, OneRole, Retained
  <2>2. SafeTargets
    BY <1>2, <2>1 DEF SafeTargets, IInv, Typed, OneRole
  <2>3. target \in Textures \ InUse => target \notin Shown
    BY DEF InUse
  <2>4. SafeContent
    BY <1>2, <2>3 DEF SafeContent, IInv, Typed
  <2> QED
    BY <2>2, <2>4
<1> QED
  BY <1>1, <1>2 DEF Ensure

LEMMA PaintFact ==
  ASSUME IInv, pc = "ready", NEW m \in Mirrors \cup {NoMirror}, Painted(m)
  PROVE  SafeContent /\ content'[scratch] = m
<1>1. scratch \notin Shown /\ scratch \in Textures
  BY ShownIsRetained DEF IInv, Scratch
<1> QED
  BY <1>1 DEF Painted, SafeContent, IInv, Typed

\* The alias checks find nothing: the mirror's frame is in its own slot, and is
\* the target that slot retains.
LEMMA NotAliased ==
  ASSUME IInv, pc = "allocated"
  PROVE  ~Aliased
<1>1. scratch \notin Shown
  BY ShownIsRetained
<1>2. job \in Jobs /\ known[job.slot] = job.mirror /\ job.slot \in Slots /\ job.mirror \in Mirrors
  BY JobTypes DEF IInv, Typed, Captures
<1>3. ASSUME NEW s \in Slots, Shows(s, job.mirror), retained[job.slot] # NoTexture
      PROVE  RoleIsDisjoint(scratch)
  <2>1. known[s] = job.mirror
    BY <1>3 DEF Shows, IInv, FrameOfOwner
  <2>2. s = job.slot
    BY <1>2, <2>1, PipelineConstants DEF IInv, Owners
  <2>3. frames[s].textures = {retained[job.slot]}
    BY <1>3, <2>2 DEF Shows, IInv, OneRole
  <2>4. scratch # retained[job.slot]
    BY <1>2, <1>3 DEF IInv, OneRole, Retained
  <2> QED
    BY <1>1, <1>3, <2>3, <2>4 DEF RoleIsDisjoint
<1> QED
  BY <1>1, <1>3 DEF Aliased

-----------------------------------------------------------------------------
(* One lemma per action that does more than revoke or fail. *)

\* The fence: a slot keeps its frame only with its owner, and then its target.
LEMMA FenceKeepsIInv ==
  ASSUME IInv, NEW o \in Reassignments, NEW reserved \in SUBSET Mirrors, Fence(o, reserved)
  PROVE  IInv'
<1>1. /\ pc = "idle" /\ owner' = o /\ known' = o /\ pending' = reserved
      /\ UNCHANGED <<spares, content, job, pc, fault>> /\ scratch' \in {scratch, NoTexture}
      /\ retained' \in [Slots -> Textures \cup {NoTexture}]
      /\ \A s \in Slots : /\ retained'[s] \in {retained[s], NoTexture}
                          /\ known[s] = o[s] => retained'[s] = retained[s]
  BY DEF Fence, IInv, Typed
<1>2. Drop(ChangedSlots(o), FALSE)
  BY DEF Fence
<1>3. Fewer /\ authority' \in {authority, NoToken}
  BY <1>2, DropFact DEF IInv
<1>4. \A s \in Slots : frames'[s] # NoFrame => frames'[s] = frames[s] /\ known[s] = o[s]
  BY <1>2 DEF Drop, ChangedSlots
<1>5. o \in [Slots -> Mirrors \cup {NoMirror}]
      /\ \A s, t \in Slots : s # t /\ o[s] # NoMirror /\ o[t] # NoMirror => o[s].form # o[t].form
  BY DEF Reassignments
<1>6. Retained' \subseteq Retained /\ NoTexture \notin Retained /\ NoTexture \notin spares
  BY <1>1, PipelineConstants DEF Retained, IInv, Typed
<1>7. Typed'
  BY <1>1, <1>3, <1>5 DEF IInv, Typed, Fewer
<1>8. Captures' /\ Owners' /\ Scratch'
  BY <1>1, <1>3, <1>5 DEF IInv, Captures, Owners, Scratch
<1>9. OneRole'
  <2>1. scratch' \notin Retained' \cup spares' /\ Retained' \cap spares' = {}
    BY <1>1, <1>6 DEF IInv, OneRole
  <2>2. \A s, t \in Slots : s # t /\ retained'[s] = retained'[t] => retained'[s] = NoTexture
    BY <1>1 DEF IInv, OneRole
  <2>3. \A s \in Slots : frames'[s] # NoFrame => frames'[s].textures = {retained'[s]}
    BY <1>1, <1>4 DEF IInv, OneRole
  <2> QED
    BY <2>1, <2>2, <2>3 DEF OneRole
<1>10. ImageOfMirror' /\ FrameOfOwner'
  BY <1>1, <1>4 DEF IInv, ImageOfMirror, FrameOfOwner
<1>11. NoFalseFault' /\ NoOrphanAuthority'
  BY <1>1, <1>3 DEF IInv, NoFalseFault, NoOrphanAuthority
<1> QED
  BY <1>7, <1>8, <1>9, <1>10, <1>11 DEF IInv

LEMMA BeginKeepsIInv ==
  ASSUME IInv, NEW m \in Mirrors, NEW s \in Slots, Begin(m, s)
  PROVE  IInv'
<1>1. /\ pc = "idle" /\ owner[s] = m /\ pc' = "begun" /\ pending' = pending \ {m}
      /\ job' = [mirror |-> m, slot |-> s] /\ authority' = [mirror |-> m, slot |-> s]
      /\ UNCHANGED <<owner, known, scratch, retained, spares, content, fault, Retained>>
  BY DEF Begin, Authorise, targets, Retained
<1>2. job' \in Jobs /\ job' # NoJob /\ job'.slot = s /\ job'.mirror = m
  BY <1>1, JobTypes DEF Jobs
<1>3. Fewer
  BY DEF Begin, Authorise, Fewer, IInv, Typed
<1>4. known[s] = m
  BY <1>1, PipelineConstants DEF IInv, Owners
<1>5. Typed'
  BY <1>1, <1>2, <1>3 DEF IInv, Typed, Fewer
<1>6. Captures' /\ Owners' /\ Scratch'
  BY <1>1, <1>2, <1>4 DEF IInv, Captures, Owners, Scratch
<1>7. OneRole' /\ ImageOfMirror' /\ FrameOfOwner'
  BY <1>1, <1>3 DEF IInv, OneRole, ImageOfMirror, FrameOfOwner, Fewer
<1>8. NoFalseFault' /\ NoOrphanAuthority'
  BY <1>1 DEF IInv, NoFalseFault, NoOrphanAuthority
<1> QED
  BY <1>5, <1>6, <1>7, <1>8 DEF IInv

\* A capture goes on with its frames, its slots and its authority untouched.
LEMMA AdvanceKeepsIInv ==
  ASSUME IInv, pc \notin {"idle", "published"}, pc' \in {"allocated", "ready", "rendered"},
         SafeTargets, SafeContent, scratch' \in Textures,
         pc' = "rendered" => content'[scratch'] = job.mirror,
         UNCHANGED <<frames, authority, owner, known, retained, pending, job, fault>>
  PROVE  IInv'
<1>1. Retained' = Retained
  BY DEF Retained
<1>2. Typed'
  BY DEF IInv, Typed, SafeTargets, SafeContent
<1>3. Captures' /\ Owners' /\ Scratch'
  BY DEF IInv, Captures, Owners, Scratch
<1>4. OneRole' /\ FrameOfOwner' /\ NoFalseFault' /\ NoOrphanAuthority'
  BY <1>1 DEF IInv, OneRole, SafeTargets, FrameOfOwner, NoFalseFault, NoOrphanAuthority
<1>5. ImageOfMirror'
  <2>1. ASSUME NEW s \in Slots, frames[s] # NoFrame, NEW t \in frames[s].textures
        PROVE  content'[t] = frames[s].mirror
    BY <2>1, ShownFact DEF SafeContent, IInv, ImageOfMirror
  <2> QED
    BY <2>1 DEF ImageOfMirror
<1> QED
  BY <1>2, <1>3, <1>4, <1>5 DEF IInv

LEMMA PublishKeepsIInv ==
  ASSUME IInv, Publish
  PROVE  IInv'
<1>1. /\ pc = "rendered" /\ pc' = "published" /\ authority # NoToken /\ authority' = NoToken
      /\ frames' = [frames EXCEPT ![authority.slot] =
                     [mirror |-> authority.mirror, textures |-> {scratch}]]
      /\ UNCHANGED <<owner, known, scratch, retained, spares, content, pending, job, fault, Retained>>
  BY DEF Publish, Complete, PublishedTextures, targets, Retained
<1>2. authority = job /\ job \in Jobs /\ job # NoJob /\ job.slot \in Slots /\ job.mirror \in Mirrors
      /\ known[job.slot] = job.mirror /\ scratch \in Textures /\ content[scratch] = job.mirror
  BY <1>1, JobTypes DEF IInv, Typed, Captures, Scratch, NoOrphanAuthority
<1> DEFINE new == [mirror |-> job.mirror, textures |-> {scratch}]
<1>3. new \in ShownFrames /\ new.mirror = job.mirror /\ new.textures = {scratch} /\ new # NoFrame
  BY <1>2, PipelineConstants DEF ShownFrames
<1> HIDE DEF new
<1>4. /\ frames' \in [Slots -> ShownFrames \cup {NoFrame}] /\ frames'[job.slot] = new
      /\ \A s \in Slots : s # job.slot => frames'[s] = frames[s]
  BY <1>1, <1>2, <1>3 DEF IInv, Typed, new
<1>5. Typed'
  BY <1>1, <1>4 DEF IInv, Typed
<1>6. Captures' /\ Owners' /\ Scratch'
  BY <1>1, <1>2, <1>3, <1>4 DEF IInv, Captures, Owners, Scratch
<1>7. OneRole'
  BY <1>1, <1>4 DEF IInv, OneRole
<1>8. ImageOfMirror' /\ FrameOfOwner'
  BY <1>1, <1>2, <1>3, <1>4 DEF IInv, ImageOfMirror, FrameOfOwner
<1>9. NoFalseFault' /\ NoOrphanAuthority'
  BY <1>1 DEF IInv, NoFalseFault, NoOrphanAuthority
<1> QED
  BY <1>5, <1>6, <1>7, <1>8, <1>9 DEF IInv

\* The swap gives the slot the target it shows, and the capture ends.
LEMMA SwapKeepsIInv ==
  ASSUME IInv, Swap
  PROVE  IInv'
<1>1. /\ pc = "published" /\ pc' = "idle" /\ job' = NoJob
      /\ scratch' = retained[job.slot] /\ retained' = [retained EXCEPT ![job.slot] = scratch]
      /\ UNCHANGED <<frames, authority, owner, known, spares, content, pending, fault>>
  BY DEF Swap, Exchange
<1>2. job.slot \in Slots /\ scratch \in Textures /\ authority = NoToken
  BY <1>1, JobTypes DEF IInv, Typed, Captures, Scratch
<1>3. /\ scratch' \in Textures \cup {NoTexture}
      /\ retained' \in [Slots -> Textures \cup {NoTexture}] /\ retained'[job.slot] = scratch
      /\ \A s \in Slots : s # job.slot => retained'[s] = retained[s]
  BY <1>1, <1>2 DEF IInv, Typed
<1>4. \A s \in Slots : retained[s] # scratch
  BY <1>2, PipelineConstants DEF IInv, OneRole, Retained
<1>5. \A s \in Slots : s # job.slot /\ retained[s] # NoTexture => retained[s] # scratch'
  BY <1>1, <1>2 DEF IInv, OneRole
<1>6. Typed'
  BY <1>1, <1>3 DEF IInv, Typed
<1>7. Captures' /\ Owners' /\ Scratch'
  BY <1>1 DEF IInv, Captures, Owners, Scratch
<1>8. OneRole'
  <2>1. scratch' \notin Retained'
    BY <1>2, <1>3, <1>4, <1>5, <1>1 DEF Retained
  <2>2. scratch' \notin spares' /\ Retained' \cap spares' = {}
    BY <1>1, <1>2, <1>3, PipelineConstants DEF IInv, Typed, OneRole, Retained
  <2>3. \A s, t \in Slots : s # t /\ retained'[s] = retained'[t] => retained'[s] = NoTexture
    BY <1>3, <1>4 DEF IInv, OneRole
  <2>4. \A s \in Slots : frames'[s] # NoFrame => frames'[s].textures = {retained'[s]}
    BY <1>1, <1>2, <1>3 DEF IInv, OneRole, Scratch
  <2> QED
    BY <2>1, <2>2, <2>3, <2>4 DEF OneRole
<1>9. ImageOfMirror' /\ FrameOfOwner' /\ NoFalseFault' /\ NoOrphanAuthority'
  BY <1>1, <1>2 DEF IInv, ImageOfMirror, FrameOfOwner, NoFalseFault, NoOrphanAuthority
<1> QED
  BY <1>6, <1>7, <1>8, <1>9 DEF IInv

-----------------------------------------------------------------------------
LEMMA StillSafe ==
  ASSUME IInv, UNCHANGED <<scratch, spares>>
  PROVE  SafeTargets
  BY DEF SafeTargets, IInv, Typed, OneRole

LEMMA StillShown ==
  ASSUME IInv, UNCHANGED content
  PROVE  SafeContent
  BY DEF SafeContent, IInv, Typed

\* Every way out that does not publish is one of three.
LEMMA FailFact ==
  ASSUME IInv, NEW target, NEW latched, latched # "alias",
         FailTransient(target) \/ FailFinal \/ FailAll(latched)
  PROVE  Finish /\ (Keep \/ Lose \/ InvalidateReflectedFrames) /\ fault' # "alias"
  BY DEF FailTransient, FailFinal, FailAll, IInv, NoFalseFault

\* The steps between fences: the targets, the pass and the publication.
LEMMA CaptureKeepsIInv ==
  ASSUME IInv,
         \/ \E t \in Textures : EnsureReady(t)
         \/ \E t \in Textures \cup {NoTexture} : EnsureFailed(t)
         \/ CheckRoles
         \/ NotRendered \/ CleanSkip \/ Render \/ RenderFault
         \/ Publish \/ NotPublished \/ Swap
  PROVE  IInv'
<1>1. ASSUME NEW t \in Textures, EnsureReady(t) PROVE IInv'
  <2>1. /\ pc = "begun" /\ pc' = "allocated" /\ scratch' = t /\ Ensure(t)
        /\ UNCHANGED <<frames, authority, owner, known, retained, pending, job, fault>>
    BY <1>1 DEF EnsureReady
  <2>2. SafeTargets /\ SafeContent
    BY <2>1, EnsureFact
  <2> QED
    BY <2>1, <2>2, AdvanceKeepsIInv
<1>2. ASSUME NEW t \in Textures \cup {NoTexture}, EnsureFailed(t) PROVE IInv'
  <2>1. pc = "begun" /\ Ensure(t) /\ scratch' = t
        /\ (FailTransient(t) \/ FailFinal \/ FailAll("pass"))
    BY <1>2 DEF EnsureFailed
  <2>2. SafeTargets /\ SafeContent
    BY <2>1, EnsureFact
  <2> QED
    BY <2>1, <2>2, FailFact, FinishKeepsIInv
<1>3. CASE CheckRoles
  <2>1. ~Aliased /\ pc = "allocated" /\ UNCHANGED <<scratch, spares, content>>
    BY <1>3, NotAliased DEF CheckRoles
  <2>2. SafeTargets /\ SafeContent /\ scratch \in Textures
    BY <2>1, StillSafe, StillShown DEF IInv, Scratch
  <2>3. CASE FailAll(fault)
    BY <2>1, <2>2, <2>3, FailFact, FinishKeepsIInv DEF IInv, NoFalseFault
  <2>4. CASE pc' = "ready" /\ UNCHANGED <<frames, authority, owner, known, retained, pending, job,
                                          fault>>
    BY <2>1, <2>2, <2>4, AdvanceKeepsIInv
  <2> QED
    BY <1>3, <2>1, <2>3, <2>4 DEF CheckRoles
<1>4. CASE NotRendered \/ NotPublished
  <2>1. pc \in {"ready", "rendered"} /\ UNCHANGED <<scratch, spares, content>>
        /\ (FailTransient(scratch) \/ FailFinal \/ FailAll("pass"))
    BY <1>4 DEF NotRendered, NotPublished
  <2> QED
    BY <2>1, StillSafe, StillShown, FailFact, FinishKeepsIInv
<1>5. CASE CleanSkip
  <2>1. pc = "ready" /\ Painted(NoMirror) /\ UNCHANGED <<scratch, spares>>
        /\ (FailTransient(scratch) \/ FailFinal \/ FailAll("pass"))
    BY <1>5 DEF CleanSkip
  <2> QED
    BY <2>1, StillSafe, PaintFact, FailFact, FinishKeepsIInv
<1>6. pc = "ready" => job.mirror \in Mirrors
  BY JobTypes DEF IInv, Typed, Captures
<1>7. CASE Render
  <2>1. /\ pc = "ready" /\ Painted(job.mirror) /\ pc' = "rendered"
        /\ UNCHANGED <<frames, authority, owner, known, scratch, retained, spares, pending, job, fault>>
    BY <1>7 DEF Render, targets
  <2>2. SafeTargets /\ SafeContent /\ content'[scratch] = job.mirror /\ scratch \in Textures
    BY <1>6, <2>1, StillSafe, PaintFact DEF IInv, Scratch
  <2> QED
    BY <2>1, <2>2, AdvanceKeepsIInv
<1>8. CASE RenderFault
  <2>1. PICK m \in {job.mirror, NoMirror} : Painted(m)
    BY <1>8 DEF RenderFault
  <2>2. pc = "ready" /\ scratch' \in {scratch, NoTexture} /\ UNCHANGED spares
        /\ (FailTransient(scratch) \/ FailFinal \/ FailAll("pass"))
    BY <1>8 DEF RenderFault
  <2>3. SafeTargets
    BY <2>2, PipelineConstants DEF SafeTargets, IInv, Typed, OneRole, Retained
  <2>4. SafeContent
    BY <1>6, <2>1, <2>2, PaintFact
  <2> QED
    BY <2>2, <2>3, <2>4, FailFact, FinishKeepsIInv
<1> QED
  BY <1>1, <1>2, <1>3, <1>4, <1>5, <1>7, <1>8, PublishKeepsIInv, SwapKeepsIInv

LEMMA NextKeepsIInv == IInv /\ [Next]_vars => IInv'
<1> SUFFICES ASSUME IInv, [Next]_vars PROVE IInv'
  OBVIOUS
<1>1. ASSUME NEW S, NEW withdraw, Drop(S, withdraw), owner' \in {owner, [s \in Slots |-> NoMirror]},
             pending' \subseteq Mirrors, UNCHANGED <<known, targets, content, job, pc, fault>>
      PROVE  IInv'
  <2>1. Fewer /\ authority' \in {authority, NoToken}
    BY <1>1, DropFact DEF IInv
  <2>2. owner' \in [Slots -> Mirrors \cup {NoMirror}]
        /\ \A s \in Slots : owner'[s] \in {owner[s], NoMirror}
    BY <1>1 DEF IInv, Typed
  <2> QED
    BY <1>1, <2>1, <2>2, RevokeKeepsIInv
<1>2. pending \subseteq Mirrors /\ Admitted \subseteq Mirrors
  BY DEF IInv, Typed, Admitted
<1>3. CASE UNCHANGED vars
  <2>1. Retained' = Retained
    BY <1>3 DEF vars, Retained
  <2> QED
    BY <1>3, <2>1 DEF vars, IInv, Typed, Captures, Owners, Scratch, OneRole, ImageOfMirror,
      FrameOfOwner, NoFalseFault, NoOrphanAuthority
<1>4. ASSUME NEW o \in Reassignments, NEW reserved \in SUBSET Mirrors, Fence(o, reserved) PROVE IInv'
  BY <1>4, FenceKeepsIInv
<1>5. ASSUME NEW reserved \in SUBSET Mirrors, FenceUnreconciled(reserved) PROVE IInv'
  <2>1. Fewer /\ authority' \in {authority, NoToken} /\ pending' \subseteq Mirrors
        /\ UNCHANGED <<owner, known, targets, content, job, pc, fault>>
    BY <1>5 DEF FenceUnreconciled, Fewer, IInv, Typed
  <2>2. owner' \in [Slots -> Mirrors \cup {NoMirror}]
        /\ \A s \in Slots : owner'[s] \in {owner[s], NoMirror}
    BY <2>1 DEF IInv, Typed
  <2> QED
    BY <2>1, <2>2, RevokeKeepsIInv
<1>6. ASSUME NEW remaining \in SUBSET pending, PassAbandoned(remaining) PROVE IInv'
  BY <1>1, <1>2, <1>6 DEF PassAbandoned, InvalidateReflectedFrames
<1>7. ASSUME NEW m \in Mirrors, RejectChanged(m) \/ RejectUnsafe(m) PROVE IInv'
  BY <1>1, <1>2, <1>7 DEF RejectChanged, RejectUnsafe, Reject
<1>8. ASSUME NEW m \in Mirrors, InvalidateCandidate(m.form) PROVE IInv'
  BY <1>1, <1>2, <1>8 DEF InvalidateCandidate
<1>9. CASE OnPreLoadGame
  BY <1>1, <1>9 DEF OnPreLoadGame, InvalidateReflectedFrames
<1>10. CASE OnGameLoaded
  BY <1>1, <1>10 DEF OnGameLoaded, InvalidateReflectedFrames
<1> QED
  BY <1>3, <1>4, <1>5, <1>6, <1>7, <1>8, <1>9, <1>10, BeginKeepsIInv, CaptureKeepsIInv DEF Next

LEMMA Invariant == Spec => []IInv
  BY InitIInv, NextKeepsIInv, PTL DEF Spec

\* What a slot shows was rendered for the mirror that has the slot, whatever was
\* captured, reassigned, parked, swapped, released or revoked since (the targets
\* and ReconcileMirrorSlots of SecondView.cpp).
THEOREM ShownContentHolds == Spec => []ShownContent
<1>1. IInv => ShownContent
  BY DEF IInv, ShownContent
<1> QED
  BY <1>1, Invariant, PTL

\* The scratch target, the retained targets and the spares never share a
\* texture, and a slot shows the target it retains (the swap after Publish).
THEOREM OneRoleHolds == Spec => []OneRole
<1>1. IInv => OneRole
  BY DEF IInv
<1> QED
  BY <1>1, Invariant, PTL

\* The alias checks before a capture never latch the fault that ends all
\* captures (CaptureResourcesDisjoint and the check of the shown frame).
THEOREM NoFalseFaultHolds == Spec => []NoFalseFault
<1>1. IInv => NoFalseFault
  BY DEF IInv
<1> QED
  BY <1>1, Invariant, PTL

\* No way out of a capture leaves its authority to publish behind (finish).
THEOREM NoOrphanAuthorityHolds == Spec => []NoOrphanAuthority
<1>1. IInv => NoOrphanAuthority
  BY DEF IInv
<1> QED
  BY <1>1, Invariant, PTL
=============================================================================
