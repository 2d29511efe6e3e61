-------------------------- MODULE OrbitImagesProofs --------------------------
(***************************************************************************)
(* Proofs about the personal images of OrbitImages, in the behaviours of   *)
(* OrbitTenants: what is saved, renamed, deleted and ordered at once.      *)
(***************************************************************************)
EXTENDS OrbitTenantsProofs

Savers == {"save", "start", "export", "swap"}

(* What is at hand under a name to the thread that writes to it.           *)
LEMMA ImageTask ==
    ASSUME TypeInv, NEW t \in Threads, task[t].step \in ImageSteps
    PROVE  task[t] \in ImageLocals
  BY TaskTyped, Kinds

(* A save goes on with the name, the resource and the choice it began      *)
(* with.                                                                   *)
LEMMA SaveFlow ==
    ASSUME TypeInv, NEW t \in Threads,
           CheckSave(t) \/ StartExport(t) \/ ExportEnds(t) \/ ExportFails(t) \/ Swap(t)
    PROVE  /\ task[t].step \in Savers /\ Become(t, task'[t]) /\ UNCHANGED ops
           /\ \/ task'[t].step = "idle"
              \/ /\ task'[t].step \in Savers
                 /\ task'[t].name = task[t].name /\ task'[t].force = task[t].force
  <1>1. PICK m \in ImageLocals : m = task[t] /\ m.step \in Savers
    BY ImageTask DEF CheckSave, StartExport, ExportEnds, ExportFails, Swap, At, ImageSteps, Savers
  <1>2. UNCHANGED ops
    BY DEF CheckSave, StartExport, ExportEnds, ExportFails, Swap
  <1>3. PICK i, l : /\ Become(t, l)
                    /\ \/ l = Idle
                       \/ l = [m EXCEPT !.step = "start"] \/ l = [m EXCEPT !.step = "swap"]
                       \/ l = [m EXCEPT !.step = "export", !.id = i]
    BY <1>1 DEF CheckSave, StartExport, ExportEnds, ExportFails, Swap, Goto, Finish
  <1>4. l.step = "idle" \/ (l.step \in Savers /\ l.name = m.name /\ l.force = m.force)
    <2>1. CASE l = Idle
      BY <2>1 DEF Idle
    <2>2. CASE l = [m EXCEPT !.step = "start"] \/ l = [m EXCEPT !.step = "swap"]
      BY <2>2 DEF ImageLocals, Savers
    <2>3. CASE l = [m EXCEPT !.step = "export", !.id = i]
      BY <2>3 DEF ImageLocals, Savers
    <2>4. QED
      BY <1>3, <2>1, <2>2, <2>3
  <1>5. QED
    BY <1>1, <1>2, <1>3, <1>4, BecomeFlow

(* ... and so does every other handler.                                    *)
LEMMA ImageActFlow ==
    ASSUME TypeInv, NEW t \in Threads,
           CheckRename(t) \/ Move(t) \/ RenameRefs(t) \/ Unlink(t) \/ SubmitOrder(t) \/ PlaceOrder(t)
    PROVE  /\ task[t].step \in ImageSteps \ Savers /\ Become(t, task'[t]) /\ UNCHANGED ops
           /\ \/ task'[t].step = "idle"
              \/ /\ task'[t].step \in ImageSteps \ Savers
                 /\ task'[t].name = task[t].name /\ task'[t].new = task[t].new
  <1>1. PICK m \in ImageLocals : m = task[t] /\ m.step \in ImageSteps \ Savers
    BY ImageTask
       DEF CheckRename, Move, RenameRefs, Unlink, SubmitOrder, PlaceOrder, At, ImageSteps, Savers
  <1>2. UNCHANGED ops
    BY DEF CheckRename, Move, RenameRefs, Unlink, SubmitOrder, PlaceOrder
  <1>3. PICK l : /\ Become(t, l)
                 /\ \/ l = Idle
                    \/ \E s \in {"move", "refs", "place"} : l = [m EXCEPT !.step = s]
    BY <1>1 DEF CheckRename, Move, RenameRefs, Unlink, SubmitOrder, PlaceOrder, Goto, Finish
  <1>4. \/ l.step = "idle"
        \/ (l.step \in ImageSteps \ Savers /\ l.name = m.name /\ l.new = m.new)
    BY <1>1, <1>3 DEF ImageLocals, ImageSteps, Savers, Idle
  <1>5. QED
    BY <1>1, <1>2, <1>3, <1>4, BecomeFlow

(* The other handlers and what happens outside the portal.                 *)
LEMMA OtherFlow ==
    ASSUME TypeInv, NEW t \in Threads,
           \/ AccountRequest(t) \/ AccountStep(t) \/ UserRequest(t) \/ UserStep(t)
           \/ PlanRequest(t) \/ PlanStep(t)
    PROVE  /\ task[t].step \notin ImageSteps /\ task'[t].step \notin ImageSteps
           /\ Become(t, task'[t]) /\ UNCHANGED <<ops, imageVars>>
  <1>1. CASE AccountRequest(t) \/ UserRequest(t) \/ PlanRequest(t)
    BY <1>1, AccountRequestFlow, UserRequestFlow, PlanRequestFlow DEF Flows, ImageSteps
  <1>2. CASE AccountStep(t)
    BY <1>2, AccountFlow DEF Flows, ImageSteps, AddSteps, DeleteSteps, MemberSteps
  <1>3. CASE UserStep(t)
    <2>1. UNCHANGED imageVars
      BY <1>3 DEF UserStep, HelperFails, ReplyLost, Provision, Spread, InitLogin, Limit, InsertUser,
                  EmptyNodes, RemoveLogin, DeleteUserRow, Resize, RecordQuota, Look, Note, Gather,
                  Merge, WriteKeys, KeepKey, RewriteKeys, StrikeKey, SetQuota, GetKeys, SetKeys,
                  RowsUnchanged
    <2>2. QED
      BY <1>3, <2>1, UserFlow DEF Flows, ImageSteps, UserSteps
  <1>4. CASE PlanStep(t)
    BY <1>4, PlanFlow DEF Flows, ImageSteps, PlanSteps, BookSteps
  <1>5. QED
    BY <1>1, <1>2, <1>3, <1>4

LEMMA ElsewhereFlow ==
    ASSUME Outside \/ (\E r \in Rows : Discard(r)) \/ UNCHANGED deskAll
    PROVE  UNCHANGED <<ops, task, imageVars>>
  BY DEF Outside, OwnEdit, ByHand, Discard, deskVars, deskAll, PeopleUnchanged

-----------------------------------------------------------------------------
(* Saves of one name apart                                                 *)

ApartInv ==
    "apart" \in ops =>
        \A s, t \in Threads : s # t /\ task[s].step \in Savers /\ task[t].step \in Savers
                              => task[s].name # task[t].name

LEMMA ApartSame ==
    ASSUME TypeInv, ApartInv, UNCHANGED ops, NEW t \in Threads, Become(t, task'[t]),
           \/ task'[t].step \notin Savers
           \/ task[t].step \in Savers /\ task'[t].name = task[t].name
    PROVE  ApartInv'
  BY BecomeFlow DEF ApartInv

LEMMA ApartStep ==
    ASSUME TypeInv, ApartInv, [Next]_deskAll PROVE ApartInv'
  <1>1. ASSUME NEW t \in Threads, ImageRequest(t) PROVE ApartInv'
    <2>1. Flows(t, {"idle"}, {"save", "rename", "unlink", "order"})
      BY <1>1, ImageRequestFlow
    <2>2. ASSUME NEW i \in Slots, NEW n \in Images, NEW f \in BOOLEAN, BeginSave(t, i, n, f)
          PROVE  ApartInv'
      <3>1. task'[t] = Act("save", "user", n, n, i, f)
        BY <2>2, BecomeFlow DEF BeginSave, Begin
      <3>2. task'[t].name = n
        BY <3>1 DEF Act
      <3>3. "apart" \in ops => ~Saving(n)
        BY <2>2 DEF BeginSave
      <3>4. \A s \in Threads \ {t} : task'[s] = task[s]
        BY <2>1, BecomeFlow DEF Flows
      <3>5. UNCHANGED ops
        BY <2>1 DEF Flows
      <3>6. QED
        BY <3>2, <3>3, <3>4, <3>5 DEF ApartInv, Saving, Savers
    <2>3. CASE \A i \in Slots, n \in Images, f \in BOOLEAN : ~BeginSave(t, i, n, f)
      <3>1. PICK l : Become(t, l) /\ l.step \in {"rename", "unlink", "order"}
        <4>1. PICK n, k, by, i : /\ n \in Images
                                 /\ \/ BeginRename(t, n, k) \/ BeginRootRename(t, n, k)
                                    \/ BeginImageDelete(t, n, by) \/ BeginOrder(t, i, n)
                                    \/ BeginProxyOrder(t, i, n)
          BY <1>1, <2>3 DEF ImageRequest
        <4>2. QED
          BY <4>1 DEF BeginRename, BeginRootRename, BeginImageDelete, BeginOrder, BeginProxyOrder,
                      Begin, Act
      <3>2. task'[t].step \notin Savers
        BY <3>1, BecomeFlow DEF Savers
      <3>3. QED
        BY <2>1, <3>2, ApartSame DEF Flows
    <2>4. QED
      BY <2>2, <2>3
  <1>2. ASSUME NEW t \in Threads, ImageStep(t) PROVE ApartInv'
    <2>1. Become(t, task'[t]) /\ UNCHANGED ops
          /\ (task'[t].step \in Savers => task[t].step \in Savers /\ task'[t].name = task[t].name)
      BY <1>2, SaveFlow, ImageActFlow DEF ImageStep, Savers
    <2>2. QED
      BY <2>1, ApartSame
  <1>3. ASSUME NEW t \in Threads,
               \/ AccountRequest(t) \/ AccountStep(t) \/ UserRequest(t) \/ UserStep(t)
               \/ PlanRequest(t) \/ PlanStep(t)
        PROVE  ApartInv'
    BY <1>3, OtherFlow, ApartSame DEF Savers, ImageSteps
  <1>4. ASSUME Outside \/ Jobs \/ (\E r \in Rows : Discard(r)) \/ UNCHANGED deskAll
        PROVE  ApartInv'
    BY <1>4, ElsewhereFlow DEF Jobs, JobStart, JobEnd, deskVars, ApartInv
  <1>5. QED
    BY <1>1, <1>2, <1>3, <1>4 DEF Next

LEMMA ApartCorrect == TenantsSpec => []ApartInv
  <1>1. Init => ApartInv
    BY DEF Init, DeskInit, Idle, ApartInv, Savers
  <1>2. TypeInv /\ ApartInv /\ [Next]_deskAll => ApartInv'
    BY ApartStep
  <1>3. QED
    BY <1>1, <1>2, TypesCorrect, PTL DEF TenantsSpec
-----------------------------------------------------------------------------
(* Whole images                                                            *)

(* l writes the file of n: it exports to it, and the file is the one it    *)
(* began or is whole, or it has done so.                                   *)
Writes(l, n, f) ==
    /\ l.name = n
    /\ \/ l.step = "export" /\ (f.whole \/ f.id = l.id)
       \/ l.step = "swap" /\ f.whole

WholeInv ==
    "apart" \in ops =>
        /\ \A n \in Images : image[n] # None => image[n].whole
        /\ \A n \in Images : part[n] # None => \E t \in Threads : Writes(task[t], n, part[n])

(* Images come and go by their names only, and nobody gives up a file he   *)
(* writes.                                                                 *)
LEMMA WholeSame ==
    ASSUME TypeInv, WholeInv, UNCHANGED <<ops, part>>,
           \A n \in Images : image'[n] = None \/ \E m \in Images : image'[n] = image[m],
           NEW t \in Threads, Become(t, task'[t]), task[t].step \notin {"export", "swap"}
    PROVE  WholeInv'
  <1>1. \A s \in Threads \ {t} : task'[s] = task[s]
    BY BecomeFlow
  <1>2. ASSUME "apart" \in ops, NEW n \in Images, part[n] # None
        PROVE  \E s \in Threads : Writes(task'[s], n, part[n])
    <2>1. PICK s \in Threads : Writes(task[s], n, part[n])
      BY <1>2 DEF WholeInv
    <2>2. s # t
      BY <2>1 DEF Writes
    <2>3. QED
      BY <1>1, <2>1, <2>2
  <1>3. QED
    BY <1>2 DEF WholeInv, Writes

(* Only the thread that saves to a name has a file of it.                  *)
LEMMA WrittenAlone ==
    ASSUME ApartInv, WholeInv, "apart" \in ops, NEW t \in Threads, task[t].step \in Savers,
           task[t].name \in Images, part[task[t].name] # None
    PROVE  Writes(task[t], task[t].name, part[task[t].name])
  BY DEF ApartInv, WholeInv, Writes, Savers

(* The files of the other names while t goes on.                           *)
LEMMA OthersWritten ==
    ASSUME TypeInv, WholeInv, "apart" \in ops, NEW t \in Threads, Become(t, task'[t]),
           NEW n \in Images, n # task[t].name, part[n] # None,
           NEW f, f = part[n] \/ f.whole
    PROVE  \E s \in Threads : Writes(task'[s], n, f)
  <1>1. PICK s \in Threads : Writes(task[s], n, part[n])
    BY DEF WholeInv
  <1>2. task'[s] = task[s]
    BY <1>1, BecomeFlow DEF Writes
  <1>3. Writes(task[s], n, f)
    BY <1>1 DEF Writes
  <1>4. QED
    BY <1>2, <1>3

LEMMA WholeSave ==
    ASSUME TypeInv, ApartInv, WholeInv, NEW t \in Threads, "apart" \in ops,
           StartExport(t) \/ ExportEnds(t) \/ ExportFails(t) \/ Swap(t)
    PROVE  WholeInv'
  <1>1. /\ image \in [Images -> Content \cup {None}] /\ part \in [Images -> Content \cup {None}]
        /\ saves \in Nat
    BY SameTypes DEF ImagesTypeOK
  <1>2. PICK m \in ImageLocals : m = task[t] /\ m.step \in {"start", "export", "swap"}
    BY ImageTask DEF StartExport, ExportEnds, ExportFails, Swap, At, ImageSteps
  <1>3. m.name \in Images /\ Become(t, task'[t]) /\ UNCHANGED ops
    BY <1>2, SaveFlow DEF ImageLocals
  <1>4. part[m.name] # None => Writes(m, m.name, part[m.name])
    BY <1>2, <1>3, WrittenAlone DEF Savers
  <1>5. \A n \in Images : image[n] # None => image[n].whole
    BY DEF WholeInv
  <1>6. CASE StartExport(t)
    <2>1. part[m.name] = None
      BY <1>2, <1>4, <1>6 DEF StartExport, At, Writes
    <2>2. PICK i, l, f : /\ f = [id |-> i, whole |-> FALSE]
                         /\ l = [m EXCEPT !.step = "export", !.id = i]
                         /\ part' = [part EXCEPT ![m.name] = f] /\ Become(t, l)
      BY <1>2, <1>6, <2>1 DEF StartExport
    <2>3. Writes(l, m.name, f)
      BY <2>2 DEF Writes, ImageLocals
    <2>4. task'[t] = l
      BY <2>2, BecomeFlow
    <2>5. ASSUME NEW n \in Images, part'[n] # None
          PROVE  \E s \in Threads : Writes(task'[s], n, part'[n])
      <3>1. CASE n = m.name
        BY <1>1, <1>3, <2>2, <2>3, <2>4, <3>1
      <3>2. CASE n # m.name
        <4>1. part'[n] = part[n]
          BY <1>1, <2>2, <3>2
        <4>2. QED
          BY <1>2, <1>3, <2>5, <3>2, <4>1, OthersWritten
      <3>3. QED
        BY <3>1, <3>2
    <2>6. UNCHANGED image
      BY <1>6 DEF StartExport
    <2>7. QED
      BY <1>5, <2>5, <2>6 DEF WholeInv, Writes
  <1>7. CASE ExportEnds(t)
    <2>1. image' = Completed(image, m.id) /\ part' = Completed(part, m.id) /\ Goto(t, "swap")
      BY <1>2, <1>7 DEF ExportEnds
    <2>2. \A n \in Images : image'[n] # None => image'[n].whole
      BY <1>1, <1>5, <2>1 DEF Completed
    <2>3. task'[t].step = "swap" /\ task'[t].name = m.name
      <3>1. task'[t] = [m EXCEPT !.step = "swap"]
        BY <1>2, <2>1, GotoFlow
      <3>2. QED
        BY <1>2, <3>1 DEF ImageLocals
    <2>4. ASSUME NEW n \in Images, part'[n] # None
          PROVE  \E s \in Threads : Writes(task'[s], n, part'[n])
      <3>1. part[n] # None /\ (part'[n] = part[n] \/ part'[n].whole)
        <4>1. [id |-> m.id, whole |-> FALSE] # None
          <5>1. m.id \in Nat
            BY DEF ImageLocals
          <5>2. [id |-> m.id, whole |-> FALSE] \in Content
            BY <5>1 DEF Content
          <5>3. QED
            BY <5>2, NoContentAssumption
        <4>2. part'[n] = IF part[n] = [id |-> m.id, whole |-> FALSE]
                         THEN [id |-> m.id, whole |-> TRUE] ELSE part[n]
          BY <2>1 DEF Completed
        <4>3. QED
          BY <2>4, <4>1, <4>2
      <3>2. CASE n = m.name
        <4>1. part[n] \in Content /\ (part[n].whole \/ part[n].id = m.id)
          BY <1>1, <1>2, <1>4, <1>7, <3>1, <3>2 DEF Writes, ExportEnds, At
        <4>2. part'[n].whole
          BY <2>1, <4>1 DEF Completed, Content
        <4>3. QED
          BY <2>3, <3>2, <4>2 DEF Writes
      <3>3. CASE n # m.name
        BY <1>2, <1>3, <3>1, <3>3, OthersWritten
      <3>4. QED
        BY <3>2, <3>3
    <2>5. QED
      BY <2>2, <2>4 DEF WholeInv, Writes
  <1>8. CASE ExportFails(t) \/ Swap(t)
    <2>1. part' = [part EXCEPT ![m.name] = None]
      BY <1>2, <1>8 DEF ExportFails, Swap, CleanupPartial
    <2>2. \A n \in Images : image'[n] # None => image'[n].whole
      <3>1. CASE UNCHANGED image
        BY <1>5, <3>1
      <3>2. CASE ~UNCHANGED image
        <4>1. /\ m.step = "swap" /\ part[m.name] # None
              /\ image' = [image EXCEPT ![m.name] = part[m.name]]
          BY <1>2, <1>8, <3>2 DEF ExportFails, Swap, At
        <4>2. part[m.name].whole
          BY <1>4, <4>1 DEF Writes
        <4>3. QED
          BY <1>1, <1>5, <4>1, <4>2
      <3>3. QED
        BY <3>1, <3>2
    <2>3. ASSUME NEW n \in Images, part'[n] # None
          PROVE  \E s \in Threads : Writes(task'[s], n, part'[n])
      <3>1. n # m.name /\ part'[n] = part[n]
        BY <1>1, <2>1, <2>3
      <3>2. QED
        BY <1>2, <1>3, <2>3, <3>1, OthersWritten
    <2>4. QED
      BY <2>2, <2>3 DEF WholeInv, Writes
  <1>9. QED
    BY <1>6, <1>7, <1>8

LEMMA WholeStep ==
    ASSUME TypeInv, ApartInv, WholeInv, [Next]_deskAll PROVE WholeInv'
  <1>1. ASSUME NEW t \in Threads, ImageRequest(t) PROVE WholeInv'
    <2>1. Become(t, task'[t]) /\ task[t].step = "idle" /\ UNCHANGED <<ops, image, part>>
      BY <1>1, ImageRequestFlow DEF Flows, imageVars
    <2>2. QED
      BY <2>1, WholeSame
  <1>2. ASSUME NEW t \in Threads, StartExport(t) \/ ExportEnds(t) \/ ExportFails(t) \/ Swap(t)
        PROVE  WholeInv'
    <2>1. CASE "apart" \in ops
      BY <1>2, <2>1, WholeSave
    <2>2. CASE "apart" \notin ops
      BY <1>2, <2>2, SaveFlow DEF WholeInv
    <2>3. QED
      BY <2>1, <2>2
  <1>3. ASSUME NEW t \in Threads,
               \/ CheckSave(t) \/ CheckRename(t) \/ Move(t) \/ RenameRefs(t) \/ Unlink(t)
               \/ SubmitOrder(t) \/ PlaceOrder(t)
        PROVE  WholeInv'
    <2>1. PICK m \in ImageLocals : m = task[t] /\ m.step \notin {"export", "swap"}
      BY <1>3, ImageTask DEF CheckSave, CheckRename, Move, RenameRefs, Unlink, SubmitOrder,
                             PlaceOrder, At, ImageSteps
    <2>2. image \in [Images -> Content \cup {None}] /\ m.name \in Images
      BY <2>1, SameTypes DEF ImagesTypeOK, ImageLocals
    <2>3. \/ UNCHANGED image
          \/ image' = [image EXCEPT ![m.name] = None]
          \/ image' = [image EXCEPT ![m.new] = image[m.name], ![m.name] = None]
      BY <1>3, <2>1 DEF CheckSave, CheckRename, Move, RenameRefs, Unlink, SubmitOrder, PlaceOrder,
                        imageVars
    <2>4. \A n \in Images : image'[n] = None \/ \E k \in Images : image'[n] = image[k]
      BY <2>2, <2>3
    <2>5. UNCHANGED <<ops, part>>
      BY <1>3 DEF CheckSave, CheckRename, Move, RenameRefs, Unlink, SubmitOrder, PlaceOrder,
                  imageVars
    <2>6. Become(t, task'[t])
      BY <1>3, SaveFlow, ImageActFlow
    <2>7. QED
      BY <2>1, <2>4, <2>5, <2>6, WholeSame
  <1>4. ASSUME NEW t \in Threads,
               \/ AccountRequest(t) \/ AccountStep(t) \/ UserRequest(t) \/ UserStep(t)
               \/ PlanRequest(t) \/ PlanStep(t)
        PROVE  WholeInv'
    <2>1. /\ task[t].step \notin {"export", "swap"} /\ Become(t, task'[t])
          /\ UNCHANGED <<ops, image, part>>
      BY <1>4, OtherFlow DEF ImageSteps, imageVars
    <2>2. QED
      BY <2>1, WholeSame
  <1>5. ASSUME Outside \/ Jobs \/ (\E r \in Rows : Discard(r)) \/ UNCHANGED deskAll
        PROVE  WholeInv'
    <2>1. UNCHANGED <<ops, task, image, part>>
      BY <1>5, ElsewhereFlow DEF Jobs, JobStart, JobEnd, deskVars, imageVars
    <2>2. QED
      BY <2>1 DEF WholeInv, Writes
  <1>6. QED
    BY <1>1, <1>2, <1>3, <1>4, <1>5 DEF Next, ImageStep

LEMMA WholeCorrect == TenantsSpec => []WholeInv
  <1>1. Init => WholeInv
    BY DEF Init, ImagesInit, WholeInv
  <1>2. TypeInv /\ ApartInv /\ WholeInv /\ [Next]_deskAll => WholeInv'
    BY WholeStep
  <1>3. QED
    BY <1>1, <1>2, TypesCorrect, ApartCorrect, PTL DEF TenantsSpec

(* What is found under the name of an image is a whole image, whatever     *)
(* requests and jobs overlap the minutes an export takes, if the saves of  *)
(* one name are kept apart: the file that is swapped in is the one the     *)
(* same thread has written to the end.                                     *)
THEOREM ImagesWholeCorrect == TenantsSpec => []ImagesWhole
  <1>1. WholeInv => ImagesWhole
    BY DEF WholeInv, ImagesWhole
  <1>2. QED
    BY <1>1, WholeCorrect, PTL
-----------------------------------------------------------------------------
(* Images at hand                                                          *)

(* What has been looked up still holds: the image that is ordered is       *)
(* there, no resource in the queue needs the one that goes away.           *)
Ready(l) ==
    /\ l.step = "place" => image[l.name] # None
    /\ l.step \in {"rename", "move", "refs", "unlink"} => Pending(l.name) = {}
    /\ l.step \in {"rename", "move"} => l.name # l.new

OneByOne == "serial" \in ops /\ "root-rename" \notin ops

HandInv ==
    OneByOne =>
        /\ \A i \in Slots : inst[i].state = "pending" =>
               inst[i].image \in Images /\ image[inst[i].image] # None
        /\ \A t \in Threads : Ready(task[t])

(* No image goes away and no resource enters the queue.                    *)
LEMMA HandSame ==
    ASSUME HandInv, UNCHANGED ops,
           \A n \in Images : image[n] # None => image'[n] # None,
           \A i \in Slots : inst'[i].state = "pending" => inst'[i] = inst[i],
           OneByOne => \A s \in Threads : /\ Ready(task'[s])
                                          /\ task'[s].step = "place" => task'[s].name \in Images
    PROVE  HandInv'
  <1>1. OneByOne' = OneByOne
    BY DEF OneByOne
  <1>2. \A n : Pending(n) = {} => Pending(n)' = {}
    BY DEF Pending
  <1>3. ASSUME OneByOne, NEW s \in Threads PROVE Ready(task[s])'
    BY <1>2, <1>3 DEF Ready
  <1>4. QED
    BY <1>1, <1>3 DEF HandInv

LEMMA PlaceTyped ==
    ASSUME TypeInv, NEW t \in Threads, task[t].step \in ImageSteps
    PROVE  task[t].name \in Images /\ task[t].new \in Images /\ task[t].slot \in Slots
  BY ImageTask DEF ImageLocals

(* ... while t goes on.                                                    *)
LEMMA HandGoesOn ==
    ASSUME TypeInv, HandInv, UNCHANGED ops, NEW t \in Threads, Become(t, task'[t]),
           \A n \in Images : image[n] # None => image'[n] # None,
           UNCHANGED inst,
           OneByOne => /\ Ready(task'[t])
                       /\ task'[t].step = "place" => task'[t].name \in Images
    PROVE  HandInv'
  <1>1. ASSUME OneByOne, NEW s \in Threads
        PROVE  Ready(task'[s]) /\ (task'[s].step = "place" => task'[s].name \in Images)
    <2>1. CASE s = t
      BY <1>1, <2>1
    <2>2. CASE s # t
      <3>1. task'[s] = task[s]
        BY <2>2, BecomeFlow
      <3>2. task[s].step = "place" => task[s].name \in Images
        BY PlaceTyped DEF ImageSteps
      <3>3. QED
        BY <1>1, <3>1, <3>2 DEF HandInv
    <2>3. QED
      BY <2>1, <2>2
  <1>2. QED
    BY <1>1, HandSame

(* A handler at work has nobody but saves beside it.                       *)
LEMMA HandAlone ==
    ASSUME TypeInv, SingleInv, UNCHANGED ops, NEW t \in Threads, Become(t, task'[t]),
           task[t].step \in ImageSteps \ Savers, OneByOne => Ready(task[t])',
           OneByOne => \A i \in Slots : inst'[i].state = "pending" =>
                           inst'[i].image \in Images /\ image'[inst'[i].image] # None
    PROVE  HandInv'
  <1>1. OneByOne' = OneByOne
    BY DEF OneByOne
  <1>2. ASSUME OneByOne, NEW s \in Threads PROVE Ready(task[s])'
    <2>1. CASE s = t
      BY <1>2, <2>1
    <2>2. CASE s # t
      <3>1. task'[s] = task[s]
        BY <2>2, BecomeFlow
      <3>2. task[s].step \in SaveSteps
        BY <1>2, <2>2 DEF SingleInv, Apart, OneByOne, SaveSteps, Savers, ImageSteps
      <3>3. QED
        BY <3>1, <3>2 DEF Ready, SaveSteps
    <2>3. QED
      BY <2>1, <2>2
  <1>3. QED
    BY <1>1, <1>2 DEF HandInv

LEMMA HandRequest ==
    ASSUME TypeInv, HandInv, NEW t \in Threads, ImageRequest(t) PROVE HandInv'
  <1>1. Become(t, task'[t]) /\ UNCHANGED <<ops, image, inst>>
    BY ImageRequestFlow DEF Flows, imageVars
  <1>2. PICK n, k, by, i, f : /\ n \in Images
                              /\ \/ BeginRename(t, n, k) \/ BeginRootRename(t, n, k)
                                 \/ BeginImageDelete(t, n, by) \/ BeginOrder(t, i, n)
                                 \/ BeginProxyOrder(t, i, n) \/ BeginSave(t, i, n, f)
    BY DEF ImageRequest
  <1>3. CASE BeginRename(t, n, k)
    <2>1. PICK j : Become(t, Act("rename", "user", n, k, j, FALSE)) /\ n # k /\ Pending(n) = {}
      BY <1>3 DEF BeginRename, Begin
    <2>2. task'[t].step = "rename" /\ task'[t].name = n /\ task'[t].new = k
      BY <2>1, BecomeFlow DEF Act
    <2>3. QED
      BY <1>1, <2>1, <2>2, HandGoesOn DEF Ready
  <1>4. CASE BeginRootRename(t, n, k)
    BY <1>1, <1>4 DEF BeginRootRename, Begin, HandInv, OneByOne
  <1>5. CASE BeginImageDelete(t, n, by)
    <2>1. PICK j : Become(t, Act("unlink", by, n, n, j, FALSE)) /\ Pending(n) = {}
      BY <1>5 DEF BeginImageDelete, Begin, Active, Pending
    <2>2. task'[t].step = "unlink" /\ task'[t].name = n
      BY <2>1, BecomeFlow DEF Act
    <2>3. QED
      BY <1>1, <2>1, <2>2, HandGoesOn DEF Ready
  <1>6. CASE BeginOrder(t, i, n) \/ BeginProxyOrder(t, i, n) \/ BeginSave(t, i, n, f)
    <2>1. PICK l : Become(t, l) /\ l.step \in {"order", "save"}
      BY <1>6 DEF BeginOrder, BeginProxyOrder, BeginSave, Begin, Act
    <2>2. task'[t].step \in {"order", "save"}
      BY <2>1, BecomeFlow
    <2>3. QED
      BY <1>1, <2>2, HandGoesOn DEF Ready
  <1>7. QED
    BY <1>2, <1>3, <1>4, <1>5, <1>6

(* What is saved stays or comes.                                           *)
LEMMA SaveKeeps ==
    ASSUME TypeInv, NEW t \in Threads,
           CheckSave(t) \/ StartExport(t) \/ ExportEnds(t) \/ ExportFails(t) \/ Swap(t)
    PROVE  /\ \A n \in Images : image[n] # None => image'[n] # None
           /\ UNCHANGED inst
  <1>1. UNCHANGED inst
    BY DEF CheckSave, StartExport, ExportEnds, ExportFails, Swap, imageVars
  <1>2. /\ image \in [Images -> Content \cup {None}] /\ part \in [Images -> Content \cup {None}]
        /\ task[t] \in ImageLocals
    BY SameTypes, ImageTask
       DEF ImagesTypeOK, CheckSave, StartExport, ExportEnds, ExportFails, Swap, At, ImageSteps
  <1>3. CASE CheckSave(t) \/ StartExport(t) \/ ExportFails(t)
    BY <1>1, <1>3 DEF CheckSave, StartExport, ExportFails, imageVars
  <1>4. CASE ExportEnds(t)
    <2>1. task[t].id \in Nat
      BY <1>2 DEF ImageLocals
    <2>2. [id |-> task[t].id, whole |-> TRUE] \in Content
      BY <2>1 DEF Content
    <2>3. QED
      BY <1>1, <1>4, <2>2, NoContentAssumption DEF ExportEnds, Completed
  <1>5. CASE Swap(t)
    BY <1>1, <1>2, <1>5 DEF Swap
  <1>6. QED
    BY <1>3, <1>4, <1>5

LEMMA HandAct ==
    ASSUME TypeInv, SingleInv, HandInv, NEW t \in Threads,
           CheckRename(t) \/ Move(t) \/ RenameRefs(t) \/ Unlink(t) \/ SubmitOrder(t) \/ PlaceOrder(t)
    PROVE  HandInv'
  <1>1. PICK m \in ImageLocals : m = task[t]
    BY ImageTask
       DEF CheckRename, Move, RenameRefs, Unlink, SubmitOrder, PlaceOrder, At, ImageSteps
  <1>2. /\ m.name \in Images /\ m.new \in Images /\ m.slot \in Slots
        /\ image \in [Images -> Content \cup {None}] /\ inst \in [Slots -> Resource]
    BY <1>1, SameTypes DEF ImageLocals, ImagesTypeOK
  <1>3. /\ task[t].step \in ImageSteps \ Savers /\ Become(t, task'[t]) /\ UNCHANGED ops
        /\ \/ task'[t].step = "idle"
           \/ task'[t].name = m.name /\ task'[t].new = m.new
    BY <1>1, ImageActFlow
  <1>4. OneByOne => /\ Ready(m)
                    /\ \A i \in Slots : inst[i].state = "pending" =>
                           inst[i].image \in Images /\ image[inst[i].image] # None
    BY <1>1 DEF HandInv
  <1>5. CASE CheckRename(t)
    <2>1. task'[t].step \in {"idle", "move"} /\ UNCHANGED <<image, inst>> /\ m.step = "rename"
      BY <1>1, <1>5, FinishFlow, GotoFlow DEF CheckRename, imageVars, At
    <2>2. OneByOne => Ready(task'[t])
      BY <1>3, <1>4, <2>1 DEF Ready
    <2>3. QED
      BY <1>3, <2>1, <2>2, HandGoesOn
  <1>6. CASE SubmitOrder(t)
    <2>1. /\ UNCHANGED <<image, inst>>
          /\ \/ task'[t].step = "idle"
             \/ task'[t].step = "place" /\ image[m.name] # None
      BY <1>1, <1>6, FinishFlow, GotoFlow DEF SubmitOrder, imageVars
    <2>2. Ready(task'[t])
      BY <1>3, <2>1 DEF Ready
    <2>3. QED
      BY <1>2, <1>3, <2>1, <2>2, HandGoesOn
  <1>7. CASE Move(t)
    <2>1. /\ m.step = "move" /\ UNCHANGED inst
          /\ task'[t].step \in {"idle", "refs"}
          /\ \/ UNCHANGED image
             \/ /\ image[m.name] # None
                /\ image' = [image EXCEPT ![m.new] = image[m.name], ![m.name] = None]
      BY <1>1, <1>7, FinishFlow, GotoFlow DEF Move, At
    <2>2. OneByOne => Pending(m.name) = {} /\ m.name # m.new
      BY <1>4, <2>1 DEF Ready
    <2>3. OneByOne => Ready(task[t])'
      BY <1>3, <2>1, <2>2 DEF Ready, Pending
    <2>4. ASSUME OneByOne, NEW i \in Slots, inst'[i].state = "pending"
          PROVE  inst'[i].image \in Images /\ image'[inst'[i].image] # None
      <3>1. inst[i].image \in Images /\ image[inst[i].image] # None /\ inst[i].image # m.name
        BY <1>4, <2>1, <2>2, <2>4 DEF Pending
      <3>2. QED
        BY <1>2, <2>1, <3>1
    <2>5. QED
      BY <1>3, <2>3, <2>4, HandAlone
  <1>8. CASE RenameRefs(t)
    <2>1. /\ m.step = "refs" /\ UNCHANGED image /\ task'[t].step = "idle"
          /\ inst' = [i \in Slots |-> IF inst[i].image = m.name
                                      THEN [inst[i] EXCEPT !.image = m.new] ELSE inst[i]]
      BY <1>1, <1>8, FinishFlow DEF RenameRefs, At
    <2>2. OneByOne => Ready(task[t])'
      BY <2>1 DEF Ready
    <2>3. ASSUME OneByOne, NEW i \in Slots, inst'[i].state = "pending"
          PROVE  inst'[i].image \in Images /\ image'[inst'[i].image] # None
      <3>1. Pending(m.name) = {}
        BY <1>4, <2>1, <2>3 DEF Ready
      <3>2. inst[i].state = "pending"
        BY <1>2, <2>1, <2>3 DEF Resource
      <3>3. inst[i].image # m.name
        BY <3>1, <3>2 DEF Pending
      <3>4. inst'[i] = inst[i]
        BY <2>1, <3>3
      <3>5. QED
        BY <1>4, <2>1, <2>3, <3>2, <3>4
    <2>4. QED
      BY <1>3, <2>2, <2>3, HandAlone
  <1>9. CASE Unlink(t)
    <2>1. /\ m.step = "unlink" /\ UNCHANGED inst /\ task'[t].step = "idle"
          /\ image' = [image EXCEPT ![m.name] = None]
      BY <1>1, <1>9, FinishFlow DEF Unlink, At
    <2>2. OneByOne => Ready(task[t])'
      BY <2>1 DEF Ready
    <2>3. ASSUME OneByOne, NEW i \in Slots, inst'[i].state = "pending"
          PROVE  inst'[i].image \in Images /\ image'[inst'[i].image] # None
      <3>1. Pending(m.name) = {}
        BY <1>4, <2>1, <2>3 DEF Ready
      <3>2. inst[i].image \in Images /\ image[inst[i].image] # None /\ inst[i].image # m.name
        BY <1>4, <2>1, <2>3, <3>1 DEF Pending
      <3>3. QED
        BY <1>2, <2>1, <3>2
    <2>4. QED
      BY <1>3, <2>2, <2>3, HandAlone
  <1>10. CASE PlaceOrder(t)
    <2>1. /\ m.step = "place" /\ UNCHANGED image /\ task'[t].step = "idle"
          /\ inst' = [inst EXCEPT ![m.slot] = [image |-> m.name, state |-> "pending"]]
      BY <1>1, <1>10, FinishFlow DEF PlaceOrder, At
    <2>2. OneByOne => Ready(task[t])'
      BY <2>1 DEF Ready
    <2>3. ASSUME OneByOne, NEW i \in Slots, inst'[i].state = "pending"
          PROVE  inst'[i].image \in Images /\ image'[inst'[i].image] # None
      <3>1. image[m.name] # None
        BY <1>4, <2>1, <2>3 DEF Ready
      <3>2. CASE i = m.slot
        BY <1>2, <2>1, <3>1, <3>2
      <3>3. CASE i # m.slot
        BY <1>2, <1>4, <2>1, <2>3, <3>3
      <3>4. QED
        BY <3>2, <3>3
    <2>4. QED
      BY <1>3, <2>2, <2>3, HandAlone
  <1>11. QED
    BY <1>5, <1>6, <1>7, <1>8, <1>9, <1>10

LEMMA HandStep ==
    ASSUME TypeInv, SingleInv, HandInv, [Next]_deskAll PROVE HandInv'
  <1>1. ASSUME NEW t \in Threads,
               CheckSave(t) \/ StartExport(t) \/ ExportEnds(t) \/ ExportFails(t) \/ Swap(t)
        PROVE  HandInv'
    <2>1. /\ Become(t, task'[t]) /\ UNCHANGED ops
          /\ task'[t].step = "idle" \/ task'[t].step \in Savers
      BY <1>1, SaveFlow
    <2>2. Ready(task'[t]) /\ task'[t].step # "place"
      BY <2>1 DEF Ready, Savers
    <2>3. QED
      BY <1>1, <2>1, <2>2, SaveKeeps, HandGoesOn
  <1>2. ASSUME NEW t \in Threads,
               \/ AccountRequest(t) \/ AccountStep(t) \/ UserRequest(t) \/ UserStep(t)
               \/ PlanRequest(t) \/ PlanStep(t)
        PROVE  HandInv'
    <2>1. /\ task'[t].step \notin ImageSteps /\ Become(t, task'[t])
          /\ UNCHANGED <<ops, image, inst>>
      BY <1>2, OtherFlow DEF imageVars
    <2>2. Ready(task'[t]) /\ task'[t].step # "place"
      BY <2>1 DEF Ready, ImageSteps
    <2>3. QED
      BY <2>1, <2>2, HandGoesOn
  <1>3. ASSUME Jobs PROVE HandInv'
    <2>1. PICK i \in Slots : JobStart(i) \/ JobEnd(i)
      BY <1>3 DEF Jobs
    <2>2. UNCHANGED <<ops, task, image>>
      BY <2>1 DEF JobStart, JobEnd, deskVars
    <2>3. inst \in [Slots -> Resource]
      BY SameTypes DEF ImagesTypeOK
    <2>4. PICK s \in {"running", "ended"} : inst' = [inst EXCEPT ![i].state = s]
      BY <2>1 DEF JobStart, JobEnd
    <2>5. \A j \in Slots : inst'[j].state = "pending" => inst'[j] = inst[j]
      BY <2>3, <2>4 DEF Resource
    <2>6. OneByOne => \A t \in Threads : /\ Ready(task'[t])
                                         /\ task'[t].step = "place" => task'[t].name \in Images
      BY <2>2, PlaceTyped DEF HandInv, ImageSteps
    <2>7. QED
      BY <2>2, <2>5, <2>6, HandSame
  <1>4. ASSUME Outside \/ (\E r \in Rows : Discard(r)) \/ UNCHANGED deskAll PROVE HandInv'
    <2>1. UNCHANGED <<ops, task, image, inst>>
      BY <1>4, ElsewhereFlow DEF imageVars
    <2>2. QED
      BY <2>1 DEF HandInv, OneByOne, Ready, Pending
  <1>5. QED
    BY <1>1, <1>2, <1>3, <1>4, HandRequest, HandAct DEF Next, ImageStep

LEMMA HandCorrect == TenantsSpec => []HandInv
  <1>1. Init => HandInv
    BY DEF Init, DeskInit, ImagesInit, Idle, Unused, HandInv, Ready
  <1>2. TypeInv /\ SingleInv /\ HandInv /\ [Next]_deskAll => HandInv'
    BY HandStep
  <1>3. QED
    BY <1>1, <1>2, TypesCorrect, SingleCorrect, PTL DEF TenantsSpec

(* When requests are sent one by one and root does not rename, a resource  *)
(* in the queue finds its image under the recorded name: a rename, a       *)
(* deletion or the end of a save in the background never takes it away.    *)
THEOREM ImageAtHandCorrect == TenantsSpec => []ImageAtHand
  <1>1. HandInv => ImageAtHand
    BY DEF HandInv, OneByOne, ImageAtHand
  <1>2. QED
    BY <1>1, HandCorrect, PTL
-----------------------------------------------------------------------------
(* Free names                                                              *)

Renames == {"rename", "root-rename"}

(* A name that was free when a save without force or a renaming looked at  *)
(* it is still free.                                                       *)
Free(l) ==
    /\ l.step \in {"rename", "move", "refs"} => Renames \cap ops # {}
    /\ l.step \in Savers => "save" \in ops
    /\ l.step \in {"start", "export", "swap"} /\ ~l.force => image[l.name] = None
    /\ l.step \in {"rename", "move"} => l.name # l.new
    /\ l.step = "move" => image[l.new] = None

Fixed == "apart" \in ops /\ NamesFixed

FreeInv == Fixed => \A t \in Threads : Free(task[t])

(* No image comes.                                                         *)
LEMMA FreeSame ==
    ASSUME TypeInv, FreeInv, UNCHANGED ops, NEW t \in Threads, Become(t, task'[t]),
           \A n \in Images : image[n] = None => image'[n] = None,
           Fixed => Free(task'[t]),
           task'[t].step \in ImageSteps => task'[t].name \in Images /\ task'[t].new \in Images
    PROVE  FreeInv'
  <1>1. Fixed' = Fixed
    BY DEF Fixed, NamesFixed
  <1>2. ASSUME Fixed, NEW s \in Threads
        PROVE  /\ Free(task'[s])
               /\ task'[s].step \in ImageSteps => task'[s].name \in Images /\ task'[s].new \in Images
    <2>1. CASE s = t
      BY <1>2, <2>1
    <2>2. CASE s # t
      <3>1. task'[s] = task[s]
        BY <2>2, BecomeFlow
      <3>2. QED
        BY <1>2, <3>1, PlaceTyped DEF FreeInv
    <2>3. QED
      BY <2>1, <2>2
  <1>3. ASSUME Fixed, NEW s \in Threads PROVE Free(task[s])'
    <2>1. PICK l : l = task'[s]
      OBVIOUS
    <2>2. Free(l) /\ (l.step \in ImageSteps => l.name \in Images /\ l.new \in Images)
      BY <1>2, <1>3, <2>1
    <2>3. /\ l.step \in {"start", "export", "swap"} /\ ~l.force => image'[l.name] = None
          /\ l.step = "move" => image'[l.new] = None
      BY <2>2 DEF Free, ImageSteps
    <2>4. QED
      BY <2>1, <2>2, <2>3 DEF Free
  <1>4. QED
    BY <1>1, <1>3 DEF FreeInv

(* An image comes under the name n only while nobody else counts on that   *)
(* name.                                                                   *)
LEMMA FreeTaken ==
    ASSUME TypeInv, FreeInv, UNCHANGED ops, NEW t \in Threads, Become(t, task'[t]),
           task'[t].step \in {"idle", "refs"}, Fixed => Free(task'[t]),
           NEW n \in Images,
           \A k \in Images \ {n} : image[k] = None => image'[k] = None,
           Fixed => \A s \in Threads \ {t} :
                       /\ task[s].step \in Savers => task[s].name # n
                       /\ task[s].step # "move"
    PROVE  FreeInv'
  <1>1. Fixed' = Fixed
    BY DEF Fixed, NamesFixed
  <1>2. ASSUME Fixed, NEW s \in Threads PROVE Free(task[s])'
    <2>1. CASE s = t
      BY <1>2, <2>1 DEF Free, Savers
    <2>2. CASE s # t
      <3>1. task'[s] = task[s]
        BY <2>2, BecomeFlow
      <3>2. PICK l : l = task[s]
        OBVIOUS
      <3>3. /\ Free(l) /\ l.step # "move"
            /\ l.step \in Savers => l.name \in Images \ {n}
        BY <1>2, <2>2, <3>2, PlaceTyped DEF FreeInv, Savers, ImageSteps
      <3>4. l.step \in {"start", "export", "swap"} /\ ~l.force => image'[l.name] = None
        BY <3>3 DEF Free, Savers
      <3>5. QED
        BY <3>1, <3>2, <3>3, <3>4 DEF Free
    <2>3. QED
      BY <2>1, <2>2
  <1>3. QED
    BY <1>1, <1>2 DEF FreeInv

LEMMA FreeRequest ==
    ASSUME TypeInv, FreeInv, NEW t \in Threads, ImageRequest(t) PROVE FreeInv'
  <1>1. Become(t, task'[t]) /\ UNCHANGED <<ops, image>>
    BY ImageRequestFlow DEF Flows, imageVars
  <1>2. PICK n, k, by, i, f : /\ n \in Images
                              /\ k \in Images
                              /\ \/ BeginRename(t, n, k) \/ BeginRootRename(t, n, k)
                                 \/ BeginImageDelete(t, n, by) \/ BeginOrder(t, i, n)
                                 \/ BeginProxyOrder(t, i, n) \/ BeginSave(t, i, n, f)
    BY DEF ImageRequest
  <1>3. PICK l : /\ Become(t, l) /\ l.name \in Images /\ l.new \in Images
                 /\ \/ l.step = "rename" /\ l.name # l.new /\ Renames \cap ops # {}
                    \/ l.step = "save" /\ "save" \in ops
                    \/ l.step \in {"unlink", "order"}
    <2>1. CASE BeginRename(t, n, k) \/ BeginRootRename(t, n, k)
      <3>1. PICK w, j, l : /\ l = Act("rename", w, n, k, j, FALSE) /\ Become(t, l)
                           /\ n # k /\ Renames \cap ops # {}
        BY <2>1 DEF BeginRename, BeginRootRename, Begin, Renames
      <3>2. l.step = "rename" /\ l.name = n /\ l.new = k
        BY <3>1 DEF Act
      <3>3. QED
        BY <1>2, <3>1, <3>2
    <2>2. CASE BeginSave(t, i, n, f)
      <3>1. PICK l : l = Act("save", "user", n, n, i, f) /\ Become(t, l) /\ "save" \in ops
        BY <2>2 DEF BeginSave, Begin
      <3>2. l.step = "save" /\ l.name = n /\ l.new = n
        BY <3>1 DEF Act
      <3>3. QED
        BY <1>2, <3>1, <3>2
    <2>3. CASE BeginImageDelete(t, n, by)
      <3>1. PICK w, j, l : l = Act("unlink", w, n, n, j, FALSE) /\ Become(t, l)
        BY <2>3 DEF BeginImageDelete, Begin
      <3>2. l.step = "unlink" /\ l.name = n /\ l.new = n
        BY <3>1 DEF Act
      <3>3. QED
        BY <1>2, <3>1, <3>2
    <2>4. CASE BeginOrder(t, i, n) \/ BeginProxyOrder(t, i, n)
      <3>1. PICK w, l : l = Act("order", w, n, n, i, FALSE) /\ Become(t, l)
        BY <2>4 DEF BeginOrder, BeginProxyOrder, Begin
      <3>2. l.step = "order" /\ l.name = n /\ l.new = n
        BY <3>1 DEF Act
      <3>3. QED
        BY <1>2, <3>1, <3>2
    <2>5. QED
      BY <1>2, <2>1, <2>2, <2>3, <2>4
  <1>4. Free(l)
    BY <1>3 DEF Free, Savers
  <1>5. task'[t] = l
    BY <1>3, BecomeFlow
  <1>6. QED
    BY <1>1, <1>3, <1>4, <1>5, FreeSame

LEMMA FreeSave ==
    ASSUME TypeInv, ApartInv, FreeInv, NEW t \in Threads,
           CheckSave(t) \/ StartExport(t) \/ ExportEnds(t) \/ ExportFails(t) \/ Swap(t)
    PROVE  FreeInv'
  <1>1. PICK m \in ImageLocals : m = task[t] /\ m.step \in Savers
    BY ImageTask DEF CheckSave, StartExport, ExportEnds, ExportFails, Swap, At, ImageSteps, Savers
  <1>2. /\ m.name \in Images /\ m.new \in Images /\ m.id \in Nat
        /\ image \in [Images -> Content \cup {None}]
    BY <1>1, SameTypes DEF ImageLocals, ImagesTypeOK
  <1>3. /\ Become(t, task'[t]) /\ UNCHANGED ops
        /\ \/ task'[t].step = "idle"
           \/ /\ task'[t].step \in Savers
              /\ task'[t].name = m.name /\ task'[t].force = m.force
    BY <1>1, SaveFlow
  <1>4. task'[t].step \in ImageSteps => task'[t].name \in Images /\ task'[t].new \in Images
    <2>1. PICK i, l : /\ Become(t, l)
                      /\ \/ l = Idle \/ l = [m EXCEPT !.step = "start"]
                         \/ l = [m EXCEPT !.step = "swap"]
                         \/ l = [m EXCEPT !.step = "export", !.id = i]
      BY <1>1 DEF CheckSave, StartExport, ExportEnds, ExportFails, Swap, Goto, Finish
    <2>2. CASE l = Idle
      BY <2>1, <2>2, BecomeFlow DEF Idle, ImageSteps
    <2>3. CASE l # Idle
      <3>1. l.name = m.name /\ l.new = m.new
        BY <2>1, <2>3 DEF ImageLocals
      <3>2. QED
        BY <1>2, <2>1, <3>1, BecomeFlow
    <2>4. QED
      BY <2>2, <2>3
  <1>5. Fixed => Free(m)
    BY <1>1 DEF FreeInv
  <1>6. CASE CheckSave(t)
    <2>1. /\ UNCHANGED image
          /\ \/ task'[t].step = "idle"
             \/ m.force \/ image[m.name] = None
      BY <1>1, <1>6, FinishFlow DEF CheckSave, imageVars
    <2>2. Fixed => Free(task'[t])
      BY <1>1, <1>3, <1>5, <2>1 DEF Free, Savers
    <2>3. QED
      BY <1>3, <1>4, <2>1, <2>2, FreeSame
  <1>7. CASE StartExport(t) \/ ExportEnds(t) \/ ExportFails(t)
    <2>1. m.step \in {"start", "export"}
      BY <1>1, <1>7 DEF StartExport, ExportEnds, ExportFails, At
    <2>2. \A n \in Images : image[n] = None => image'[n] = None
      <3>1. CASE StartExport(t) \/ ExportFails(t)
        BY <3>1 DEF StartExport, ExportFails
      <3>2. CASE ExportEnds(t)
        <4>1. [id |-> m.id, whole |-> FALSE] \in Content
          BY <1>2 DEF Content
        <4>2. QED
          BY <1>1, <3>2, <4>1, NoContentAssumption DEF ExportEnds, Completed
      <3>3. QED
        BY <1>7, <3>1, <3>2
    <2>3. Fixed => Free(task'[t])
      BY <1>1, <1>3, <1>5, <2>1 DEF Free, Savers
    <2>4. QED
      BY <1>3, <1>4, <2>2, <2>3, FreeSame
  <1>8. CASE Swap(t)
    <2>1. task'[t].step = "idle"
      BY <1>8, FinishFlow DEF Swap
    <2>2. \A k \in Images \ {m.name} : image'[k] = image[k]
      BY <1>1, <1>2, <1>8 DEF Swap
    <2>3. ASSUME Fixed, NEW s \in Threads \ {t}
          PROVE  (task[s].step \in Savers => task[s].name # m.name) /\ task[s].step # "move"
      <3>1. task[s].step \in Savers => task[s].name # m.name
        BY <1>1, <2>3 DEF ApartInv, Fixed
      <3>2. Renames \cap ops = {}
        BY <1>1, <1>5, <2>3 DEF Free, Fixed, NamesFixed, Renames
      <3>3. QED
        BY <2>3, <3>1, <3>2 DEF FreeInv, Free
    <2>4. Free(task'[t])
      BY <2>1 DEF Free, Savers
    <2>5. QED
      BY <1>2, <1>3, <2>1, <2>2, <2>3, <2>4, FreeTaken
  <1>9. QED
    BY <1>6, <1>7, <1>8

LEMMA FreeAct ==
    ASSUME TypeInv, SingleInv, FreeInv, NEW t \in Threads,
           CheckRename(t) \/ Move(t) \/ RenameRefs(t) \/ Unlink(t) \/ SubmitOrder(t) \/ PlaceOrder(t)
    PROVE  FreeInv'
  <1>1. PICK m \in ImageLocals : m = task[t]
    BY ImageTask
       DEF CheckRename, Move, RenameRefs, Unlink, SubmitOrder, PlaceOrder, At, ImageSteps
  <1>2. m.name \in Images /\ m.new \in Images /\ image \in [Images -> Content \cup {None}]
    BY <1>1, SameTypes DEF ImageLocals, ImagesTypeOK
  <1>3. /\ m.step \in ImageSteps \ Savers /\ Become(t, task'[t]) /\ UNCHANGED ops
        /\ \/ task'[t].step = "idle"
           \/ /\ task'[t].step \in ImageSteps \ Savers
              /\ task'[t].name = m.name /\ task'[t].new = m.new
    BY <1>1, ImageActFlow
  <1>4. task'[t].step \in ImageSteps => task'[t].name \in Images /\ task'[t].new \in Images
    BY <1>2, <1>3 DEF ImageSteps
  <1>5. Fixed => Free(m)
    BY <1>1 DEF FreeInv
  <1>6. CASE CheckRename(t)
    <2>1. /\ m.step = "rename" /\ UNCHANGED image
          /\ \/ task'[t].step = "idle"
             \/ task'[t].step = "move" /\ image[m.new] = None
      BY <1>1, <1>6, FinishFlow, GotoFlow DEF CheckRename, imageVars, At
    <2>2. Fixed => Free(task'[t])
      BY <1>3, <1>5, <2>1 DEF Free, Savers
    <2>3. QED
      BY <1>3, <1>4, <2>1, <2>2, FreeSame
  <1>7. CASE RenameRefs(t) \/ Unlink(t) \/ SubmitOrder(t) \/ PlaceOrder(t)
    <2>1. task'[t].step \in {"idle", "place"}
      BY <1>7, FinishFlow, GotoFlow DEF RenameRefs, Unlink, SubmitOrder, PlaceOrder
    <2>2. \A n \in Images : image[n] = None => image'[n] = None
      BY <1>1, <1>2, <1>7 DEF RenameRefs, Unlink, SubmitOrder, PlaceOrder, imageVars
    <2>3. Free(task'[t])
      BY <2>1 DEF Free, Savers
    <2>4. QED
      BY <1>3, <1>4, <2>2, <2>3, FreeSame
  <1>8. CASE Move(t)
    <2>1. m.step = "move" /\ task'[t].step \in {"idle", "refs"}
      BY <1>1, <1>8, FinishFlow, GotoFlow DEF Move, At
    <2>2. \A k \in Images \ {m.new} : image[k] = None => image'[k] = None
      BY <1>1, <1>2, <1>8 DEF Move
    <2>3. Fixed => "serial" \in ops /\ "save" \notin ops
      BY <1>5, <2>1 DEF Free, Fixed, NamesFixed, Renames
    <2>4. ASSUME Fixed, NEW s \in Threads \ {t}
          PROVE  (task[s].step \in Savers => task[s].name # m.new) /\ task[s].step # "move"
      <3>1. task[s].step \in SaveSteps
        BY <1>1, <2>1, <2>3, <2>4 DEF SingleInv, Apart, SaveSteps
      <3>2. task[s].step \notin Savers
        BY <2>3, <2>4 DEF FreeInv, Free
      <3>3. QED
        BY <3>1, <3>2 DEF SaveSteps
    <2>5. Fixed => Free(task'[t])
      BY <1>5, <2>1 DEF Free, Savers
    <2>6. QED
      BY <1>2, <1>3, <2>1, <2>2, <2>4, <2>5, FreeTaken
  <1>9. QED
    BY <1>6, <1>7, <1>8

LEMMA FreeStep ==
    ASSUME TypeInv, SingleInv, ApartInv, FreeInv, [Next]_deskAll PROVE FreeInv'
  <1>1. ASSUME NEW t \in Threads,
               \/ AccountRequest(t) \/ AccountStep(t) \/ UserRequest(t) \/ UserStep(t)
               \/ PlanRequest(t) \/ PlanStep(t)
        PROVE  FreeInv'
    <2>1. /\ task'[t].step \notin ImageSteps /\ Become(t, task'[t]) /\ UNCHANGED <<ops, image>>
      BY <1>1, OtherFlow DEF imageVars
    <2>2. Free(task'[t])
      BY <2>1 DEF Free, ImageSteps, Savers
    <2>3. QED
      BY <2>1, <2>2, FreeSame
  <1>2. ASSUME Outside \/ Jobs \/ (\E r \in Rows : Discard(r)) \/ UNCHANGED deskAll
        PROVE  FreeInv'
    <2>1. UNCHANGED <<ops, task, image>>
      BY <1>2, ElsewhereFlow DEF Jobs, JobStart, JobEnd, deskVars, imageVars
    <2>2. QED
      BY <2>1 DEF FreeInv, Fixed, NamesFixed, Free
  <1>3. QED
    BY <1>1, <1>2, FreeRequest, FreeSave, FreeAct DEF Next, ImageStep

LEMMA FreeCorrect == TenantsSpec => []FreeInv
  <1>1. Init => FreeInv
    BY DEF Init, DeskInit, Idle, FreeInv, Free, Savers
  <1>2. TypeInv /\ SingleInv /\ ApartInv /\ FreeInv /\ [Next]_deskAll => FreeInv'
    BY FreeStep
  <1>3. QED
    BY <1>1, <1>2, TypesCorrect, SingleCorrect, ApartCorrect, PTL DEF TenantsSpec

Given(n) ==
    \E t \in Threads : /\ task[t] # task'[t] /\ task[t].name = n
                       /\ At(t, "unlink") \/ (At(t, "swap") /\ task[t].force)

LEMMA KeptOrGiven ==
    ASSUME TypeInv, FreeInv, Fixed, [Next]_deskAll, NEW n \in Images, image[n] # None
    PROVE  Kept(n) \/ Given(n)
  <1>1. image \in [Images -> Content \cup {None}]
    BY SameTypes DEF ImagesTypeOK
  <1>2. CASE image'[n] = image[n]
    BY <1>2 DEF Kept
  <1>3. ASSUME NEW t \in Threads, ExportEnds(t) PROVE Kept(n)
    <2>1. image'[n] # None /\ image'[n].id = image[n].id
      <3>1. PICK m \in ImageLocals : m = task[t]
        BY <1>3, ImageTask DEF ExportEnds, At, ImageSteps
      <3>2. m.id \in Nat
        BY DEF ImageLocals
      <3>3. [id |-> m.id, whole |-> TRUE] \in Content
        BY <3>2 DEF Content
      <3>4. image'[n] = IF image[n] = [id |-> m.id, whole |-> FALSE]
                        THEN [id |-> m.id, whole |-> TRUE] ELSE image[n]
        BY <1>3, <3>1 DEF ExportEnds, Completed
      <3>5. CASE image[n] = [id |-> m.id, whole |-> FALSE]
        <4>1. PICK f, g : f = [id |-> m.id, whole |-> FALSE] /\ g = [id |-> m.id, whole |-> TRUE]
          OBVIOUS
        <4>2. f.id = g.id /\ g # None
          <5>1. f.id = m.id /\ g.id = m.id
            BY <4>1
          <5>2. g # None
            BY <3>3, <4>1, NoContentAssumption
          <5>3. QED
            BY <5>1, <5>2
        <4>3. image[n] = f /\ image'[n] = g
          BY <3>4, <3>5, <4>1
        <4>4. QED
          BY <4>2, <4>3
      <3>6. CASE image[n] # [id |-> m.id, whole |-> FALSE]
        BY <3>4, <3>6
      <3>7. QED
        BY <3>5, <3>6
    <2>2. QED
      BY <2>1 DEF Kept
  <1>4. ASSUME NEW t \in Threads, Swap(t), image'[n] # image[n] PROVE Given(n)
    <2>1. task[t].name = n /\ At(t, "swap")
      BY <1>1, <1>4 DEF Swap
    <2>2. task[t].force
      BY <2>1 DEF FreeInv, Free, At
    <2>3. task'[t].step = "idle"
      BY <1>4, FinishFlow DEF Swap
    <2>4. task[t] # task'[t]
      BY <2>1, <2>3 DEF At
    <2>5. QED
      BY <2>1, <2>2, <2>4 DEF Given
  <1>5. ASSUME NEW t \in Threads, Unlink(t), image'[n] # image[n] PROVE Given(n)
    <2>1. task[t].name = n /\ At(t, "unlink")
      BY <1>1, <1>5 DEF Unlink
    <2>2. task'[t].step = "idle"
      BY <1>5, FinishFlow DEF Unlink
    <2>3. task[t] # task'[t]
      BY <2>1, <2>2 DEF At
    <2>4. QED
      BY <2>1, <2>3 DEF Given
  <1>6. ASSUME NEW t \in Threads, Move(t), image'[n] # image[n] PROVE Kept(n)
    <2>1. PICK m \in ImageLocals : m = task[t] /\ m.step = "move"
      BY <1>6, ImageTask DEF Move, At, ImageSteps
    <2>2. m.name \in Images /\ m.new \in Images
      BY DEF ImageLocals
    <2>3. image[m.new] = None /\ m.name # m.new
      BY <2>1 DEF FreeInv, Free
    <2>4. image' = [image EXCEPT ![m.new] = image[m.name], ![m.name] = None]
      BY <1>6, <2>1 DEF Move
    <2>5. n = m.name
      BY <1>1, <1>6, <2>2, <2>3, <2>4
    <2>6. image'[m.new] = image[n]
      BY <1>1, <2>2, <2>3, <2>4, <2>5
    <2>7. QED
      BY <2>2, <2>6 DEF Kept
  <1>7. \/ UNCHANGED image
        \/ \E t \in Threads : ExportEnds(t) \/ Swap(t) \/ Unlink(t) \/ Move(t)
    <2>1. ASSUME NEW t \in Threads, ImageRequest(t) PROVE UNCHANGED image
      BY <2>1, ImageRequestFlow DEF imageVars
    <2>2. ASSUME NEW t \in Threads,
                 CheckSave(t) \/ StartExport(t) \/ ExportFails(t) \/ CheckRename(t) \/ RenameRefs(t)
                 \/ SubmitOrder(t) \/ PlaceOrder(t)
          PROVE UNCHANGED image
      BY <2>2 DEF CheckSave, StartExport, ExportFails, CheckRename, RenameRefs, SubmitOrder,
                  PlaceOrder, imageVars
    <2>3. ASSUME NEW t \in Threads,
                 \/ AccountRequest(t) \/ AccountStep(t) \/ UserRequest(t) \/ UserStep(t)
                 \/ PlanRequest(t) \/ PlanStep(t)
          PROVE  UNCHANGED image
      BY <2>3, OtherFlow DEF imageVars
    <2>4. ASSUME Outside \/ Jobs \/ (\E r \in Rows : Discard(r)) \/ UNCHANGED deskAll
          PROVE  UNCHANGED image
      BY <2>4, ElsewhereFlow DEF Jobs, JobStart, JobEnd, imageVars
    <2>5. QED
      BY <2>1, <2>2, <2>3, <2>4 DEF Next, ImageStep
  <1>8. QED
    BY <1>2, <1>3, <1>4, <1>5, <1>6, <1>7

(* The content a name stands for is lost only by a deletion or a save that *)
(* was told to overwrite: the name a save or a renaming has found free is  *)
(* still free minutes later, and a failed save removes its own file only.  *)
THEOREM NothingOverwrittenCorrect == TenantsSpec => NothingOverwritten
  <1> DEFINE Step == ("apart" \in ops /\ NamesFixed) =>
                        \A n \in Images : image[n] # None =>
                            \/ Kept(n)
                            \/ \E t \in Threads :
                                  /\ task[t] # task'[t] /\ task[t].name = n
                                  /\ At(t, "unlink") \/ (At(t, "swap") /\ task[t].force)
  <1>1. TypeInv /\ FreeInv /\ [Next]_deskAll => [Step]_deskAll
    BY KeptOrGiven DEF Fixed, Given
  <1>2. TenantsSpec => [][Step]_deskAll
    <2> HIDE DEF Step
    <2>1. QED
      BY <1>1, TypesCorrect, FreeCorrect, PTL DEF TenantsSpec
  <1>3. QED
    BY <1>2 DEF NothingOverwritten
=============================================================================
