----------------------------- MODULE OrbitImages -----------------------------
(***************************************************************************)
(* The personal images of a user, <name>.sqsh in his directory, as they    *)
(* are saved by worker threads, renamed and deleted by him or by root, and *)
(* used by his resources.  A save takes minutes: it looks at the name when *)
(* it begins, exports to <name>.sqsh.part and replaces the image by that.  *)
(* The notes beside the images are left out.                               *)
(***************************************************************************)
EXTENDS OrbitDesk

CONSTANTS Images,  \* image names
          Slots    \* resources of the user

ASSUME ImagesAssumption == None \notin Images /\ Slots # {}

(* The file an export writes is whole when the export has ended.           *)
Content == [id : Nat, whole : BOOLEAN]
Resource == [image : Images \cup {None}, state : {"none", "pending", "running", "ended"}]
ASSUME NoContentAssumption == None \notin Content

ImageSteps == {"save", "start", "export", "swap", "rename", "move", "refs", "unlink",
               "order", "place"}
ImageLocals == [step : ImageSteps, by : {"user", "root"}, name : Images, new : Images,
                slot : Slots, force : BOOLEAN, id : Nat]

Unused == [image |-> None, state |-> "none"]

(* An image saved earlier, and resources that use none yet.                *)
ImagesInit ==
    /\ \E n \in Images : image = [m \in Images |-> IF m = n THEN [id |-> 0, whole |-> TRUE]
                                                            ELSE None]
    /\ part = [n \in Images |-> None]
    /\ saves = 0
    /\ inst = [i \in Slots |-> Unused]

ImagesTypeOK ==
    /\ image \in [Images -> Content \cup {None}]
    /\ part \in [Images -> Content \cup {None}]
    /\ saves \in Nat
    /\ inst \in [Slots -> Resource]

Active(n) == {i \in Slots : inst[i].image = n /\ inst[i].state \in {"pending", "running"}}
Pending(n) == {i \in Slots : inst[i].image = n /\ inst[i].state = "pending"}
Saving(n) == \E t \in Threads : task[t].step \in {"save", "start", "export", "swap"}
                                /\ task[t].name = n

Act(s, by, n, m, i, f) == [step |-> s, by |-> by, name |-> n, new |-> m, slot |-> i,
                           force |-> f, id |-> 0]

-----------------------------------------------------------------------------
(* instance_save_image and cmd_save_image.  Users who keep their saves     *)
(* "apart" wait for the end of one before they save to the same name.      *)

BeginSave(t, i, n, f) ==
    /\ inst[i].state = "running"
    /\ f \/ image[n] = None
    /\ "apart" \in ops => ~Saving(n)
    /\ Begin(t, "save", Act("save", "user", n, n, i, f))
    /\ UNCHANGED <<peopleVars, accountVars, planVars, imageVars>>

(* The helper looks again: the container must run, the name be free.       *)
CheckSave(t) ==
    /\ At(t, "save")
    /\ IF inst[task[t].slot].state = "running" /\ (task[t].force \/ image[task[t].name] = None)
       THEN Goto(t, "start") ELSE Finish(t)
    /\ UNCHANGED <<ops, begun, peopleVars, accountVars, planVars, imageVars>>

(* _cleanup_partial                                                        *)
CleanupPartial(n) == part' = [part EXCEPT ![n] = None]

(* Variant: the export is written to the image itself.                     *)
StartExportInPlace(t) ==
    /\ At(t, "start")
    /\ saves' = saves + 1
    /\ image' = [image EXCEPT ![task[t].name] = [id |-> saves', whole |-> FALSE]]
    /\ Become(t, [task[t] EXCEPT !.step = "export", !.id = saves'])
    /\ UNCHANGED <<ops, begun, peopleVars, accountVars, planVars, part, inst>>

(* enroot export writes a new file; without -f it refuses to when there is *)
(* one, and the helper then removes that one.                              *)
StartExport(t) ==
    /\ At(t, "start")
    /\ LET n == task[t].name IN
       IF part[n] # None /\ ~task[t].force
       THEN CleanupPartial(n) /\ Finish(t) /\ UNCHANGED saves
       ELSE /\ saves' = saves + 1
            /\ part' = [part EXCEPT ![n] = [id |-> saves', whole |-> FALSE]]
            /\ Become(t, [task[t] EXCEPT !.step = "export", !.id = saves'])
    /\ UNCHANGED <<ops, begun, peopleVars, accountVars, planVars, image, inst>>

(* The file is whole now, wherever it has been moved meanwhile.            *)
Completed(f, id) == [n \in Images |-> IF f[n] = [id |-> id, whole |-> FALSE]
                                      THEN [id |-> id, whole |-> TRUE] ELSE f[n]]

ExportEnds(t) ==
    /\ At(t, "export")
    /\ part' = Completed(part, task[t].id)
    /\ image' = Completed(image, task[t].id)
    /\ Goto(t, "swap")
    /\ UNCHANGED <<ops, begun, peopleVars, accountVars, planVars, saves, inst>>

(* Variant: the image that was to be replaced is removed too.              *)
ExportFailsCleaning(t) ==
    /\ "fail" \in ops
    /\ At(t, "export")
    /\ CleanupPartial(task[t].name)
    /\ image' = [image EXCEPT ![task[t].name] = None]
    /\ Finish(t)
    /\ UNCHANGED <<ops, begun, peopleVars, accountVars, planVars, saves, inst>>

(* The container ends, the quota is reached, the image is too large.       *)
ExportFails(t) ==
    /\ "fail" \in ops
    /\ At(t, "export")
    /\ CleanupPartial(task[t].name)
    /\ Finish(t)
    /\ UNCHANGED <<ops, begun, peopleVars, accountVars, planVars, image, saves, inst>>

(* _replace_partial_checked: whatever is under the fixed name.             *)
Swap(t) ==
    /\ At(t, "swap")
    /\ LET n == task[t].name IN
       /\ image' = IF part[n] = None THEN image ELSE [image EXCEPT ![n] = part[n]]
       /\ CleanupPartial(n)
    /\ Finish(t)
    /\ UNCHANGED <<ops, begun, peopleVars, accountVars, planVars, saves, inst>>

-----------------------------------------------------------------------------
(* image_rename, admin_image_rename                                        *)

(* Variant: the resources in the queue are not looked at.                  *)
BeginRenameUnguarded(t, n, m) ==
    /\ n # m /\ image[n] # None /\ image[m] = None
    /\ Begin(t, "rename", Act("rename", "user", n, m, CHOOSE i \in Slots : TRUE, FALSE))
    /\ UNCHANGED <<peopleVars, accountVars, planVars, imageVars>>

(* A resource in the queue still needs the file under its name.            *)
BeginRename(t, n, m) ==
    /\ n # m /\ image[n] # None /\ image[m] = None
    /\ Pending(n) = {}
    /\ Begin(t, "rename", Act("rename", "user", n, m, CHOOSE i \in Slots : TRUE, FALSE))
    /\ UNCHANGED <<peopleVars, accountVars, planVars, imageVars>>

(* root renames without looking at them.                                   *)
BeginRootRename(t, n, m) ==
    /\ n # m /\ image[n] # None /\ image[m] = None
    /\ Begin(t, "root-rename", Act("rename", "root", n, m, CHOOSE i \in Slots : TRUE, FALSE))
    /\ UNCHANGED <<peopleVars, accountVars, planVars, imageVars>>

CheckRename(t) ==
    /\ At(t, "rename")
    /\ IF image[task[t].name] # None /\ image[task[t].new] = None
       THEN Goto(t, "move") ELSE Finish(t)
    /\ UNCHANGED <<ops, begun, peopleVars, accountVars, planVars, imageVars>>

(* os.rename replaces what has come under the new name meanwhile.          *)
Move(t) ==
    /\ At(t, "move")
    /\ LET n == task[t].name IN
       IF image[n] = None
       THEN Finish(t) /\ UNCHANGED image
       ELSE /\ image' = [image EXCEPT ![task[t].new] = image[n], ![n] = None]
            /\ Goto(t, "refs")
    /\ UNCHANGED <<ops, begun, peopleVars, accountVars, planVars, part, saves, inst>>

(* rename_image_refs, rename_image_refs_all                                *)
RenameRefs(t) ==
    /\ At(t, "refs")
    /\ inst' = [i \in Slots |-> IF inst[i].image = task[t].name
                                THEN [inst[i] EXCEPT !.image = task[t].new] ELSE inst[i]]
    /\ Finish(t)
    /\ UNCHANGED <<ops, begun, peopleVars, accountVars, planVars, image, part, saves>>

-----------------------------------------------------------------------------
(* image_delete, admin_image_delete: no resource in the queue or running   *)

BeginImageDelete(t, n, by) ==
    /\ image[n] # None
    /\ Active(n) = {}
    /\ Begin(t, "image-delete", Act("unlink", by, n, n, CHOOSE i \in Slots : TRUE, FALSE))
    /\ UNCHANGED <<peopleVars, accountVars, planVars, imageVars>>

Unlink(t) ==
    /\ At(t, "unlink")
    /\ image' = [image EXCEPT ![task[t].name] = None]
    /\ Finish(t)
    /\ UNCHANGED <<ops, begun, peopleVars, accountVars, planVars, part, saves, inst>>

-----------------------------------------------------------------------------
(* apply_submit and instance_restart, as far as the image goes: it must be *)
(* in the list; a restart uses the recorded one.                           *)

(* allowed_image_paths, as far as it lists the images of the user.         *)
Allowed(n) == image[n] # None

BeginOrder(t, i, n) ==
    /\ inst[i].state \in {"none", "ended"}
    /\ inst[i].state = "ended" => n = inst[i].image
    /\ Allowed(n)
    /\ Begin(t, "order", Act("order", "user", n, n, i, FALSE))
    /\ UNCHANGED <<peopleVars, accountVars, planVars, imageVars>>

(* An administrator orders for a user, from the images of that user.       *)
BeginProxyOrder(t, i, n) ==
    /\ inst[i].state = "none"
    /\ Allowed(n)
    /\ Begin(t, "proxy", Act("order", "root", n, n, i, FALSE))
    /\ UNCHANGED <<peopleVars, accountVars, planVars, imageVars>>

(* The helper submits if the file is there.                                *)
SubmitOrder(t) ==
    /\ At(t, "order")
    /\ IF image[task[t].name] = None THEN Finish(t) ELSE Goto(t, "place")
    /\ UNCHANGED <<ops, begun, peopleVars, accountVars, planVars, imageVars>>

PlaceOrder(t) ==
    /\ At(t, "place")
    /\ inst' = [inst EXCEPT ![task[t].slot] = [image |-> task[t].name, state |-> "pending"]]
    /\ Finish(t)
    /\ UNCHANGED <<ops, begun, peopleVars, accountVars, planVars, image, part, saves>>

(* Slurm starts a job, which fails without its image; a job ends.          *)
JobStart(i) ==
    /\ inst[i].state = "pending"
    /\ inst' = [inst EXCEPT ![i].state =
                   IF image[inst[i].image] = None THEN "ended" ELSE "running"]
    /\ UNCHANGED <<deskVars, peopleVars, accountVars, planVars, image, part, saves>>

JobEnd(i) ==
    /\ inst[i].state \in {"pending", "running"}
    /\ inst' = [inst EXCEPT ![i].state = "ended"]
    /\ UNCHANGED <<deskVars, peopleVars, accountVars, planVars, image, part, saves>>

ImageRequest(t) ==
    \E n \in Images :
        \/ \E m \in Images : BeginRename(t, n, m) \/ BeginRootRename(t, n, m)
        \/ \E by \in {"user", "root"} : BeginImageDelete(t, n, by)
        \/ \E i \in Slots : \/ BeginOrder(t, i, n) \/ BeginProxyOrder(t, i, n)
                            \/ \E f \in BOOLEAN : BeginSave(t, i, n, f)

ImageStep(t) ==
    \/ CheckSave(t) \/ StartExport(t) \/ ExportEnds(t) \/ ExportFails(t) \/ Swap(t)
    \/ CheckRename(t) \/ Move(t) \/ RenameRefs(t) \/ Unlink(t)
    \/ SubmitOrder(t) \/ PlaceOrder(t)

Jobs == \E i \in Slots : JobStart(i) \/ JobEnd(i)

-----------------------------------------------------------------------------
(* What is under the name of an image is never half an image, although it  *)
(* is written in minutes while others read, rename and delete: as long as  *)
(* no two saves of one name overlap.                                       *)
ImagesWhole ==
    "apart" \in ops => \A n \in Images : image[n] # None => image[n].whole

Kept(n) == \E m \in Images : image'[m] # None /\ image'[m].id = image[n].id

(* Nobody renames, or only while nobody saves.                             *)
NamesFixed == \/ {"rename", "root-rename"} \cap ops = {}
              \/ "serial" \in ops /\ "save" \notin ops

(* The content of an image is given up only when it is deleted or when a   *)
(* save was told to overwrite it, also when the save fails, and not by a   *)
(* renaming (saves of one name apart, no renaming behind a save's back).   *)
NothingOverwritten ==
    [][("apart" \in ops /\ NamesFixed) =>
        \A n \in Images : image[n] # None =>
            \/ Kept(n)
            \/ \E t \in Threads : /\ task[t] # task'[t] /\ task[t].name = n
                                  /\ At(t, "unlink") \/ (At(t, "swap") /\ task[t].force)
      ]_deskAll

(* A resource in the queue finds an image under the name it was ordered    *)
(* with, over renamings, deletions, saves in the background and restarts   *)
(* (requests one by one, and root does not rename).                        *)
ImageAtHand ==
    "serial" \in ops /\ "root-rename" \notin ops =>
        \A i \in Slots : inst[i].state = "pending" =>
            image[inst[i].image] # None
=============================================================================
