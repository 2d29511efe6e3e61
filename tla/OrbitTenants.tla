---------------------------- MODULE OrbitTenants ----------------------------
(***************************************************************************)
(* The administration as a whole: users, accounts, plans and images, with  *)
(* their requests in one pool of threads.                                  *)
(***************************************************************************)
EXTENDS OrbitPlans, OrbitImages

CONSTANTS Present,   \* the users there are at the beginning
          FirstQuota \* and their quota

ASSUME TenantsAssumption == Present \subseteq Names /\ FirstQuota \in Quotas

Init ==
    /\ DeskInit
    /\ UsersInit(FirstQuota, Present)
    /\ AccountsInit
    /\ ImagesInit
    /\ PlansInit

Next ==
    \/ \E t \in Threads : \/ AccountRequest(t) \/ AccountStep(t)
                          \/ UserRequest(t) \/ UserStep(t)
                          \/ ImageRequest(t) \/ ImageStep(t)
                          \/ PlanRequest(t) \/ PlanStep(t)
    \/ Outside \/ Jobs \/ \E r \in Rows : Discard(r)

(* Nobody owes a request, and a thread of the portal may be held up for    *)
(* ever by the helper: no fairness.                                        *)
TenantsSpec == Init /\ [][Next]_deskAll

TenantsTypeOK ==
    /\ ops \in Scenarios
    /\ task \in [Threads -> {Idle} \cup ChangeLocals \cup MemberLocals
                             \cup UserLocals \cup ImageLocals \cup PlanLocals \cup BookLocals]
    /\ begun \in Nat
    /\ UsersTypeOK /\ AccountsTypeOK /\ ImagesTypeOK /\ PlansTypeOK
=============================================================================
