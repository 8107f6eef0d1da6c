------------------------------ MODULE MCServing ------------------------------
(***************************************************************************)
(* The parts of a serving process that meet in nothing but the process, in *)
(* one run: a behavior is that of one part, the others are switched off.   *)
(*   lives     the first scan, a finalize request, and the end             *)
(*   talk      one run and its progress, told by two workers               *)
(*   views     two requests for two pictures and one slot                  *)
(*   installs  two tabs of the wizard                                      *)
(***************************************************************************)
EXTENDS Lifecycle, Pictures, Installer

Runs == 1 .. MaxRuns

ServingInit ==
  \E part \in {"lives", "talk", "views", "installs"} :
    /\ LifecycleInit(part \in {"lives", "talk"}, IF part = "lives" THEN Handler ELSE {},
                     part # "talk")
    /\ PicturesInit(IF part = "views" THEN 3 ELSE 0)
    /\ InstallerInit(IF part = "installs" THEN 3 ELSE 0)

ServingNext ==
  \/ LifecycleNext /\ UNCHANGED <<pictures, installer>>
  \/ PicturesNext /\ UNCHANGED <<lifecycle, installer>>
  \/ InstallerNext /\ UNCHANGED <<lifecycle, pictures>>

ServingSpec ==
  /\ ServingInit /\ [][ServingNext]_<<lifecycle, pictures, installer>>
  /\ LifecycleFairness /\ PicturesFairness
=============================================================================
