----------------------------- MODULE MCServices -----------------------------
(***************************************************************************)
(* The background services checked in one run: delivery of a run's events, *)
(* the enrichment workers, the notification task and the file store.       *)
(* They share a process and no row, so a behaviour follows one of them and *)
(* leaves the others at an initial state.                                  *)
(***************************************************************************)
EXTENDS Delivery, Enrichment, Notifications, FileStore

VARIABLE service   \* which of the four this behaviour follows

servicesVars == <<service, deliveryVars, enrichVars, noticeVars, fileVars>>

(* An operation and an idempotency key with the body it is asked with: one *)
(* key asked for two bodies, and reminders under two keys.                 *)
SomeAsks == {[id |-> <<"create", 1>>, body |-> "a"], [id |-> <<"create", 1>>, body |-> "b"],
             [id |-> <<"reminder", 1>>, body |-> "a"], [id |-> <<"reminder", 2>>, body |-> "a"]}

ServicesInit ==
    /\ service \in {"delivery", "enrichment", "notifications", "files"}
    /\ DeliveryInit /\ EnrichInit /\ NoticeInit /\ FileInit
    /\ service # "enrichment" => widgets = NoWidgets

ServicesNext ==
    /\ UNCHANGED service
    /\ \/ /\ service = "delivery" /\ DeliveryNext
          /\ UNCHANGED <<enrichVars, noticeVars, fileVars>>
       \/ /\ service = "enrichment" /\ EnrichNext
          /\ UNCHANGED <<deliveryVars, noticeVars, fileVars>>
       \/ /\ service = "notifications" /\ NoticeNext
          /\ UNCHANGED <<deliveryVars, enrichVars, fileVars>>
       \/ /\ service = "files" /\ FileNext
          /\ UNCHANGED <<deliveryVars, enrichVars, noticeVars>>

(* The fairness of Delivery and of Enrichment, for the behaviours that     *)
(* follow them.                                                            *)
InDelivery(A) ==
    service = "delivery" /\ A /\ UNCHANGED <<service, enrichVars, noticeVars, fileVars>>
InEnrichment(A) ==
    service = "enrichment" /\ A /\ UNCHANGED <<service, deliveryVars, noticeVars, fileVars>>

ServicesFairness ==
    /\ WF_servicesVars(InDelivery(Emit("end")))
    /\ WF_servicesVars(InDelivery(CommitBatch))
    /\ WF_servicesVars(InDelivery(PublishLive))
    /\ WF_servicesVars(InDelivery(Stop))
    /\ WF_servicesVars(InDelivery(Condemned))
    /\ WF_servicesVars(InDelivery(Listener))
    /\ WF_servicesVars(InEnrichment(Due))
    /\ WF_servicesVars(InEnrichment(LeaseExpires))
    /\ WF_servicesVars(InEnrichment(\E w \in EnrichWorkers : ClaimJob(w)))
    /\ \A w \in EnrichWorkers : WF_servicesVars(InEnrichment(WorkerStep(w)))

ServicesSpec == ServicesInit /\ [][ServicesNext]_servicesVars /\ ServicesFairness

(* Every component keeps the shapes its rows declare. *)
ServicesTypeOK == DeliveryTypeOK /\ EnrichTypeOK /\ NoticeTypeOK /\ FileTypeOK

(* With finitely many lost connections a client hears how its run ended.   *)
StreamEnds == service = "delivery" => EndIsHeard

(* The enrichment of a turn ends for good, whatever crashes.               *)
EnrichmentEnds == service = "enrichment" => EnrichmentSettles
=============================================================================
