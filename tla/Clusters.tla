------------------------------ MODULE Clusters ------------------------------
(***************************************************************************)
(* One Kubernetes cluster as its administrators see it: create, read, update  *)
(* and delete, while jobs start and stop to refer to it                        *)
(* (internal/api/clusters.go, internal/core/kubernetes_cluster_service.go,      *)
(* internal/store/kubernetes_clusters.go).  An update without credentials       *)
(* keeps the stored ones, which the service reads before the store writes.     *)
(* A request that is refused changes nothing.                                 *)
(***************************************************************************)
EXTENDS Answers

CONSTANTS ClusterAdmin,      \* administrators, each with one request at a time
          ClusterBody,       \* what they send
          ClusterJob,        \* jobs of the tenant
          MaxClusterVersion

VARIABLES
  cluster,     \* row of kubernetes_clusters; version 0: no such row
  referring,   \* jobs whose kubernetes_cluster_id is the cluster
  clKnown,     \* the version each administrator read last
  clReq,       \* the update each has in flight
  clAnswer     \* the code of the last answer to each

clusterVars == <<cluster, referring, clKnown, clReq, clAnswer>>

NoCredentials == [kubeconfig |-> "", token |-> "", ca |-> ""]
NoCluster == [version |-> 0, mode |-> "", server |-> "", credentials |-> NoCredentials,
              max_concurrent_jobs |-> 0]
Gone == [NoCluster EXCEPT !.mode = "gone"]   \* another one would have another id
ClusterIdle == [pc |-> "idle", body |-> NoCluster, left |-> FALSE]

ClusterInit ==
  /\ cluster = NoCluster /\ referring = {}
  /\ clKnown = [a \in ClusterAdmin |-> 0] /\ clReq = [a \in ClusterAdmin |-> ClusterIdle]
  /\ clAnswer = [a \in ClusterAdmin |-> 0]

-----------------------------------------------------------------------------
\* The store's checks, of a body whose capacity 0 stands for 100.

WithCapacity(body) == [body EXCEPT !.max_concurrent_jobs = IF @ = 0 THEN 100 ELSE @]

validateKubernetesCluster(body) ==
  /\ body.max_concurrent_jobs \in 1 .. 1000000
  /\ \/ body.mode = "kubeconfig" /\ body.credentials.kubeconfig # ""
     \/ /\ body.mode = "service_account" /\ body.server \in {"http", "https"}
        /\ body.credentials.token # ""

\* kubernetesWriteStatus: an error that has no name is the fault of the body.
kubernetesWriteStatus(err) == IF err \in {"none", "notFound", "conflict", "inUse"} THEN err ELSE "validation"

Answer(a, code) == clAnswer' = [clAnswer EXCEPT ![a] = code]

CreateKubernetesCluster(body) ==
  IF validateKubernetesCluster(WithCapacity(body))
  THEN /\ cluster' = [WithCapacity(body) EXCEPT !.version = 1] /\ UNCHANGED referring
  ELSE UNCHANGED <<cluster, referring>>

createKubernetesCluster(a, caller, readable, body) ==
  LET refused == FirstRefusal(<<requireTenantAdmin(caller), decode(readable)>>)
      err == IF validateKubernetesCluster(WithCapacity(body)) THEN "none" ELSE "other"
  IN /\ cluster = NoCluster /\ clReq[a] = ClusterIdle /\ clKnown[a] = 0
     /\ IF refused # 0
        THEN Answer(a, refused) /\ UNCHANGED <<cluster, referring>>
        ELSE CreateKubernetesCluster(body) /\ Answer(a, respond(kubernetesWriteStatus(err), 201))
     /\ UNCHANGED <<clKnown, clReq>>

\* getKubernetesCluster and listKubernetesClusters: never the credentials.
getKubernetesCluster(a) ==
  /\ clReq[a] = ClusterIdle /\ cluster.version \notin {0, clKnown[a]}
  /\ clKnown' = [clKnown EXCEPT ![a] = cluster.version]
  /\ Answer(a, 200) /\ UNCHANGED <<cluster, referring, clReq>>

\* Update: without any credential the stored ones, of the same mode.
updateKubernetesCluster(a, caller, body) ==
  LET left == body.credentials = NoCredentials
      refused == requireTenantAdmin(caller)
      err == CASE left /\ cluster.version = 0 -> "notFound"
               [] left /\ cluster.version # 0 /\ cluster.mode # body.mode -> "validation"
               [] OTHER -> "none"
      kept == [body EXCEPT !.version = clKnown[a],
                           !.credentials = IF left THEN cluster.credentials ELSE @]
  IN /\ clReq[a] = ClusterIdle /\ clKnown[a] # 0
     /\ IF refused # 0 \/ err # "none"
        THEN /\ Answer(a, IF refused # 0 THEN refused ELSE respond(err, 200))
             /\ UNCHANGED clReq
        ELSE /\ clReq' = [clReq EXCEPT ![a] = [pc |-> "store", body |-> kept, left |-> left]]
             /\ UNCHANGED clAnswer
     /\ UNCHANGED <<cluster, referring, clKnown>>

UpdateKubernetesCluster(a) ==
  LET body == WithCapacity(clReq[a].body)
      err == IF ~validateKubernetesCluster(body) THEN "other"
             ELSE IF cluster.version # body.version THEN "conflict" ELSE "none"
  IN /\ clReq[a].pc = "store" /\ clReq' = [clReq EXCEPT ![a] = ClusterIdle]
     /\ cluster' = IF err = "none" THEN [body EXCEPT !.version = @ + 1] ELSE cluster
     /\ Answer(a, respond(kubernetesWriteStatus(err), 200))
     /\ UNCHANGED <<referring, clKnown>>

\* The foreign key of jobs refuses to delete a cluster that a job refers to.
DeleteKubernetesCluster(version) ==
  IF version # cluster.version THEN "conflict" ELSE IF referring # {} THEN "inUse" ELSE "none"

deleteKubernetesCluster(a, caller) ==
  LET refused == requireTenantAdmin(caller)
      err == DeleteKubernetesCluster(clKnown[a])
  IN /\ clReq[a] = ClusterIdle /\ clKnown[a] # 0
     /\ cluster' = IF refused = 0 /\ err = "none" THEN Gone ELSE cluster
     /\ Answer(a, IF refused # 0 THEN refused ELSE respond(err, 204))
     /\ UNCHANGED <<referring, clKnown, clReq>>

\* A job of the language kubernetes is stored only if its cluster exists, and
\* may go to another cluster or be deleted.
ReferTo(j) ==
  /\ j \notin referring /\ cluster.version # 0 /\ referring' = referring \cup {j}
  /\ UNCHANGED <<cluster, clKnown, clReq, clAnswer>>
ReferNoMore(j) ==
  /\ j \in referring /\ referring' = referring \ {j}
  /\ UNCHANGED <<cluster, clKnown, clReq, clAnswer>>

ClusterNext ==
  \/ \E j \in ClusterJob : ReferTo(j) \/ ReferNoMore(j)
  \/ \E a \in ClusterAdmin : getKubernetesCluster(a) \/ UpdateKubernetesCluster(a)
  \/ \E a \in ClusterAdmin, caller \in {"developer", "admin"} :
       \/ \E body \in ClusterBody, readable \in BOOLEAN :
            createKubernetesCluster(a, caller, readable, body)
       \/ /\ cluster.version < MaxClusterVersion
          /\ \E body \in ClusterBody : updateKubernetesCluster(a, caller, body)
       \/ deleteKubernetesCluster(a, caller)

-----------------------------------------------------------------------------
(* An update without credentials keeps the ones the cluster has when it takes   *)
(* effect, and they fit its mode, although they were read before               *)
(* (UpdateKubernetesCluster compares the version).                            *)
CredentialsAreKept ==
  \A a \in ClusterAdmin :
    clReq[a].left /\ clReq'[a] = ClusterIdle /\ cluster' # cluster =>
      cluster'.credentials = cluster.credentials /\ cluster'.mode = cluster.mode
=============================================================================
