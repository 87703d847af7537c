------------------------------ MODULE Channels ------------------------------
(***************************************************************************)
(* One notification channel as its editors see it: create, read, update,      *)
(* enable and disable, delete (internal/api/integrations.go,                   *)
(* internal/core/notification_service.go, notifications.go,                    *)
(* internal/store/outbox.go).  An update may leave out the configuration,      *)
(* which holds the secrets; the service then reads the one to keep before the   *)
(* store's transaction.  A request that is refused changes nothing.  What a     *)
(* stop does to the deliveries of the channel is in Notifications.           *)
(***************************************************************************)
EXTENDS Answers, FiniteSets, Sequences

CONSTANTS ChannelClient,   \* editors, each with one request at a time
          ChannelBody,     \* what they send
          AlertJob,        \* the jobs there are at first
          MaxChannelVersion

VARIABLES
  channel,     \* row of notification_channels with its notification_channel_jobs
  alertJobs,   \* rows of jobs
  chKnown,     \* the channel each client read last
  chReq        \* the update each client has in flight

channelVars == <<channel, alertJobs, chKnown, chReq>>

\* A configuration: the scheme of its URL, how it authenticates and whether the
\* key for that is there, its recipients, its template.
NoConfig == [url |-> "", auth |-> "", key |-> FALSE, to |-> {}, template |-> ""]
NoChannel == [version |-> 0, kind |-> "", config |-> NoConfig, events |-> {}, all |-> FALSE,
              jobs |-> {}, max_attempts |-> 0, initial |-> 0, max |-> 0, enabled |-> FALSE,
              deleted |-> FALSE]
ChannelIdle == [pc |-> "idle", body |-> NoChannel, left |-> FALSE]

ChannelInit ==
  /\ channel = NoChannel /\ alertJobs = AlertJob
  /\ chKnown = [c \in ChannelClient |-> NoChannel]
  /\ chReq = [c \in ChannelClient |-> ChannelIdle]

live == channel.version # 0 /\ ~channel.deleted

-----------------------------------------------------------------------------
\* What a body goes through.

notificationEventTypes ==
  {"pending", "running", "waiting_callback", "succeeded", "failed", "timed_out", "cancelled",
   "skipped", "exhausted"}

\* A template that does not parse is "bad"; a recipient that is not one, too.
validateNotificationConfig(kind, config) ==
  /\ config # NoConfig /\ config.template # "bad"
  /\ \/ kind = "webhook" /\ config.url \in {"http", "https"}
     \/ /\ kind = "dingtalk" /\ config.url = "https"
        /\ \/ config.auth \in {"", "none"}
           \/ config.auth \in {"access_token", "hmac_sha256"} /\ config.key
     \/ kind = "email" /\ config.to # {} /\ "bad" \notin config.to

\* The stored names have a prefix, the ones a client sends may.
Stored(event) == <<"job.run.", event>>
TrimPrefix(name) == IF Len(name) = 2 /\ name[1] = "job.run." THEN <<name[2]>> ELSE name

normalizeNotificationEvents(events) ==
  {Stored(TrimPrefix(e)[1]) : e \in IF events = {} THEN {<<"exhausted">>} ELSE events}

knownEvents(events) ==
  \A e \in events : Len(TrimPrefix(e)) = 1 /\ TrimPrefix(e)[1] \in notificationEventTypes

normalizeNotificationJobIDs(ids) == ids \subseteq AlertJob

OrDefault(n, default) == IF n = 0 THEN default ELSE n

notificationChannelForWrite(body) ==
  [body EXCEPT !.events = normalizeNotificationEvents(@),
               !.all = @ \/ body.jobs = {},
               !.max_attempts = OrDefault(@, 8),
               !.initial = OrDefault(@, 2),
               !.max = OrDefault(@, 300)]

acceptedForWrite(body) ==
  LET c == notificationChannelForWrite(body)
  IN /\ validateNotificationConfig(body.kind, body.config)
     /\ knownEvents(body.events)
     /\ normalizeNotificationJobIDs(body.jobs)
     /\ ~(body.all /\ body.jobs # {})
     /\ c.max_attempts \in 1 .. 100 /\ c.initial \in 1 .. 3600 /\ c.max \in c.initial .. 86400

\* validateNotificationChannelJobs, and the scope the store checks once more.
validateNotificationChannelJobs(c) ==
  /\ c.all # (c.jobs # {})
  /\ c.all \/ c.jobs \subseteq alertJobs

boundedTo(n, most) == IF n > most THEN most ELSE n
\* An answer can carry every number that may be stored.
boundedInt32(n) == boundedTo(n, 86400)

trimEventPrefixes(events) == {TrimPrefix(e) : e \in events}

notificationChannelToProto(c) ==
  [c EXCEPT !.config = NoConfig, !.events = trimEventPrefixes(@),
            !.max_attempts = boundedInt32(@), !.initial = boundedInt32(@),
            !.max = boundedInt32(@)]

-----------------------------------------------------------------------------
\* Create, list, update.

CreateNotificationChannel(c) ==
  /\ validateNotificationChannelJobs(c)
  /\ channel' = [c EXCEPT !.version = 1, !.enabled = TRUE]

\* The handler takes a body without all_jobs and without jobs for all jobs.
createNotificationChannel(body) ==
  /\ channel = NoChannel
  /\ acceptedForWrite(body) /\ CreateNotificationChannel(notificationChannelForWrite(body))
  /\ UNCHANGED <<alertJobs, chKnown, chReq>>

listNotificationChannels(c) ==
  /\ chReq[c] = ChannelIdle /\ live
  /\ chKnown' = [chKnown EXCEPT ![c] = notificationChannelToProto(channel)]
  /\ chKnown' # chKnown
  /\ UNCHANGED <<channel, alertJobs, chReq>>

\* A client sends a body of its own, or what it read; the version is the one it
\* read.  Update reads the configuration that is left out.
updateNotificationChannel(c, body) ==
  LET left == body.config = NoConfig
      kept == [body EXCEPT !.version = chKnown[c].version,
                           !.config = IF left THEN channel.config ELSE @]
  IN /\ chReq[c] = ChannelIdle /\ chKnown[c].version >= 1
     /\ left => live /\ channel.kind = body.kind
     /\ acceptedForWrite(kept)
     /\ chReq' = [chReq EXCEPT ![c] = [pc |-> "store", left |-> left,
                                       body |-> notificationChannelForWrite(kept)]]
     /\ UNCHANGED <<channel, alertJobs, chKnown>>

ChannelAnswered(c) == chReq' = [chReq EXCEPT ![c] = ChannelIdle]

UpdateNotificationChannel(c) ==
  LET body == chReq[c].body
  IN /\ chReq[c].pc = "store" /\ ChannelAnswered(c)
     /\ channel' = IF /\ live /\ channel.version = body.version
                      /\ validateNotificationChannelJobs(body)
                   THEN [body EXCEPT !.version = channel.version + 1,
                                     !.enabled = channel.enabled]
                   ELSE channel
     /\ UNCHANGED <<alertJobs, chKnown>>

setNotificationChannelEnabled(c, enabled) ==
  /\ chReq[c] = ChannelIdle /\ live
  /\ chKnown[c].version = channel.version
  /\ channel' = [channel EXCEPT !.enabled = enabled, !.version = @ + 1]
  /\ UNCHANGED <<alertJobs, chKnown, chReq>>

deleteNotificationChannel(c) ==
  /\ chReq[c] = ChannelIdle /\ live
  /\ chKnown[c].version = channel.version
  /\ channel' = [channel EXCEPT !.enabled = FALSE, !.deleted = TRUE, !.version = @ + 1]
  /\ UNCHANGED <<alertJobs, chKnown, chReq>>

\* A deleted job takes its rows of notification_channel_jobs along.
DeleteAlertJob(j) ==
  /\ j \in alertJobs /\ alertJobs' = alertJobs \ {j}
  /\ channel' = [channel EXCEPT !.jobs = @ \ {j}]
  /\ UNCHANGED <<chKnown, chReq>>

ChannelNext ==
  \/ \E j \in AlertJob : DeleteAlertJob(j)
  \/ \E c \in ChannelClient : listNotificationChannels(c)
  \/ \E c \in ChannelClient, caller \in Role, readable \in BOOLEAN :
       /\ requireTenantWrite(caller) = 0 /\ decode(readable) = 0
       /\ \/ \E body \in ChannelBody : createNotificationChannel(body)
          \/ /\ channel.version < MaxChannelVersion
             /\ \E body \in ChannelBody \cup {chKnown[c]} : updateNotificationChannel(c, body)
          \/ UpdateNotificationChannel(c)
          \/ /\ channel.version < MaxChannelVersion
             /\ \E enabled \in BOOLEAN : setNotificationChannelEnabled(c, enabled)
          \/ deleteNotificationChannel(c)

-----------------------------------------------------------------------------
(* An update that leaves out the configuration keeps the kind and the          *)
(* configuration the channel has when it takes effect, although they were read  *)
(* before its transaction (UpdateNotificationChannel compares the version).   *)
ConfigIsKept ==
  \A c \in ChannelClient :
    chReq[c].left /\ chReq'[c] = ChannelIdle /\ channel' # channel =>
      channel'.kind = channel.kind /\ channel'.config = channel.config

(* A channel that is saved as it was read is accepted and stays as it is, for   *)
(* every channel that can be stored: names of events get back the prefix they    *)
(* were shown without, no number was cut (notificationChannelToProto,           *)
(* notificationChannelForWrite).  A channel whose jobs were all deleted is the   *)
(* exception: saving it makes it one for all jobs.                            *)
SavedAsRead ==
  live /\ (channel.all \/ channel.jobs # {}) =>
    LET sent == [notificationChannelToProto(channel) EXCEPT !.config = channel.config]
    IN acceptedForWrite(sent) /\ notificationChannelForWrite(sent) = channel
=============================================================================
