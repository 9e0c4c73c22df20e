----------------------------- MODULE ProgressHub -----------------------------
(***************************************************************************)
(* The WebSocket connection manager for render progress, beside the job    *)
(* runner: sockets that watch a video, the job each is bound to, and the   *)
(* broadcasts under way.  A broadcast copies the set of sockets and then   *)
(* awaits one send after another, while sockets come and go.               *)
(***************************************************************************)
EXTENDS RenderJob

CONSTANTS
  Sockets,  \* WebSocket connections
  Watches   \* the video in the URL of each

ASSUME WatchesAssumption == Watches \in [Sockets -> Videos]

VARIABLES
  link,     \* where the endpoint of a socket stands
  wanted,   \* the job the endpoint looked up or was given
  members,  \* _connections: sockets registered
  filter,   \* _socket_job_filter, NoJob for None and for no entry
  cast,     \* the broadcast each producer is in
  seen      \* the status a client saw last, by job

hubVars == <<link, wanted, members, filter, cast, seen>>

(* Those who broadcast: executors, and the cancel request of a job. *)
Producers == Tasks \cup Jobs

Events == {"PROCESSING", "COMPLETED", "FAILED"}

Silent == [job |-> NoJob, event |-> "none", left |-> {}, failed |-> {}]

Casts == [job : Jobs \cup {NoJob}, event : Events \cup {"none"},
          left : SUBSET Sockets, failed : SUBSET Sockets]

HubTypeOK ==
  /\ link \in [Sockets -> {"none", "accepting", "open", "gone"}]
  /\ wanted \in [Sockets -> Jobs \cup {NoJob}]
  /\ members \subseteq Sockets
  /\ filter \in [Sockets -> Jobs \cup {NoJob}]
  /\ cast \in [Producers -> Casts]
  /\ seen \in [Sockets -> [Jobs -> Events \cup {"none"}]]

HubInit ==
  /\ link = [w \in Sockets |-> "none"]
  /\ wanted = [w \in Sockets |-> NoJob]
  /\ members = {}
  /\ filter = [w \in Sockets |-> NoJob]
  /\ cast = [p \in Producers |-> Silent]
  /\ seen = [w \in Sockets |-> [j \in Jobs |-> "none"]]

Quiet(p) == cast[p] = Silent

-----------------------------------------------------------------------------
(* notify_render_progress: with nobody to send to, broadcast returns at     *)
(* once; otherwise it goes on with SendTo.                                  *)

Audience(j) == {w \in members : Watches[w] = VideoOf[j]}

Announcement(j, e) ==
  IF Audience(j) = {} THEN Silent
  ELSE [job |-> j, event |-> e, left |-> Audience(j), failed |-> {}]

Announce(p, j, e) == cast' = [cast EXCEPT ![p] = Announcement(j, e)]

(* disconnect: filter and registration go, also for a socket that has none.  *)
Unregister(gone) ==
  /\ members' = members \ gone
  /\ filter' = [w \in Sockets |-> IF w \in gone THEN NoJob ELSE filter[w]]

(* One turn of broadcast's loop.  The filter is read when the socket's turn *)
(* comes; a send to a client that has gone raises or is lost.  After the    *)
(* last turn the sockets that raised are disconnected.                      *)
SendTo(p, w) ==
  LET c == cast[p]
      hears == filter[w] \in {NoJob, c.job}
  IN
  /\ w \in c.left
  /\ seen' = IF hears /\ link[w] = "open"
             THEN [seen EXCEPT ![w][c.job] = c.event] ELSE seen
  /\ \E bad \in {c.failed} \cup
                IF hears /\ link[w] # "open" THEN {c.failed \cup {w}} ELSE {} :
       IF c.left = {w}
       THEN /\ cast' = [cast EXCEPT ![p] = Silent]
            /\ Unregister(bad)
       ELSE /\ cast' = [cast EXCEPT ![p] = [c EXCEPT !.left = @ \ {w}, !.failed = bad]]
            /\ UNCHANGED <<members, filter>>
  /\ UNCHANGED <<link, wanted>>

-----------------------------------------------------------------------------
(* The endpoint. *)

(* Without a job id the latest active job of the video is looked up; the    *)
(* handshake is awaited afterwards.  A socket that is closed and that no    *)
(* broadcast still has in its copy stands for a new one.                    *)
Open(w) ==
  /\ link[w] = "none"
  /\ \A p \in Producers : w \notin cast[p].left \cup cast[p].failed
  /\ LET ofVideo == {j \in Jobs : VideoOf[j] = Watches[w]}
         active == {j \in ofVideo : IsActive(j)}
     IN \E j \in ofVideo \cup (IF active = {} THEN {NoJob} ELSE active) :
          wanted' = [wanted EXCEPT ![w] = j]
  /\ link' = [link EXCEPT ![w] = "accepting"]
  /\ UNCHANGED <<members, filter, cast, seen>>

Closes(w) ==
  /\ link' = [link EXCEPT ![w] = "none"]
  /\ wanted' = [wanted EXCEPT ![w] = NoJob]
  /\ seen' = [seen EXCEPT ![w] = [j \in Jobs |-> "none"]]

(* connect: registered, bound, and told so.  Or the handshake fails. *)
Accept(w) ==
  /\ link[w] = "accepting"
  /\ \/ /\ link' = [link EXCEPT ![w] = "open"]
        /\ members' = members \cup {w}
        /\ filter' = [filter EXCEPT ![w] = wanted[w]]
        /\ UNCHANGED <<wanted, seen>>
     \/ Closes(w) /\ Unregister({w})
  /\ UNCHANGED cast

(* The client goes; the endpoint notices in receive_text. *)
Leave(w) ==
  /\ link[w] = "open"
  /\ link' = [link EXCEPT ![w] = "gone"]
  /\ UNCHANGED <<wanted, members, filter, cast, seen>>

(* Variant: only broadcast unregisters, when a send raises. *)
Disconnect_LeftToBroadcast(w) ==
  /\ link[w] = "gone"
  /\ Closes(w)
  /\ UNCHANGED <<members, filter, cast>>

Disconnect(w) ==
  /\ link[w] = "gone"
  /\ Closes(w)
  /\ Unregister({w})
  /\ UNCHANGED cast

HubNext ==
  \/ \E p \in Producers, w \in Sockets : SendTo(p, w)
  \/ \E w \in Sockets : Open(w) \/ Accept(w) \/ Leave(w) \/ Disconnect(w)

-----------------------------------------------------------------------------
(* Properties. *)

(* Whatever broadcasts are under way while a socket closes, none of them    *)
(* brings it back: the endpoint's end leaves no registration and no filter. *)
ClosedIsForgotten ==
  \A w \in Sockets : link[w] \in {"none", "accepting"} =>
    w \notin members /\ filter[w] = NoJob
=============================================================================
