------------------------------- MODULE SseHub -------------------------------
(***************************************************************************)
(* The event stream: the hub of server/sse.ts with its batch queue, its     *)
(* connection caps, slow-client eviction and the replay to a new client,    *)
(* and the pages of app/feed that load a snapshot, connect, lose the        *)
(* connection and come back.  A connection may be dead long before the      *)
(* server knows.                                                            *)
(*                                                                          *)
(* Followed through the stream are one mint row, whose state is a version   *)
(* (the table of /mints), and sales (the cards of /feed) with the seller's   *)
(* remaining count, the badge, and with what the enrichment and the image    *)
(* retry find out: the image and the floor are stored with the row, the      *)
(* offer is only sent.  A page here shows both and lives as /feed does.      *)
(* What is written to a live connection is on its way to the page, which     *)
(* takes it frame by frame; it is lost only with the connection.             *)
(* localStorage and the pause buffer of a page are left out.                 *)
(***************************************************************************)
EXTENDS Naturals, Sequences, FiniteSets, SequencesExt

CONSTANTS
  Pages,
  Ips,              \* the addresses a page may connect from
  Conns, NoConn,    \* response objects, reused when torn down
  Sales,
  MaxClients, PerIp, MaxBackpressure, MaxBatch, ReplayMax,
  MaxVersion        \* bound on the changes of the row

ASSUME SseAssumption ==
  /\ IsFiniteSet(Conns) /\ NoConn \notin Conns /\ Ips # {} /\ MaxVersion \in Nat
  /\ {MaxClients, PerIp, MaxBackpressure, MaxBatch, ReplayMax} \subseteq Nat \ {0}

VARIABLES
  conn,             \* sseClients and what their closures hold
  clientsByIp,
  queue, timer,     \* batchQueue, batchTimer is set
  version,          \* the row's state in the accumulator
  sale, stored,     \* progress of a sale, the sales whose count is in the table
  ring,             \* recentSellerCountPatches
  enriched,         \* how far a sale's enrichment is, what its row and the last
                    \* patch have of it
  metaRing,         \* recentSaleMeta, its index being the place of the sale
  inbox,            \* frames written to a page's connection and not dispatched
  page              \* the pages

hub == <<conn, clientsByIp, queue, timer, inbox>>
sources == <<version, sale, stored, ring, enriched, metaRing>>
vars == <<hub, sources, page>>

StoredField == {"image", "floor"}
Field == StoredField \cup {"offer"}

Conn == [stage : {"free", "open", "cleaned"}, ip : Ips, gone : BOOLEAN,
         beats : BOOLEAN, full : Nat]
Page == [phase : {"loading", "ready", "live"}, on : Conns \cup {NoConn},
         version : Nat, cards : SUBSET Sales, badges : SUBSET Sales,
         fields : [Sales -> SUBSET Field]]
Meta == [type : {"meta"}, sale : Sales, fields : SUBSET Field]
Frame == [type : {"mint_status"}, version : Nat]
         \cup [type : {"sale", "seller_count"}, sale : Sales] \cup Meta

Clients == {k \in Conns : conn[k].stage = "open"}
Free == [stage |-> "free", ip |-> CHOOSE i \in Ips : TRUE, gone |-> FALSE,
         beats |-> FALSE, full |-> 0]

\* cleanup() stopped its heartbeat, dropped its statistics and ended it.
Cleaned == [Free EXCEPT !.stage = "cleaned", !.gone = TRUE]

Init ==
  /\ conn = [k \in Conns |-> Free]
  /\ clientsByIp = [i \in Ips |-> 0]
  /\ queue = <<>> /\ timer = FALSE
  /\ version = 0
  /\ sale = [s \in Sales |-> "none"] /\ stored = {} /\ ring = <<>>
  /\ enriched = [s \in Sales |-> [step |-> "none", fields |-> {}, sent |-> {}]]
  /\ metaRing = <<>>
  /\ inbox = [p \in Pages |-> <<>>]
  /\ page = [p \in Pages |-> [phase |-> "loading", on |-> NoConn, version |-> 0,
                              cards |-> {}, badges |-> {}, fields |-> [s \in Sales |-> {}]]]

----------------------------------------------------------------------------
\* The page's reducer: a patch finds its card or nothing, and what it does not
\* say stays.
Reduce(pg, f) ==
  CASE f.type = "mint_status" -> [pg EXCEPT !.version = f.version]
    [] f.type = "sale" -> [pg EXCEPT !.cards = @ \cup {f.sale}]
    [] f.type = "seller_count" /\ f.sale \in pg.cards -> [pg EXCEPT !.badges = @ \cup {f.sale}]
    [] f.type = "meta" /\ f.sale \in pg.cards -> [pg EXCEPT !.fields[f.sale] = @ \cup f.fields]
    [] OTHER -> pg

\* The slots once cleanup() ran for the connections K, each the first time.
Freed(K) == [i \in Ips |-> clientsByIp[i] - Cardinality({k \in K : conn[k].ip = i})]

\* What write() answers on each client: only a dead socket throws, a dead
\* connection's buffer is full.
Answers ==
  {r \in [Clients -> {"ok", "full", "throws"}] :
     \A k \in Clients : /\ r[k] = "ok" => ~ conn[k].gone
                        /\ r[k] = "throws" => conn[k].gone}

\* broadcast: a client whose buffer stays full for too long, or whose write
\* throws, is cleaned up; the others get the frames.
Broadcast(frames) ==
  \E r \in Answers :
    LET Full(k) == IF r[k] = "full" THEN conn[k].full + 1 ELSE 0
        evicted == {k \in Clients : r[k] = "throws" \/ Full(k) >= MaxBackpressure}
    IN  /\ conn' = [k \in Conns |->
             IF k \in evicted THEN Cleaned
             ELSE IF k \in Clients THEN [conn[k] EXCEPT !.full = Full(k)] ELSE conn[k]]
        /\ clientsByIp' = Freed(evicted)
        /\ inbox' = [p \in Pages |->
             IF page[p].on \in Clients \ evicted /\ ~ conn[page[p].on].gone
             THEN inbox[p] \o frames ELSE inbox[p]]

Flush(frames) ==
  /\ queue' = <<>> /\ timer' = FALSE
  /\ Broadcast(frames)

\* Variant: the timer is left to the flush to set.
Enqueue_NoTimer(f) ==
  IF Len(queue) + 1 >= MaxBatch
  THEN Flush(Append(queue, f))
  ELSE /\ queue' = Append(queue, f)
       /\ UNCHANGED <<conn, clientsByIp, timer, inbox>>

Enqueue(f) ==
  IF Len(queue) + 1 >= MaxBatch
  THEN Flush(Append(queue, f))
  ELSE /\ queue' = Append(queue, f) /\ timer' = TRUE
       /\ UNCHANGED <<conn, clientsByIp, inbox>>

BatchTimerFires ==
  /\ timer
  /\ Flush(queue)
  /\ UNCHANGED <<sources, page>>

----------------------------------------------------------------------------
\* The accumulator announces a change of the row.
EmitMintStatus ==
  /\ version < MaxVersion /\ version' = version + 1
  /\ Enqueue([type |-> "mint_status", version |-> version'])
  /\ UNCHANGED <<sale, stored, ring, enriched, metaRing, page>>

InsertSale(s) ==
  /\ sale[s] = "none" /\ sale' = [sale EXCEPT ![s] = "inserted"]
  /\ UNCHANGED <<hub, version, stored, ring, enriched, metaRing, page>>

EmitSale(s) ==
  /\ sale[s] = "inserted" /\ sale' = [sale EXCEPT ![s] = "emitted"]
  /\ Enqueue([type |-> "sale", sale |-> s])
  /\ UNCHANGED <<version, stored, ring, enriched, metaRing, page>>

Remembered(s) ==
  LET r == Append(ring, s) IN IF Len(r) > ReplayMax THEN Tail(r) ELSE r

\* The seller's holdings come back with a number.
CountResolves(s) ==
  /\ sale[s] = "emitted" /\ sale' = [sale EXCEPT ![s] = "counted"]
  /\ Enqueue([type |-> "seller_count", sale |-> s])
  /\ ring' = Remembered(s)
  /\ UNCHANGED <<version, stored, enriched, metaRing, page>>

\* updateSellerRemainingCount, which may also fail: never.
CountIsStored(s) ==
  /\ sale[s] = "counted" /\ s \notin stored
  /\ stored' = stored \cup {s}
  /\ UNCHANGED <<hub, version, sale, ring, enriched, metaRing, page>>

\* Variant: a second patch is taken for a repetition of the first.
RememberedMeta_FirstWins(m) ==
  IF \E i \in DOMAIN metaRing : metaRing[i].sale = m.sale THEN metaRing
  ELSE LET r == Append(metaRing, m) IN IF Len(r) > ReplayMax THEN Tail(r) ELSE r

\* A patch takes the place of the sale's last one: what only that one said is
\* not replayed any more.
RememberedMeta(m) ==
  IF \E i \in DOMAIN metaRing : metaRing[i].sale = m.sale
  THEN [i \in DOMAIN metaRing |-> IF metaRing[i].sale = m.sale THEN m ELSE metaRing[i]]
  ELSE LET r == Append(metaRing, m) IN IF Len(r) > ReplayMax THEN Tail(r) ELSE r

\* The row is patched, then emitMetaUpdate.
Patched(s, step, found) ==
  LET m == [type |-> "meta", sale |-> s, fields |-> found]
  IN  /\ enriched' = [enriched EXCEPT ![s] =
           [step |-> step, fields |-> @.fields \cup (found \cap StoredField), sent |-> found]]
      /\ metaRing' = RememberedMeta(m)
      /\ Enqueue(m)
      /\ UNCHANGED <<version, sale, stored, ring, page>>

\* applyEnrichment with whatever it found, and after it the image retry when
\* something to store was missing: it looks for all of that, never an offer.
Enriches(s) ==
  /\ sale[s] \notin {"none", "inserted"} /\ enriched[s].step = "none"
  /\ \E found \in SUBSET Field : Patched(s, "enriched", found)

RetryResolves(s) ==
  /\ enriched[s].step = "enriched" /\ StoredField \ enriched[s].fields # {}
  /\ \E found \in SUBSET StoredField \ {{}} : Patched(s, "retried", found)

----------------------------------------------------------------------------
\* Variant: the ping neither evicts nor notices that it threw.
Heartbeat_IgnoresFailure(k) ==
  /\ k \in Clients /\ conn[k].beats
  /\ \/ ~ conn[k].gone /\ conn' = [conn EXCEPT ![k].full = 0]
     \/ conn[k].full + 1 < MaxBackpressure /\ conn' = [conn EXCEPT ![k].full = @ + 1]
  /\ UNCHANGED <<clientsByIp, queue, timer, inbox, sources, page>>

\* The 25 s ping of one client; when it throws the interval is cleared and
\* the close event is left to clean up.
Heartbeat(k) ==
  /\ k \in Clients /\ conn[k].beats
  /\ \/ /\ ~ conn[k].gone
        /\ conn' = [conn EXCEPT ![k].full = 0]
        /\ UNCHANGED clientsByIp
     \/ /\ conn[k].full + 1 < MaxBackpressure
        /\ conn' = [conn EXCEPT ![k].full = @ + 1]
        /\ UNCHANGED clientsByIp
     \/ /\ conn[k].full + 1 >= MaxBackpressure
        /\ conn' = [conn EXCEPT ![k] = Cleaned]
        /\ clientsByIp' = Freed({k})
     \/ /\ conn[k].gone
        /\ conn' = [conn EXCEPT ![k].beats = FALSE]
        /\ UNCHANGED clientsByIp
  /\ UNCHANGED <<queue, timer, inbox, sources, page>>

\* Variant: cleanup() frees the slot on every event that reaches it.
CloseFires_Twice(k) ==
  /\ \/ /\ k \in Clients
        /\ conn' = [conn EXCEPT ![k] = Cleaned]
     \/ /\ conn[k].stage = "cleaned" /\ \A p \in Pages : page[p].on # k
        /\ conn' = [conn EXCEPT ![k].stage = "free"]
  /\ clientsByIp' = Freed({k})
  /\ UNCHANGED <<queue, timer, inbox, sources, page>>

\* close, error or aborted of the request or the response: the first one
\* cleans up, the last one finds it done.
CloseFires(k) ==
  /\ \/ /\ k \in Clients
        /\ conn' = [conn EXCEPT ![k] = Cleaned]
        /\ clientsByIp' = Freed({k})
     \/ /\ conn[k].stage = "cleaned" /\ \A p \in Pages : page[p].on # k
        /\ conn' = [conn EXCEPT ![k] = Free]
        /\ UNCHANGED clientsByIp
  /\ UNCHANGED <<queue, timer, inbox, sources, page>>

\* The connection is half open: neither side is told.
GoesSilent(k) ==
  /\ k \in Clients /\ ~ conn[k].gone
  /\ conn' = [conn EXCEPT ![k].gone = TRUE]
  /\ UNCHANGED <<clientsByIp, queue, timer, inbox, sources, page>>

----------------------------------------------------------------------------
\* GET /stream below the caps; a 429 leaves the page to try again.  What is
\* replayed is written before the client joins the broadcasts.
Admitted(ip) ==
  Cardinality(Clients) < MaxClients /\ clientsByIp[ip] < PerIp

Opened(k, ip) ==
  /\ conn' = [conn EXCEPT ![k] = [stage |-> "open", ip |-> ip, gone |-> FALSE,
                                  beats |-> TRUE, full |-> 0]]
  /\ clientsByIp' = [clientsByIp EXCEPT ![ip] = @ + 1]

Replay ==
  <<[type |-> "mint_status", version |-> version]>>
    \o [i \in DOMAIN ring |-> [type |-> "seller_count", sale |-> ring[i]]] \o metaRing

\* Variant: nothing is replayed.
Connect_NoReplay(p) ==
  /\ page[p].phase = "ready"
  /\ \E k \in Conns, ip \in Ips :
       /\ conn[k].stage = "free" /\ Admitted(ip) /\ Opened(k, ip)
       /\ page' = [page EXCEPT ![p].phase = "live", ![p].on = k]
  /\ UNCHANGED <<queue, timer, inbox, sources>>

Connect(p) ==
  /\ page[p].phase = "ready"
  /\ \E k \in Conns, ip \in Ips :
       /\ conn[k].stage = "free" /\ Admitted(ip) /\ Opened(k, ip)
       /\ inbox' = [inbox EXCEPT ![p] = Replay]
       /\ page' = [page EXCEPT ![p].phase = "live", ![p].on = k]
  /\ UNCHANGED <<queue, timer, sources>>

\* The EventSource dispatches the next frame: its listener runs on its own, in
\* the page that the earlier ones left.
Receives(p) ==
  /\ inbox[p] # <<>>
  /\ inbox' = [inbox EXCEPT ![p] = Tail(@)]
  /\ page' = [page EXCEPT ![p] = Reduce(@, Head(inbox[p]))]
  /\ UNCHANGED <<conn, clientsByIp, queue, timer, sources>>

\* backfillSnapshot: rows new to the page come with what the table holds.
FetchAnswers(p) ==
  /\ page[p].phase = "loading"
  /\ \/ page' = [page EXCEPT ![p].phase = "ready"]
     \/ LET fresh == {s \in Sales : sale[s] # "none"} \ page[p].cards
        IN  page' = [page EXCEPT ![p].phase = "ready",
              ![p].cards = @ \cup fresh, ![p].badges = @ \cup (fresh \cap stored),
              ![p].fields = [s \in Sales |-> IF s \in fresh THEN enriched[s].fields ELSE @[s]]]
  /\ UNCHANGED <<hub, sources>>

\* The page drops its connection, if it has one, and what is on its way.
Hangs(p) ==
  /\ conn' = [k \in Conns |->
       IF k = page[p].on THEN [conn[k] EXCEPT !.gone = TRUE] ELSE conn[k]]
  /\ inbox' = [inbox EXCEPT ![p] = <<>>]

\* The EventSource reports an error: scheduleReconnect, without a backfill.
StreamErrors(p) ==
  /\ page[p].phase = "live" /\ Hangs(p)
  /\ page' = [page EXCEPT ![p].phase = "ready", ![p].on = NoConn]
  /\ UNCHANGED <<clientsByIp, queue, timer, sources>>

\* recover: the watchdog, or the tab is looked at again, and no healthy
\* connection is there.
Recover(p) ==
  /\ \/ page[p].phase = "ready"
     \/ page[p].phase = "live" /\ (conn[page[p].on].gone \/ page[p].on \notin Clients)
  /\ Hangs(p)
  /\ page' = [page EXCEPT ![p].phase = "loading", ![p].on = NoConn]
  /\ UNCHANGED <<clientsByIp, queue, timer, sources>>

Next ==
  \/ EmitMintStatus \/ BatchTimerFires
  \/ \E s \in Sales : InsertSale(s) \/ EmitSale(s) \/ CountResolves(s) \/ CountIsStored(s)
                     \/ Enriches(s) \/ RetryResolves(s)
  \/ \E k \in Conns : Heartbeat(k) \/ CloseFires(k) \/ GoesSilent(k)
  \/ \E p \in Pages : Connect(p) \/ Receives(p) \/ FetchAnswers(p) \/ StreamErrors(p)
                     \/ Recover(p)

Spec == Init /\ [][Next]_vars

\* The timers fire; a socket whose write threw is destroyed, and its close
\* event follows.
Fairness ==
  /\ WF_vars(BatchTimerFires)
  /\ \A k \in Conns : /\ WF_vars(Heartbeat(k))
                      /\ WF_vars(CloseFires(k) /\ ~ conn[k].beats)
FairSpec == Spec /\ Fairness

----------------------------------------------------------------------------
TypeOK ==
  /\ conn \in [Conns -> Conn]
  /\ \A k \in Clients : conn[k].full < MaxBackpressure
  /\ clientsByIp \in [Ips -> Nat]
  /\ queue \in Seq(Frame) /\ Len(queue) < MaxBatch /\ timer \in BOOLEAN
  /\ version \in 0 .. MaxVersion
  /\ sale \in [Sales -> {"none", "inserted", "emitted", "counted"}]
  /\ stored \subseteq Sales
  /\ ring \in Seq(Sales) /\ Len(ring) <= ReplayMax
  /\ enriched \in [Sales -> [step : {"none", "enriched", "retried"}, fields : SUBSET StoredField,
                              sent : SUBSET Field]]
  /\ metaRing \in Seq(Meta) /\ Len(metaRing) <= ReplayMax
  /\ inbox \in [Pages -> Seq(Frame)] /\ page \in [Pages -> Page]

\* Evictions, close events that fire late or twice and reconnects never make
\* the per-address counter drift from the connections it stands for.
SlotsMatchConnections ==
  /\ Cardinality(Clients) <= MaxClients
  /\ \A i \in Ips : /\ clientsByIp[i] = Cardinality({k \in Clients : conn[k].ip = i})
                    /\ clientsByIp[i] <= PerIp

Hears(p) ==
  /\ page[p].phase = "live" /\ page[p].on \in Clients
  /\ ~ conn[page[p].on].gone

\* The row of SseHub and the pages that follow it are a RowFeed.
Statuses(frames) == {i \in DOMAIN frames : frames[i].type = "mint_status"}

LastStatus(frames, before) ==
  IF Statuses(frames) = {} THEN before
  ELSE frames[CHOOSE i \in Statuses(frames) : \A j \in Statuses(frames) : j <= i].version

Feed == INSTANCE RowFeed WITH
  row <- version, due <- Statuses(queue) # {},
  sent <- [p \in Pages |-> LastStatus(inbox[p], page[p].version)],
  coming <- {p \in Pages : Statuses(inbox[p]) # {}},
  shown <- [p \in Pages |-> page[p].version],
  listening <- {p \in Pages : Hears(p)}

\* However connections come and go, and whichever batch overtakes a replay: a
\* page that connects is sent the row as it is, whatever flushes the queue
\* sends it to every page that can be reached, the page shows what it is sent
\* in the order it was written, and nothing else.
ImplementsRowFeed == Feed!Spec

\* A page that has the card of a sale and took all it was sent has its badge
\* and the findings of its last patch, even if they were resolved after its
\* snapshot was read and sent before it connected, as long as the rings
\* remember them.
LateTabHasThePatches ==
  queue = <<>> =>
    \A p \in Pages : Hears(p) /\ inbox[p] = <<>> =>
      /\ page[p].cards \cap ToSet(ring) \subseteq page[p].badges
      /\ \A m \in ToSet(metaRing) :
           m.sale \in page[p].cards =>
             enriched[m.sale].sent \subseteq page[p].fields[m.sale]

\* A queued frame does not wait for the next one to be sent.
QueueDrains == queue # <<>> ~> queue = <<>>

\* A dead connection gives its slot back even if nothing is broadcast.
DeadConnectionsLeave ==
  \A k \in Conns : (k \in Clients /\ conn[k].gone) ~> (k \notin Clients)
=============================================================================
