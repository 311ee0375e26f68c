--------------------------- MODULE WeightTransfer ---------------------------
(* How the weights of the trainer reach the rollout engines: rank 0 packs   *)
(* them into buckets and sends these from two buffers used in turn; the     *)
(* receivers pass every bucket on (nixl and mooncake: along a chain; nccl   *)
(* and hccl: one broadcast each), and hand its tensors, which are views of  *)
(* their own two buffers, to the adapter of the inference engine, which     *)
(* copies them asynchronously and loads them in batches.                    *)
EXTENDS Integers, Sequences, FiniteSets, SequencesExt

CONSTANTS
  Models,     (* the sizes of the weights, in order: a set of sequences     *)
  Bucket,     (* update_weights_bucket_megabytes                            *)
  Receivers,  (* how many ranks receive                                     *)
  Updates,    (* how many updates are followed                              *)
  Engines,    (* backends among nixl, nccl, hccl, mooncake                  *)
  Adapters    (* rollout adapters among vllm, sglang                        *)

ASSUME TransferAssumption ==
  /\ Bucket \in Nat \ {0} /\ Receivers \in Nat \ {0} /\ Updates \in Nat \ {0}
  /\ Engines \subseteq {"nixl", "nccl", "hccl", "mooncake"}
  /\ Adapters \subseteq {"vllm", "sglang"}
  /\ Models \subseteq Seq(Nat \ {0}) /\ <<>> \notin Models

Ranks == 0 .. Receivers

VARIABLES
  job,        (* what was configured, and the buckets that come of it       *)
  version,    (* which update this is                                       *)
  node,       (* per rank: where send_weights or receive_weights stands     *)
  buf,        (* per rank and buffer: the <<version, bucket>> it holds      *)
  inbox,      (* per rank: metadata on its way, <<bucket, buffer of sender>>*)
  unread,     (* the ranks whose posted bucket is not read yet              *)
  signal,     (* mooncake, per rank and buffer: the update that set magic   *)
  stale,      (* history: a wait was ended by the signal of an older update *)
  joined,     (* nccl, hccl: the ranks whose subscription has taken effect  *)
  missed,     (* history: metadata was published before a subscription      *)
  out         (* per receiver: the adapter's copies, batch and loaded weights *)
vars == <<job, version, node, buf, inbox, unread, signal, stale, joined, missed, out>>

Chain == job.engine \in {"nixl", "mooncake"}
Mooncake == job.engine = "mooncake"
Size(w) == job.weights[w]

(* ------------------------------- packing ------------------------------- *)
Chunks(m, w) ==
  [c \in 1 .. ((m[w] + Bucket - 1) \div Bucket) |->
     [weight |-> w, offset |-> (c - 1) * Bucket,
      size |-> IF m[w] < c * Bucket THEN m[w] - (c - 1) * Bucket ELSE Bucket]]

Filled(b) == FoldLeft(LAMBDA n, c : n + c.size, 0, b)

(* A chunk that does not fit in the bucket begins a new one: the buckets     *)
(* after n chunks.                                                           *)
AllChunks(m) == FlattenSeq([w \in DOMAIN m |-> Chunks(m, w)])
PackNext(bs, c) ==
  IF Filled(Last(bs)) + c.size > Bucket THEN Append(bs, <<c>>)
  ELSE [bs EXCEPT ![Len(bs)] = Append(@, c)]
Packed(cs) ==
  LET packed[n \in 0 .. Len(cs)] == IF n = 0 THEN <<<<>>>> ELSE PackNext(packed[n - 1], cs[n])
  IN packed
Pack(m) == Packed(AllChunks(m))[Len(AllChunks(m))]

BucketOf(c) == CHOOSE k \in DOMAIN job.buckets : c \in Range(job.buckets[k])
IsLast(k) == k = Len(job.buckets)

(* ---------------------------- process groups --------------------------- *)
Fresh == [r \in Ranks |->
  IF r = 0 THEN [pc |-> "fill", at |-> 1, slot |-> 0, item |-> 0, op |-> "none", from |-> <<0, 0>>]
           ELSE [pc |-> "receive", at |-> 0, slot |-> 0, item |-> 0, op |-> "open", from |-> <<0, 0>>]]
Zeroed == [r \in Ranks |-> [s \in {0, 1} |-> <<0, 0>>]]
NothingOut == [r \in 1 .. Receivers |-> [copying |-> {}, got |-> {}, held |-> <<>>, loaded |-> <<>>]]

(* mooncake asserts that every weight fits in a bucket.                     *)
Init ==
  /\ \E e \in Engines, a \in Adapters, m \in Models :
       /\ e = "mooncake" => \A w \in DOMAIN m : m[w] <= Bucket
       /\ job = [engine |-> e, adapter |-> a, weights |-> m, buckets |-> Pack(m)]
  /\ version = 1 /\ node = Fresh /\ buf = Zeroed
  /\ inbox = [r \in Ranks |-> <<>>] /\ unread = {}
  /\ signal = [r \in Ranks |-> [s \in {0, 1} |-> 0]] /\ stale = FALSE
  /\ joined = {} /\ missed = FALSE /\ out = NothingOut

(* The connection of a SUB socket takes effect at some time, whatever the   *)
(* barrier of the process group waits for.                                  *)
Subscribe(r) ==
  /\ ~Chain /\ r \notin joined
  /\ joined' = joined \cup {r}
  /\ UNCHANGED <<job, version, node, buf, inbox, unread, signal, stale, missed, out>>

(* finalize and prepare between two updates: mooncake keeps its buffers and *)
(* its signals, the others begin anew.                                      *)
NextUpdate ==
  /\ \A r \in Ranks : node[r].pc = "done"
  /\ version < Updates
  /\ version' = version + 1 /\ node' = Fresh /\ out' = NothingOut
  /\ buf' = IF Mooncake THEN buf ELSE Zeroed
  /\ joined' = {}
  /\ UNCHANGED <<job, inbox, unread, signal, stale, missed>>

(* ------------------------------- messages ------------------------------ *)
(* The metadata of bucket k, which lies in buffer s of r.                   *)
Post(r, k, s) ==
  /\ inbox' = [n \in Ranks |->
       IF (Chain /\ n = r + 1) \/ (~Chain /\ n \in joined) THEN Append(inbox[n], <<k, s>>)
       ELSE inbox[n]]
  /\ missed' = (missed \/ (~Chain /\ joined # 1 .. Receivers))
  /\ unread' = IF Mooncake THEN unread ELSE unread \cup {r}

(* wait_for_complete of mooncake: spin until the magic is there, reset it.  *)
AwaitSignal(r, s) ==
  /\ signal[r][s] # 0
  /\ signal' = [signal EXCEPT ![r][s] = 0]
  /\ stale' = (stale \/ signal[r][s] # version)

(* -------------------------------- sender ------------------------------- *)
Fill ==
  /\ node[0].pc = "fill"
  /\ buf' = [buf EXCEPT ![0][node[0].slot] = <<version, node[0].at>>]
  /\ node' = [node EXCEPT ![0].pc = "send"]
  /\ UNCHANGED <<job, version, inbox, unread, signal, stale, joined, missed, out>>

(* The previous bucket must have been received, except with mooncake, which *)
(* waits for it after it has posted the next one.                           *)
Send ==
  /\ node[0].pc = "send" /\ 0 \notin unread
  /\ Post(0, node[0].at, node[0].slot)
  /\ IF IsLast(node[0].at) THEN node' = [node EXCEPT ![0].pc = "drain"]
     ELSE node' = [node EXCEPT ![0].pc = IF Mooncake /\ node[0].at >= 2 THEN "reuse" ELSE "fill",
                               ![0].at = node[0].at + 1, ![0].slot = 1 - node[0].slot]
  /\ UNCHANGED <<job, version, buf, signal, stale, joined, out>>

Reuse ==
  /\ node[0].pc = "reuse" /\ AwaitSignal(0, node[0].slot)
  /\ node' = [node EXCEPT ![0].pc = "fill"]
  /\ UNCHANGED <<job, version, buf, inbox, unread, joined, missed, out>>

Drain ==
  /\ node[0].pc = "drain" /\ 0 \notin unread
  /\ IF Mooncake THEN AwaitSignal(0, node[0].slot) ELSE UNCHANGED <<signal, stale>>
  /\ node' = [node EXCEPT ![0].pc = "done"]
  /\ UNCHANGED <<job, version, buf, inbox, unread, joined, missed, out>>

(* ------------------------------ receivers ------------------------------ *)
ReadMetadata(r) ==
  /\ node[r].op = "open" /\ inbox[r] # <<>>
  /\ node' = [node EXCEPT ![r].op = "meta", ![r].from = Head(inbox[r])]
  /\ inbox' = [inbox EXCEPT ![r] = Tail(@)]
  /\ UNCHANGED <<job, version, buf, unread, signal, stale, joined, missed, out>>

(* nixl and mooncake read the buffer of the previous rank; mooncake first   *)
(* waits, from its third bucket on, until the next rank has read what its   *)
(* own buffer held, and only nixl tells the previous rank at once.          *)
Read(r) ==
  /\ Chain /\ node[r].op = "meta"
  /\ IF Mooncake /\ node[r].at >= 2 /\ r < Receivers THEN AwaitSignal(r, node[r].slot)
     ELSE UNCHANGED <<signal, stale>>
  /\ buf' = [buf EXCEPT ![r][node[r].slot] = buf[r - 1][node[r].from[2]]]
  /\ node' = [node EXCEPT ![r].op = "done"]
  /\ unread' = unread \ {r - 1}
  /\ UNCHANGED <<job, version, inbox, joined, missed, out>>

(* nccl and hccl: the collective completes once every rank has entered it.  *)
Broadcast ==
  /\ ~Chain /\ 0 \in unread
  /\ \A r \in 1 .. Receivers : node[r].op = "meta"
  /\ buf' = [r \in Ranks |->
       IF r = 0 THEN buf[r] ELSE [buf[r] EXCEPT ![node[r].slot] = buf[0][node[1].from[2]]]]
  /\ node' = [r \in Ranks |-> IF r = 0 THEN node[r] ELSE [node[r] EXCEPT !.op = "done"]]
  /\ unread' = unread \ {0}
  /\ UNCHANGED <<job, version, inbox, signal, stale, joined, missed, out>>

(* The first bucket is there, or with mooncake any: swap the buffers, so    *)
(* that what was received is now read from and passed on.                   *)
Received(r) ==
  /\ r > 0 /\ node[r].pc = "receive" /\ node[r].op = "done"
  /\ node' = [node EXCEPT ![r].pc = "forward", ![r].at = node[r].from[1],
                          ![r].slot = 1 - @, ![r].op = "none"]
  /\ UNCHANGED <<job, version, buf, inbox, unread, signal, stale, joined, missed, out>>

ForwardsAllButLast(r) == Chain /\ r < Receivers /\ ~IsLast(node[r].at)
Forwards(r) == Chain /\ r < Receivers

(* Pass the bucket on and begin to receive the next one.                    *)
Forward(r) ==
  /\ node[r].pc = "forward"
  /\ IF Forwards(r) THEN Post(r, node[r].at, 1 - node[r].slot)
     ELSE UNCHANGED <<inbox, missed, unread>>
  /\ node' = [node EXCEPT ![r].pc = "yield", ![r].item = 1,
       ![r].op = IF Mooncake \/ IsLast(node[r].at) THEN "none" ELSE "open"]
  /\ UNCHANGED <<job, version, buf, signal, stale, joined, out>>

(* ------------------------ adapters of the engines ---------------------- *)
(* What a copy or a load would read now of a chunk in buffer s.             *)
Reading(r, c, s) == [weight |-> c.weight, offset |-> c.offset, value |-> buf[r][s]]

(* A view that sglang keeps as it is: it seems to own its storage, because  *)
(* it is as large as the buffer; mooncake's buffers are slices.             *)
KeptAsView(w) == job.adapter = "sglang" /\ ~Mooncake /\ Size(w) = Bucket

HeldSize(r) == FoldLeft(LAMBDA n, w : n + Size(w), 0, out[r].held)
Parts(r, w) ==
  {p \in out[r].got : p.weight = w} \cup
  {Reading(r, c, c.slot) : c \in {d \in out[r].copying : KeptAsView(w) /\ d.weight = w}}
Loads(r, ws) == [i \in DOMAIN ws |-> [weight |-> ws[i], parts |-> Parts(r, ws[i])]]
Copies(r) == {c \in out[r].copying : ~KeptAsView(c.weight)}

(* One of the asynchronous copies is carried out.                           *)
Copy(r) ==
  \E c \in Copies(r) :
    /\ out' = [out EXCEPT ![r].copying = @ \ {c}, ![r].got = @ \cup {Reading(r, c, c.slot)}]
    /\ UNCHANGED <<job, version, node, buf, inbox, unread, signal, stale, joined, missed>>

(* The batch is loaded once the copies into it are done, and given up.      *)
Flushed(r) ==
  [copying |-> {c \in out[r].copying : c.weight \notin Range(out[r].held)},
   got |-> {p \in out[r].got : p.weight \notin Range(out[r].held)},
   held |-> <<>>, loaded |-> out[r].loaded \o Loads(r, out[r].held)]
MustFlush(r, w) == out[r].held # <<>> /\ HeldSize(r) + Size(w) > Bucket

(* receive_weights yields before the next bucket has arrived: nixl once it  *)
(* has the metadata of it, nccl at once, hccl blocks until it is there.     *)
MayYield(r) ==
  IsLast(node[r].at) \/ (CASE job.engine = "nixl" -> node[r].op \in {"meta", "done"}
                           [] job.engine = "hccl" -> node[r].op = "done"
                           [] OTHER -> TRUE)
Chunk(r) == job.buckets[node[r].at][node[r].item]
Whole(c) == c.offset + c.size = Size(c.weight)
HoldsLarge(r) == job.adapter = "vllm" /\ HeldSize(r) > Bucket

(* The chunk completes a weight: batch it, after the batch it does not fit  *)
(* in; vLLM sends one larger than the bucket by itself.                     *)
Yield(r) ==
  LET c == Chunk(r)
      copying == {[weight |-> c.weight, offset |-> c.offset, slot |-> 1 - node[r].slot]}
      w == c.weight
      flushed == IF MustFlush(r, w) THEN Flushed(r) ELSE out[r]
      batched == IF Whole(c) THEN [flushed EXCEPT !.copying = @ \cup copying, !.held = Append(@, w)]
                 ELSE [out[r] EXCEPT !.copying = @ \cup copying]
  IN /\ node[r].pc = "yield" /\ node[r].item <= Len(job.buckets[node[r].at]) /\ MayYield(r)
     /\ ~HoldsLarge(r)
     /\ (Whole(c) /\ MustFlush(r, w)) => Copies(r) = {}
     /\ out' = [out EXCEPT ![r] = batched]
     /\ node' = [node EXCEPT ![r].item = @ + 1]
     /\ UNCHANGED <<job, version, buf, inbox, unread, signal, stale, joined, missed>>

(* A weight larger than the bucket goes at once.                            *)
SendLarge(r) ==
  /\ HoldsLarge(r) /\ Copies(r) = {}
  /\ out' = [out EXCEPT ![r] = Flushed(r)]
  /\ UNCHANGED <<job, version, node, buf, inbox, unread, signal, stale, joined, missed>>

NotSynchronized(r) == TRUE
Synchronized(r) == Copies(r) = {}

(* The bucket is used up: the next rank has read it, the next one is there, *)
(* and the copies are done, so the buffers can change places.               *)
YieldEnd(r) ==
  /\ r > 0 /\ node[r].pc = "yield" /\ node[r].item > Len(job.buckets[node[r].at])
  /\ r \notin unread /\ ~HoldsLarge(r)
  /\ IF IsLast(node[r].at) /\ ~Mooncake
     THEN /\ node' = [node EXCEPT ![r].pc = "flush"] /\ UNCHANGED signal
     ELSE /\ Synchronized(r)
          /\ IF Mooncake
             THEN /\ signal' = [signal EXCEPT ![r - 1][node[r].from[2]] = version]
                  /\ node' = [node EXCEPT ![r].pc = IF IsLast(node[r].at) THEN "flush" ELSE "receive",
                                          ![r].op = IF IsLast(node[r].at) THEN "none" ELSE "open"]
             ELSE /\ node[r].op = "done" /\ UNCHANGED signal
                  /\ node' = [node EXCEPT ![r].pc = "forward", ![r].at = node[r].from[1],
                                          ![r].slot = 1 - @, ![r].op = "none"]
  /\ UNCHANGED <<job, version, buf, inbox, unread, stale, joined, missed, out>>

FlushForgotten(r) ==
  /\ node[r].pc = "flush" /\ Copies(r) = {}
  /\ node' = [node EXCEPT ![r].pc = "done"]
  /\ UNCHANGED <<job, version, buf, inbox, unread, signal, stale, joined, missed, out>>

(* The last batch.                                                          *)
FinalFlush(r) ==
  /\ node[r].pc = "flush" /\ Copies(r) = {}
  /\ out' = [out EXCEPT ![r] = Flushed(r)]
  /\ node' = [node EXCEPT ![r].pc = "done"]
  /\ UNCHANGED <<job, version, buf, inbox, unread, signal, stale, joined, missed>>

ReceiveWeights(r) ==
  \/ Subscribe(r) \/ ReadMetadata(r) \/ Read(r) \/ Received(r) \/ Forward(r)
  \/ Yield(r) \/ Copy(r) \/ SendLarge(r) \/ YieldEnd(r) \/ FinalFlush(r)
Next ==
  \/ Fill \/ Send \/ Reuse \/ Drain \/ Broadcast \/ NextUpdate
  \/ \E r \in 1 .. Receivers : ReceiveWeights(r)
Spec == Init /\ [][Next]_vars
LiveSpec == Spec /\ WF_vars(Next)

(* ------------------------------ properties ----------------------------- *)
PartsOf(w) ==
  {[weight |-> w, offset |-> c.offset, value |-> <<version, BucketOf(c)>>] :
     c \in Range(Chunks(job.weights, w))}

(* What an engine loads of a weight are its bytes of this version, although *)
(* they pass through two buffers per rank that are filled, read by the next *)
(* rank and copied from at the same time. Not covered: a weight of exactly  *)
(* the bucket size with sglang, which keeps the view, and an update after a *)
(* wait of mooncake that an older update's signal ended.                    *)
LoadedWhole ==
  ~stale => \A r \in 1 .. Receivers : \A i \in DOMAIN out[r].loaded :
    LET w == out[r].loaded[i].weight
    IN KeptAsView(w) \/ out[r].loaded[i].parts = PartsOf(w)

(* After an update every rank has loaded every weight once, in order.       *)
UpdateComplete ==
  (\A r \in Ranks : node[r].pc = "done") =>
    \A r \in 1 .. Receivers :
      [i \in DOMAIN out[r].loaded |-> out[r].loaded[i].weight] = [w \in DOMAIN job.weights |-> w]

(* The updates end: no rank waits for ever for a buffer, for metadata or    *)
(* for the collective, unless the metadata of a broadcast was published     *)
(* before a receiver's subscription had taken effect.                       *)
TransferEnds == <>(missed \/ (version = Updates /\ \A r \in Ranks : node[r].pc = "done"))
=============================================================================
