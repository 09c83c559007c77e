--------------------------- MODULE NetworkProofs ---------------------------
(***************************************************************************)
(* Proofs about the client: its way from relay to relay, its channel keys, *)
(* its files, its update and its identity, for every number of relays,     *)
(* keys, chunks, restarts and faults; and about the network put together in MCNetwork,   *)
(* where every theorem about one of its parts carries over.                *)
(***************************************************************************)
EXTENDS MCNetwork, EventStreamsProofs, ClientSessionsProofs, FiniteSetTheorems, TLAPS

(***************************************************************************)
(* Relays and the way of a client from one to the next.                    *)
(***************************************************************************)
\* A key outlives the next heartbeat by what TTL exceeds Interval.
RenewalInv ==
    \A r \in Host : mode[r] = "beating" /\ r \notin missed =>
        present[r] >= due[r] + (TTL - Interval)

\* The loop of connectToBestRelay starts with the first relay, and JoinChannel sends
\* the subscription of the channel it has set.
LoopInv ==
    /\ link # "off" => at >= 1
    /\ joining # None => joining = currentChannel

FailoverInv == FailoverTypeOK /\ RenewalInv /\ LoopInv /\ CurrentIsSubscribed

\* The two halves of the type invariant: what the relays and the core change, and
\* what the client changes.
RegistryType ==
    /\ coreUp \in BOOLEAN
    /\ present \in [Host -> 0..TTL]
    /\ mode \in [Host -> {"down", "serving", "beating"}]
    /\ due \in [Host -> 0..Interval]
    /\ missed \in SUBSET Host

ClientType ==
    /\ relays \in Seq(Host) /\ Len(relays) <= Cardinality(Host)
    /\ at \in 0..Len(relays) + 1 /\ refused \in SUBSET (1..Len(relays))
    /\ link \in {"off", "dial", "fresh", "open", "pause", "over"}
    /\ (link \in {"fresh", "open", "pause"} => at \in 1..Len(relays))
    /\ subs \in SUBSET Room
    /\ currentChannel \in Room \cup {None} /\ joining \in Room \cup {None}

LEMMA FailoverTypeParts ==
    FailoverTypeOK <=> RegistryType /\ ClientType /\ faults \in 0..MaxFaults
BY DEF FailoverTypeOK, RegistryType, ClientType

\* A list of the relays the core knows has no more entries than there are relays.
LEMMA ListOfRelays ==
    ASSUME NEW l \in [1..Cardinality(Listed) -> Listed]
    PROVE  l \in Seq(Host) /\ Len(l) <= Cardinality(Host) /\ Len(l) \in Nat
<1>1. IsFiniteSet(Host) /\ Listed \subseteq Host
  BY FailoverAssumption DEF Listed
<1>2. /\ Cardinality(Listed) \in Nat /\ Cardinality(Host) \in Nat
      /\ Cardinality(Listed) <= Cardinality(Host)
  BY <1>1, FS_Subset, FS_CardinalityType
<1>3. l \in [1..Cardinality(Listed) -> Host]
  BY <1>1
<1> QED
  BY <1>2, <1>3

\* The relays and the core leave the client alone and keep every key ahead of the
\* next heartbeat.
LEMMA RegistryStep ==
    ASSUME RegistryType, RenewalInv,
           \/ \E r \in Host : RegisterRelay(r) \/ SendHeartbeat(r) \/ StopHost(r)
           \/ StopCoreServer \/ StartCoreServer \/ FailoverTick
    PROVE  RegistryType' /\ RenewalInv' /\ UNCHANGED sdk
<1> USE FailoverAssumption DEF RegistryType, RenewalInv
<1> DEFINE Goal == RegistryType' /\ RenewalInv' /\ UNCHANGED sdk
<1>1. ASSUME NEW r \in Host, RegisterRelay(r)
      PROVE  Goal
  BY <1>1 DEF RegisterRelay
<1>2. ASSUME NEW r \in Host, SendHeartbeat(r)
      PROVE  Goal
  BY <1>2 DEF SendHeartbeat
<1>3. ASSUME NEW r \in Host, StopHost(r)
      PROVE  Goal
  BY <1>3 DEF StopHost
<1>4. CASE StopCoreServer
  BY <1>4 DEF StopCoreServer
<1>5. CASE StartCoreServer
  BY <1>5 DEF StartCoreServer
<1>6. CASE FailoverTick
  <2>1. /\ \A r \in Host : mode[r] = "beating" => due[r] > 0
        /\ present' = [r \in Host |-> IF present[r] = 0 THEN 0 ELSE present[r] - 1]
        /\ due' = [r \in Host |-> IF mode[r] = "beating" THEN due[r] - 1 ELSE 0]
        /\ UNCHANGED <<coreUp, mode, faults, missed, sdk>>
    BY <1>6 DEF FailoverTick
  <2>2. RenewalInv'
    BY <2>1
  <2> QED
    BY <2>1, <2>2
<1> QED
  BY <1>1, <1>2, <1>3, <1>4, <1>5, <1>6

\* The client leaves the registry alone.
LEMMA ClientStep ==
    ASSUME FailoverInv,
           \/ UpdateRelays \/ ConnectRelay \/ Resubscribe \/ LinkLost \/ NextRelay
           \/ NoRelayLeft \/ SubscribeToRelayChannel \/ CloseSdk
           \/ \E c \in Room : JoinChannel(c) \/ SubscribeToCreated(c)
    PROVE  ClientType' /\ LoopInv' /\ CurrentIsSubscribed' /\ UNCHANGED registry
<1> DEFINE Goal == ClientType' /\ LoopInv' /\ CurrentIsSubscribed' /\ UNCHANGED registry
<1> USE FailoverAssumption, FailoverTypeParts
        DEF FailoverInv, ClientType, LoopInv, CurrentIsSubscribed
<1>0. Len(relays) \in Nat
  OBVIOUS
<1>1. CASE UpdateRelays
  <2>1. PICK l \in [1..Cardinality(Listed) -> Listed] : relays' = l
    BY <1>1 DEF UpdateRelays
  <2>2. /\ at' = 1 /\ refused' = {} /\ link' = "dial"
        /\ UNCHANGED <<registry, faults, subs, currentChannel, joining>>
    BY <1>1 DEF UpdateRelays
  <2> QED
    BY <2>1, <2>2, ListOfRelays
<1>2. CASE ConnectRelay
  BY <1>0, <1>2 DEF ConnectRelay
<1>3. CASE Resubscribe
  BY <1>3 DEF Resubscribe
<1>4. CASE LinkLost
  BY <1>4 DEF LinkLost
<1>5. CASE NextRelay
  BY <1>0, <1>5 DEF NextRelay
<1>6. CASE NoRelayLeft
  BY <1>6 DEF NoRelayLeft
<1>7. CASE SubscribeToRelayChannel
  BY <1>7 DEF SubscribeToRelayChannel, SendSubscription
<1>8. CASE CloseSdk
  <2>1. Cardinality(Host) \in Nat
    BY FS_CardinalityType
  <2> QED
    BY <1>8, <2>1 DEF CloseSdk
<1>9. ASSUME NEW c \in Room, JoinChannel(c)
      PROVE  Goal
  BY <1>9 DEF JoinChannel
<1>10. ASSUME NEW c \in Room, SubscribeToCreated(c)
       PROVE  Goal
  BY <1>10 DEF SubscribeToCreated, SendSubscription
<1> QED
  BY <1>1, <1>2, <1>3, <1>4, <1>5, <1>6, <1>7, <1>8, <1>9, <1>10

\* Faults are counted up to the bound.
LEMMA FaultsStep ==
    ASSUME faults \in 0..MaxFaults, FailoverNext
    PROVE  faults' \in 0..MaxFaults
<1>1. faults' = faults \/ (faults < MaxFaults /\ faults' = faults + 1)
  BY DEF FailoverNext, RegisterRelay, SendHeartbeat, StopHost, StopCoreServer,
         StartCoreServer, FailoverTick, UpdateRelays, ConnectRelay, Resubscribe, LinkLost,
         NextRelay, NoRelayLeft, SubscribeToRelayChannel, CloseSdk, JoinChannel,
         SubscribeToCreated
<1> QED
  BY <1>1, FailoverAssumption

\* The invariant of relays, heartbeats and the client's loop holds in every reachable state.
THEOREM FailoverInvariance == FailoverSpec => []FailoverInv
<1>1. FailoverInit => FailoverInv
  <2> SUFFICES ASSUME FailoverInit
               PROVE  FailoverInv
    OBVIOUS
  <2>1. Cardinality(Host) \in Nat
    BY FailoverAssumption, FS_CardinalityType
  <2>2. coreUp \in BOOLEAN
    BY DEF FailoverInit
  <2> QED
    BY <2>1, <2>2, FailoverAssumption
       DEF FailoverInit, FailoverInv, FailoverTypeOK, RenewalInv, LoopInv,
           CurrentIsSubscribed
<1>2. FailoverInv /\ [FailoverNext]_failoverVars => FailoverInv'
  <2> SUFFICES ASSUME FailoverInv, [FailoverNext]_failoverVars
               PROVE  FailoverInv'
    OBVIOUS
  <2>1. RegistryType /\ ClientType /\ faults \in 0..MaxFaults
    BY FailoverTypeParts DEF FailoverInv
  <2>2. CASE \/ \E r \in Host : RegisterRelay(r) \/ SendHeartbeat(r) \/ StopHost(r)
             \/ StopCoreServer \/ StartCoreServer \/ FailoverTick
    <3>1. RegistryType' /\ RenewalInv' /\ UNCHANGED sdk
      BY <2>1, <2>2, RegistryStep DEF FailoverInv
    <3>2. ClientType' /\ LoopInv' /\ CurrentIsSubscribed'
      BY <2>1, <3>1 DEF FailoverInv, ClientType, LoopInv, CurrentIsSubscribed, sdk
    <3>3. faults' \in 0..MaxFaults
      BY <2>1, <2>2, FaultsStep DEF FailoverNext
    <3> QED
      BY <3>1, <3>2, <3>3 DEF FailoverInv, FailoverTypeOK, RegistryType, ClientType
  <2>3. CASE \/ UpdateRelays \/ ConnectRelay \/ Resubscribe \/ LinkLost \/ NextRelay
             \/ NoRelayLeft \/ SubscribeToRelayChannel \/ CloseSdk
             \/ \E c \in Room : JoinChannel(c) \/ SubscribeToCreated(c)
    <3>1. ClientType' /\ LoopInv' /\ CurrentIsSubscribed' /\ UNCHANGED registry
      BY <2>3, ClientStep
    <3>2. RegistryType' /\ RenewalInv'
      BY <2>1, <3>1 DEF FailoverInv, RegistryType, RenewalInv, registry
    <3>3. faults' \in 0..MaxFaults
      BY <2>1, <2>3, FaultsStep DEF FailoverNext
    <3> QED
      BY <3>1, <3>2, <3>3 DEF FailoverInv, FailoverTypeOK, RegistryType, ClientType
  <2>4. CASE UNCHANGED failoverVars
    BY <2>4 DEF failoverVars, FailoverInv, FailoverTypeOK, RenewalInv, LoopInv,
                CurrentIsSubscribed
  <2> QED
    BY <2>2, <2>3, <2>4 DEF FailoverNext
<1> QED
  BY <1>1, <1>2, PTL DEF FailoverSpec

\* Every variable of the relays and of the client's connection keeps its type.
THEOREM FailoverTypeCorrect == FailoverSpec => []FailoverTypeOK
<1>1. FailoverInv => FailoverTypeOK
  BY DEF FailoverInv
<1> QED
  BY <1>1, FailoverInvariance, PTL

\* A relay that reports stays listed, for every Interval shorter than TTL.
THEOREM ReportingIsListed == FailoverSpec => []ListedUnlessMissed
<1>1. FailoverInv => ListedUnlessMissed
  BY FailoverAssumption
     DEF FailoverInv, FailoverTypeOK, RenewalInv, ListedUnlessMissed
<1> QED
  BY <1>1, FailoverInvariance, PTL

\* The relay of an open connection has the subscription of the current channel.
THEOREM CurrentStaysSubscribed == FailoverSpec => []CurrentIsSubscribed
<1>1. FailoverInv => CurrentIsSubscribed
  BY DEF FailoverInv
<1> QED
  BY <1>1, FailoverInvariance, PTL

(***************************************************************************)
(* Grid jobs.                                                              *)
(***************************************************************************)
\* Every variable of the grid jobs keeps its type: no stream leaves more goroutines
\* behind than the bound allows.
THEOREM GridTypeCorrect == GridSpec => []GridTypeOK
<1> USE GridAssumption DEF GridTypeOK
<1>1. GridInit => GridTypeOK
  <2>1. GridInit => cut \in BOOLEAN /\ asleep \in BOOLEAN
    BY DEF GridInit
  <2> QED
    BY <2>1 DEF GridInit
<1>2. GridTypeOK /\ [GridNext]_gridVars => GridTypeOK'
  <2> SUFFICES ASSUME GridTypeOK, [GridNext]_gridVars
               PROVE  GridTypeOK'
    OBVIOUS
  <2>1. CASE StartGridWorker
    BY <2>1 DEF StartGridWorker
  <2>2. CASE SubscribeToJobs
    <3>1. cut' \in BOOLEAN /\ asleep' \in BOOLEAN
      BY <2>2 DEF SubscribeToJobs
    <3>2. late' \in 0..MaxLate
      BY <2>2 DEF SubscribeToJobs
    <3> QED
      BY <2>2, <3>1, <3>2 DEF SubscribeToJobs
  <2>3. CASE SubscribeFails
    BY <2>3 DEF SubscribeFails
  <2>4. CASE SendJob
    BY <2>4 DEF SendJob
  <2>5. CASE SendLateJob
    BY <2>5 DEF SendLateJob
  <2>6. CASE CutStream
    BY <2>6 DEF CutStream
  <2>7. CASE StreamOver
    BY <2>7 DEF StreamOver
  <2>8. CASE PauseOver
    BY <2>8 DEF PauseOver
  <2>9. CASE StopWorker
    BY <2>9 DEF StopWorker
  <2>10. CASE UNCHANGED gridVars
    BY <2>10 DEF gridVars
  <2> QED
    BY <2>1, <2>2, <2>3, <2>4, <2>5, <2>6, <2>7, <2>8, <2>9, <2>10 DEF GridNext
<1> QED
  BY <1>1, <1>2, PTL DEF GridSpec

(***************************************************************************)
(* Self-update.                                                            *)
(***************************************************************************)
\* Where the intact copies are at every point of DoUpdate.
CopiesInv ==
    ~badTaken /\ ~stuck =>
        /\ program \in {"fetched", "cleared", "moved"} => download = "good"
        /\ program = "moved" => old = "good"
        /\ program \notin {"moved", "dead"} => exe = "good"
        /\ IntactCopyRemains

UpdateInv == UpdateTypeOK /\ CopiesInv

\* The intact copies are where CopiesInv says, wherever DoUpdate is interrupted.
THEOREM UpdateInvariance == UpdateSpec => []UpdateInv
<1> USE UpdateAssumption
<1>1. UpdateInit => UpdateInv
  <2> SUFFICES ASSUME UpdateInit
               PROVE  UpdateInv
    OBVIOUS
  <2>1. offered \in BOOLEAN /\ badTaken \in BOOLEAN /\ stuck \in BOOLEAN
    BY DEF UpdateInit
  <2>2. exe = "good" /\ old = "none" /\ download = "none" /\ program = "idle" /\ updates = 0
    BY DEF UpdateInit
  <2> QED
    BY <2>1, <2>2 DEF UpdateInv, UpdateTypeOK, CopiesInv, IntactCopyRemains, Copy
<1>2. UpdateInv /\ [UpdateNext]_updateVars => UpdateInv'
  <2> SUFFICES ASSUME UpdateInv, [UpdateNext]_updateVars
               PROVE  UpdateInv'
    OBVIOUS
  <2> USE DEF UpdateInv, UpdateTypeOK, CopiesInv, IntactCopyRemains, Copy
  <2>1. CASE CheckForUpdate
    BY <2>1 DEF CheckForUpdate
  <2>2. CASE Download
    <3>1. badTaken' = badTaken \/ (badTaken' = TRUE /\ program' = "fetched")
      BY <2>2 DEF Download
    <3>2. badTaken' \in BOOLEAN /\ (~badTaken' => ~badTaken)
      BY <3>1
    <3>3. ~badTaken' /\ program' # "idle" => program' = "fetched" /\ download' = "good"
      BY <2>2 DEF Download
    <3>4. /\ program' \in {"idle", "fetched"} /\ download' \in {"good", "bad"}
          /\ updates' = updates + 1 /\ updates < MaxUpdates
          /\ UNCHANGED <<exe, old, offered, stuck>>
          /\ program = "idle"
      BY <2>2 DEF Download
    <3> QED
      BY <3>2, <3>3, <3>4
  <2>3. CASE RemoveOld
    BY <2>3 DEF RemoveOld
  <2>4. CASE MoveCurrent
    BY <2>4 DEF MoveCurrent
  <2>5. CASE MoveNew
    BY <2>5 DEF MoveNew
  <2>6. CASE StartNew
    BY <2>6 DEF StartNew
  <2>7. CASE Die
    BY <2>7 DEF Die
  <2>8. CASE StartAgain
    BY <2>8 DEF StartAgain
  <2>9. CASE UNCHANGED updateVars
    BY <2>9 DEF updateVars
  <2> QED
    BY <2>1, <2>2, <2>3, <2>4, <2>5, <2>6, <2>7, <2>8, <2>9 DEF UpdateNext
<1> QED
  BY <1>1, <1>2, PTL DEF UpdateSpec

\* Every variable of the self-update keeps its type.
THEOREM UpdateTypeCorrect == UpdateSpec => []UpdateTypeOK
<1>1. UpdateInv => UpdateTypeOK
  BY DEF UpdateInv
<1> QED
  BY <1>1, UpdateInvariance, PTL

\* Wherever DoUpdate breaks off, an intact program stays on the disk, unless a bad
\* download was taken for good or a rollback failed.
THEOREM IntactCopyStays == UpdateSpec => []IntactCopyRemains
<1>1. UpdateInv => IntactCopyRemains
  BY DEF UpdateInv, CopiesInv, IntactCopyRemains
<1> QED
  BY <1>1, UpdateInvariance, PTL

(***************************************************************************)
(* Channel keys.                                                           *)
(***************************************************************************)
\* Without a mishap every key that is about to be cached is the one of the row.
RowInv ==
    ~mishap => /\ creating \in {0, row}
               /\ \A t \in Task : found[t] \in {0, row}

KeysInv == KeysTypeOK /\ RowInv /\ CacheMatchesRow

\* Every key on its way into the cache is that of the row, whatever loads, creations and
\* restarts interleave.
THEOREM KeysInvariance == KeysSpec => []KeysInv
<1> USE KeysAssumption
<1>1. KeysInit => KeysInv
  <2> SUFFICES ASSUME KeysInit
               PROVE  KeysInv
    OBVIOUS
  <2>1. mishap \in BOOLEAN
    BY DEF KeysInit
  <2> QED
    BY <2>1 DEF KeysInit, KeysInv, KeysTypeOK, RowInv, CacheMatchesRow, Keys, Task
<1>2. KeysInv /\ [KeysNext]_keyVars => KeysInv'
  <2> SUFFICES ASSUME KeysInv, [KeysNext]_keyVars
               PROVE  KeysInv'
    OBVIOUS
  <2> USE DEF KeysInv, KeysTypeOK, RowInv, CacheMatchesRow, Keys, Task
  <2>1. CASE CreateChannel
    <3>1. /\ keys < MaxKeys /\ keys' = keys + 1 /\ creating' = keys + 1
          /\ row' \in {row, keys + 1}
          /\ UNCHANGED <<cache, found, calling, pages, posted, reopens>>
      BY <2>1 DEF CreateChannel, SaveChannelKey
    <3>2. mishap' = TRUE \/ mishap' = (mishap \/ \E t \in Task : found[t] # 0)
      BY <2>1 DEF CreateChannel
    <3>3. mishap' \in BOOLEAN
      BY <3>2
    <3>4. ~mishap' => row' = keys + 1 /\ \A t \in Task : found[t] = 0
      BY <2>1 DEF CreateChannel, SaveChannelKey
    <3> QED
      BY <3>1, <3>3, <3>4
  <2>2. CASE CacheChannelKey
    BY <2>2 DEF CacheChannelKey
  <2>3. CASE SendToChannel
    BY <2>3 DEF SendToChannel, GetChannelKey
  <2>4. CASE SaveWikiPage
    BY <2>4 DEF SaveWikiPage, SaveLocal
  <2>5. CASE PostPage
    BY <2>5 DEF PostPage
  <2>6. CASE LookUpForPage
    BY <2>6 DEF LookUpForPage, GetChannelKey
  <2>7. CASE PageWithoutKey
    BY <2>7 DEF PageWithoutKey
  <2>8. CASE PostWithFound
    <3>1. /\ found["user"] # 0 /\ found["user"] \in Keys
          /\ cache' = found["user"] /\ posted' = posted \cup {found["user"]}
          /\ found' = [found EXCEPT !["user"] = 0] /\ calling' = None
          /\ UNCHANGED <<keys, row, creating, pages, reopens, mishap>>
      BY <2>8 DEF PostWithFound
    <3>2. posted' \in SUBSET (1..MaxKeys)
      <4>1. found["user"] \in 1..MaxKeys
        BY <3>1
      <4>2. posted \in SUBSET (1..MaxKeys)
        OBVIOUS
      <4> HIDE DEF KeysInv
      <4> QED
        BY <4>1, <4>2, <3>1
    <3>3. found' \in [Task -> Keys] /\ \A t \in Task : found'[t] \in {0, found[t]}
      BY <3>1
    <3>4. ~mishap => cache' = row
      BY <3>1
    <3> QED
      BY <3>1, <3>2, <3>3, <3>4
  <2>9. CASE ReceivePost
    BY <2>9 DEF ReceivePost, GetChannelKey
  <2>10. CASE CacheReceived
    BY <2>10 DEF CacheReceived
  <2>11. CASE Reopen
    BY <2>11 DEF Reopen
  <2>12. CASE TagMessage
    BY <2>12 DEF TagMessage, SaveLocal
  <2>13. CASE ReceiveTag
    BY <2>13 DEF ReceiveTag, ReceivePost, GetChannelKey
  <2>14. CASE UNCHANGED keyVars
    BY <2>14 DEF keyVars
  <2> QED
    BY <2>1, <2>2, <2>3, <2>4, <2>5, <2>6, <2>7, <2>8, <2>9, <2>10, <2>11, <2>12, <2>13,
       <2>14 DEF KeysNext
<1> QED
  BY <1>1, <1>2, PTL DEF KeysSpec

\* Every variable of the channel keys keeps its type.
THEOREM KeysTypeCorrect == KeysSpec => []KeysTypeOK
<1>1. KeysInv => KeysTypeOK
  BY DEF KeysInv
<1> QED
  BY <1>1, KeysInvariance, PTL

\* The cached key is the one a restarted program would load from its row.
THEOREM CachedKeyIsRow == KeysSpec => []CacheMatchesRow
<1>1. KeysInv => CacheMatchesRow
  BY DEF KeysInv
<1> QED
  BY <1>1, KeysInvariance, PTL

(***************************************************************************)
(* Files.                                                                  *)
(***************************************************************************)
\* What SaveFileToDisk has written so far was checked chunk by chunk.
WrittenInv ==
    saving # None => /\ Len(saving.content) <= Chunks
                     /\ \A i \in 1..Len(saving.content) : saving.content[i] = "good"

FilesInv == FilesTypeOK /\ WrittenInv /\ SavedIsGenuine

\* A file all of whose chunks are intact is the one that was cut into them.
LEMMA AllChunksIntact ==
    ASSUME NEW s \in Seq(Content), Len(s) = Chunks,
           \A i \in 1..Len(s) : s[i] = "good"
    PROVE  s = [i \in 1..Chunks |-> "good"]
<1>1. s \in [1..Chunks -> Content]
  BY FilesAssumption
<1> QED
  BY <1>1

\* What SaveFileToDisk has written was checked, whatever SendFile failed to write.
THEOREM FilesInvariance == FilesSpec => []FilesInv
<1> USE FilesAssumption
<1>1. FilesInit => FilesInv
  BY DEF FilesInit, FilesInv, FilesTypeOK, WrittenInv, SavedIsGenuine, Content, File
<1>2. FilesInv /\ [FilesNext]_fileVars => FilesInv'
  <2> SUFFICES ASSUME FilesInv, [FilesNext]_fileVars
               PROVE  FilesInv'
    OBVIOUS
  <2>1. CASE SendFile
    BY <2>1 DEF SendFile, FilesInv, FilesTypeOK, WrittenInv, SavedIsGenuine, Content
  <2>2. CASE WriteChunk
    BY <2>2 DEF WriteChunk, FilesInv, FilesTypeOK, WrittenInv, SavedIsGenuine
  <2>3. CASE SendManifest
    BY <2>3 DEF SendManifest, FilesInv, FilesTypeOK, WrittenInv, SavedIsGenuine, File
  <2>4. CASE HandleFilePayload
    BY <2>4 DEF HandleFilePayload, FilesInv, FilesTypeOK, WrittenInv, SavedIsGenuine, File
  <2>5. ASSUME NEW f \in File, SaveFileToDisk(f)
        PROVE  FilesInv'
    BY <2>5 DEF SaveFileToDisk, FilesInv, FilesTypeOK, WrittenInv, SavedIsGenuine
  <2>6. CASE SaveChunk
    <3>1. saving \in [file : File, content : Seq(Content)]
      BY <2>6 DEF SaveChunk, FilesInv, FilesTypeOK
    <3> DEFINE Fails == /\ saving' = None
                        /\ saved' = [result |-> "failed", content |-> saving.content]
               Grows == /\ saving' = [saving EXCEPT !.content = Append(@, "good")]
                        /\ UNCHANGED saved
    <3>2. (Fails \/ Grows) /\ UNCHANGED <<chunk, sending, manifest, exits>>
      BY <2>6 DEF SaveChunk, IntactChunk
    <3>3. CASE Fails
      BY <3>2, <3>1, <3>3 DEF FilesInv, FilesTypeOK, WrittenInv, SavedIsGenuine
    <3>4. CASE Grows
      <4>1. /\ saving' = [saving EXCEPT !.content = Append(@, "good")]
            /\ UNCHANGED <<chunk, sending, manifest, saved, exits>>
            /\ saving # None /\ Len(saving.content) < Chunks
        BY <2>6, <3>4, <3>2 DEF SaveChunk, Done
      <4> DEFINE written == Append(saving.content, "good")
      <4>2. /\ saving' = [saving EXCEPT !.content = written]
            /\ written \in Seq(Content)
        BY <3>1, <4>1 DEF Content
      <4> HIDE DEF written
      <4>3. /\ saving'.content = written
            /\ saving' \in [file : File, content : Seq(Content)]
        BY <3>1, <4>2
      <4>4. /\ Len(saving'.content) = Len(saving.content) + 1
            /\ \A i \in 1..Len(saving.content) : saving'.content[i] = saving.content[i]
            /\ saving'.content[Len(saving.content) + 1] = "good"
        BY <3>1, <4>3 DEF Content, written
      <4>5. WrittenInv'
        <5>1. saving.content \in Seq(Content) /\ Len(saving.content) \in Nat
          BY <3>1
        <5>2. \A i \in 1..Len(saving.content) : saving.content[i] = "good"
          BY <4>1 DEF FilesInv, WrittenInv
        <5>3. \A i \in 1..Len(saving'.content) : saving'.content[i] = "good"
          BY <5>1, <5>2, <4>4
        <5> QED
          BY <5>1, <5>3, <4>1, <4>4 DEF WrittenInv
      <4> QED
        BY <4>1, <4>3, <4>5 DEF FilesInv, FilesTypeOK, SavedIsGenuine
    <3> QED
      BY <3>2, <3>3, <3>4
  <2>7. CASE SaveDone
    <3>1. saving \in [file : File, content : Seq(Content)]
      BY <2>7 DEF SaveDone, FilesInv, FilesTypeOK
    <3>2. saving.content = [i \in 1..Chunks |-> "good"]
      BY <2>7, <3>1, AllChunksIntact DEF SaveDone, Done, FilesInv, WrittenInv
    <3>3. /\ saved' = [result |-> "ok", content |-> saving.content]
          /\ saving' = None
          /\ UNCHANGED <<chunk, sending, manifest, exits>>
      BY <2>7 DEF SaveDone
    <3> QED
      BY <3>1, <3>2, <3>3 DEF FilesInv, FilesTypeOK, WrittenInv, SavedIsGenuine
  <2>8. CASE Quit
    BY <2>8 DEF Quit, FilesInv, FilesTypeOK, WrittenInv, SavedIsGenuine
  <2>9. CASE UNCHANGED fileVars
    BY <2>9 DEF fileVars, FilesInv, FilesTypeOK, WrittenInv, SavedIsGenuine
  <2> QED
    BY <2>1, <2>2, <2>3, <2>4, <2>5, <2>6, <2>7, <2>8, <2>9 DEF FilesNext
<1> QED
  BY <1>1, <1>2, PTL DEF FilesSpec

\* Every variable of the files keeps its type.
THEOREM FilesTypeCorrect == FilesSpec => []FilesTypeOK
<1>1. FilesInv => FilesTypeOK
  BY DEF FilesInv
<1> QED
  BY <1>1, FilesInvariance, PTL

\* What SaveFileToDisk reports as saved is the file that was sent.
THEOREM SavedFilesAreGenuine == FilesSpec => []SavedIsGenuine
<1>1. FilesInv => SavedIsGenuine
  BY DEF FilesInv
<1> QED
  BY <1>1, FilesInvariance, PTL

(***************************************************************************)
(* The identity of a node.                                                 *)
(***************************************************************************)
\* As long as nothing overlapped: a program that makes an identity is the only one at
\* work, and the core knows none of them; a program runs with the key in the file.
MakerInv ==
    ~overlapped =>
        /\ \A p \in Program : MakingOne(p) => /\ keyFile = NoKey
                                              /\ \A q \in Program : MakingOne(q) => q = p
        /\ NoKey \notin backups
        /\ \A p \in Program : stage[p] = "on" => identity[p] = keyFile

IdentityInv == IdentityTypeOK /\ MakerInv /\ IdentityIsKept

\* A new identity is made only while the core knows none and no program runs.
THEOREM IdentityInvariance == IdentitySpec => []IdentityInv
<1> USE IdentityAssumption
<1>1. IdentityInit => IdentityInv
  <2> SUFFICES ASSUME IdentityInit
               PROVE  IdentityInv
    OBVIOUS
  <2>1. overlapped \in BOOLEAN
    BY DEF IdentityInit
  <2> QED
    BY <2>1 DEF IdentityInit, IdentityInv, IdentityTypeOK, MakerInv, IdentityIsKept,
                MakingOne, NoKey, Identity
<1>2. IdentityInv /\ [IdentityNext]_identityVars => IdentityInv'
  <2> SUFFICES ASSUME IdentityInv, [IdentityNext]_identityVars
               PROVE  IdentityInv'
    OBVIOUS
  <2> USE DEF IdentityInv, IdentityTypeOK, MakerInv, IdentityIsKept, MakingOne, NoKey,
              Identity
  <2>1. ASSUME NEW p \in Program, LoadIdentity(p)
        PROVE  IdentityInv'
    BY <2>1 DEF LoadIdentity
  <2>2. ASSUME NEW p \in Program, GenerateIdentity(p)
        PROVE  IdentityInv'
    <3>1. overlapped' \in BOOLEAN
      BY <2>2 DEF GenerateIdentity
    <3>2. ~overlapped' => /\ ~overlapped /\ keyFile = NoKey
                          /\ \A q \in Program : stage[q] \notin {"made", "writing"}
      BY <2>2 DEF GenerateIdentity
    <3>3. /\ stage[p] = "off" /\ made < MaxIdentities /\ made' = made + 1
          /\ stage' = [stage EXCEPT ![p] = "made"]
          /\ identity' = [identity EXCEPT ![p] = made + 1]
          /\ UNCHANGED <<keyFile, registered, backups>>
      BY <2>2 DEF GenerateIdentity
    <3>4. ~overlapped' => registered = {} /\ backups = {}
      BY <3>2
    <3> QED
      BY <3>1, <3>2, <3>3, <3>4
  <2>3. ASSUME NEW p \in Program, EmptyFile(p)
        PROVE  IdentityInv'
    BY <2>3 DEF EmptyFile
  <2>4. ASSUME NEW p \in Program, WriteIdentity(p)
        PROVE  IdentityInv'
    BY <2>4 DEF WriteIdentity
  <2>5. ASSUME NEW p \in Program, WriteFails(p)
        PROVE  IdentityInv'
    BY <2>5 DEF WriteFails
  <2>6. ASSUME NEW p \in Program, ExportIdentity(p)
        PROVE  IdentityInv'
    BY <2>6 DEF ExportIdentity
  <2>7. ASSUME NEW p \in Program, EndProgram(p)
        PROVE  IdentityInv'
    BY <2>7 DEF EndProgram
  <2>8. ASSUME NEW p \in Program, RegisterIdentity(p)
        PROVE  IdentityInv'
    BY <2>8 DEF RegisterIdentity
  <2>9. CASE UNCHANGED identityVars
    BY <2>9 DEF identityVars
  <2> QED
    BY <2>1, <2>2, <2>3, <2>4, <2>5, <2>6, <2>7, <2>8, <2>9 DEF IdentityNext
<1> QED
  BY <1>1, <1>2, PTL DEF IdentitySpec

\* Every variable of the identity file keeps its type.
THEOREM IdentityTypeCorrect == IdentitySpec => []IdentityTypeOK
<1>1. IdentityInv => IdentityTypeOK
  BY DEF IdentityInv
<1> QED
  BY <1>1, IdentityInvariance, PTL

\* However many programs use the file and wherever they end, a node keeps the identity it
\* is registered with, unless two programs made one at once or a key could not be read.
THEOREM IdentityStays == IdentitySpec => []IdentityIsKept
<1>1. IdentityInv => IdentityIsKept
  BY DEF IdentityInv
<1> QED
  BY <1>1, IdentityInvariance, PTL

-----------------------------------------------------------------------------
\* In the network, as MCNetwork puts it together, every part behaves as it does by
\* itself: a step of one leaves the others alone.
THEOREM NetworkImplementsParts ==
    FairSpec => /\ EventsSpec /\ FailoverSpec /\ GridSpec
                /\ SessionsSpec /\ KeysSpec /\ FilesSpec /\ UpdateSpec
                /\ IdentitySpec
<1>1. Init => /\ EventsInit /\ FailoverInit /\ GridInit
              /\ SessionsInit /\ KeysInit /\ FilesInit /\ UpdateInit
              /\ IdentityInit
  BY DEF Init
<1>2. [Next]_vars => /\ [EventsNext]_eventVars /\ [FailoverNext]_failoverVars
                     /\ [GridNext]_gridVars /\ [SessionsNext]_sessionVars
                     /\ [KeysNext]_keyVars /\ [FilesNext]_fileVars
                     /\ [UpdateNext]_updateVars /\ [IdentityNext]_identityVars
  BY DEF Next, vars, coreVars, clientVars
<1> QED
  BY <1>1, <1>2, PTL
  DEF FairSpec, Spec, Fairness, EventsSpec, FailoverSpec, GridSpec, SessionsSpec,
      KeysSpec, FilesSpec, UpdateSpec, IdentitySpec

\* Type correctness of the network, whichever of its parts is at work.
THEOREM NetworkTypeCorrect == FairSpec => []TypeOK
<1> DEFINE PartOK == part \in {"events", "failover", "grid", "sessions", "keys", "files",
                               "update", "identity"}
<1>1. Init => PartOK
  BY PartsAssumption DEF Init
<1>2. PartOK /\ [Next]_vars => PartOK'
  BY DEF Next, vars
<1>3. /\ PartOK /\ EventsTypeOK /\ FailoverTypeOK /\ GridTypeOK
      /\ SessionsTypeOK /\ KeysTypeOK /\ FilesTypeOK /\ UpdateTypeOK
      /\ IdentityTypeOK
      => TypeOK
  BY DEF TypeOK
<1>4. FairSpec => []PartOK
  BY <1>1, <1>2, PTL DEF FairSpec, Spec
<1> QED
  BY <1>3, <1>4, NetworkImplementsParts, EventsTypeCorrect, FailoverTypeCorrect,
     GridTypeCorrect, SessionsTypeCorrect, KeysTypeCorrect, FilesTypeCorrect,
     UpdateTypeCorrect, IdentityTypeCorrect, PTL
=============================================================================
