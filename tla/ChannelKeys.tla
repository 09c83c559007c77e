---------------------------- MODULE ChannelKeys ----------------------------
(***************************************************************************)
(* What a client keeps of a channel: its key, in a row of the database and *)
(* in the map channelKeys, and what the user writes under that key.        *)
(*                                                                         *)
(* channelKeys is read and written without a lock by the goroutine that    *)
(* receives and by those that serve the user; a fatal error of the runtime *)
(* (concurrent map access) is a restart.  No code asks a member for the    *)
(* key of a channel, so what others post is encrypted with keys that the   *)
(* client does not have: it looks its own key up and drops the post.       *)
(* The answer of the core to CreateChannel is an input.                    *)
(***************************************************************************)
EXTENDS Basics

CONSTANTS MaxKeys,     \* bound: keys made by CreateChannel
          MaxPages,    \* bound: pages or tags the user saves
          MaxReopens   \* bound: restarts of the program

ASSUME KeysAssumption ==
    MaxKeys \in Nat /\ MaxPages \in Nat /\ MaxReopens \in Nat

Keys == 0..MaxKeys             \* 0: no key
Task == {"user", "receiver"}   \* goroutines that look a key up

VARIABLES
    keys,       \* number of keys made
    row,        \* table channels: key_hex
    cache,      \* channelKeys
    creating,   \* the key CreateChannel has saved and not yet cached
    found,      \* the key a goroutine has read from the row and not yet cached
    calling,    \* what the user's goroutine looks the key up for: chat, page or None
    pages,      \* tables wiki_pages, message_tags: pages and tags saved
    posted,     \* keys of the posts sent
    reopens,    \* number of restarts
    mishap      \* history: a key was not saved, or was made while one was looked up

keyVars == <<keys, row, cache, creating, found, calling, pages, posted, reopens, mishap>>

KeysInit ==
    /\ keys = 0 /\ row = 0 /\ cache = 0 /\ creating = 0
    /\ found = [t \in Task |-> 0] /\ calling = None
    /\ pages = 0 /\ posted = {}
    /\ reopens = 0 /\ mishap = FALSE

\* Faulty variant: INSERT OR IGNORE, the key of a channel that has one stays.
SaveChannelKeyIgnores(key) == row' = IF row = 0 THEN key ELSE row

\* INSERT OR REPLACE.
SaveChannelKey(key) == row' = key

\* The core has accepted the channel: a new key, saved; the error is not looked at.
CreateChannel ==
    /\ creating = 0 /\ keys < MaxKeys
    /\ keys' = keys + 1 /\ creating' = keys + 1
    /\ \/ /\ SaveChannelKey(keys + 1)
          /\ mishap' = (mishap \/ \E t \in Task : found[t] # 0)
       \/ UNCHANGED row /\ mishap' = TRUE
    /\ UNCHANGED <<cache, found, calling, pages, posted, reopens>>

CacheChannelKey ==
    /\ creating # 0
    /\ cache' = creating /\ creating' = 0
    /\ UNCHANGED <<keys, row, found, calling, pages, posted, reopens, mishap>>

\* A goroutine that finds no cached key reads the row.
GetChannelKey(t) ==
    /\ cache = 0 /\ row # 0 /\ found[t] = 0
    /\ found' = [found EXCEPT ![t] = row]
    /\ UNCHANGED <<keys, row, cache, creating, posted, reopens, mishap>>

\* SendMessage goes on only when the key is not cached: on a hit `key' stays empty.
SendToChannel ==
    /\ calling = None
    /\ GetChannelKey("user")
    /\ calling' = "chat"
    /\ UNCHANGED pages

\* What the user writes goes to the local tables first, then the key is looked up.
SaveLocal ==
    /\ calling = None /\ pages < MaxPages
    /\ pages' = pages + 1 /\ calling' = "page"
    /\ UNCHANGED <<keys, row, cache, creating, found, posted, reopens, mishap>>

SaveWikiPage == SaveLocal

\* Anyone may tag a message.  CreateTag and SetChannelConfig ask for a role that the
\* client never stores, so they always fail at their first check.
TagMessage == SaveLocal

\* The key is cached: the page goes out under it.
PostPage ==
    /\ calling = "page" /\ found["user"] = 0 /\ cache # 0
    /\ posted' = posted \cup {cache} /\ calling' = None
    /\ UNCHANGED <<keys, row, cache, creating, found, pages, reopens, mishap>>

LookUpForPage ==
    /\ calling = "page"
    /\ GetChannelKey("user")
    /\ UNCHANGED <<calling, pages>>

\* Without a key the call fails; the page stays in the local table.
PageWithoutKey ==
    /\ calling = "page" /\ found["user"] = 0 /\ cache = 0 /\ row = 0
    /\ calling' = None
    /\ UNCHANGED <<keys, row, cache, creating, found, pages, posted, reopens, mishap>>

\* The key that was read is cached, and the post goes out under it.
PostWithFound ==
    /\ found["user"] # 0
    /\ cache' = found["user"] /\ posted' = posted \cup {found["user"]}
    /\ found' = [found EXCEPT !["user"] = 0] /\ calling' = None
    /\ UNCHANGED <<keys, row, creating, pages, reopens, mishap>>

\* handleChatMessage, handleWikiUpdate, handleMetadataUpdate: the key of the channel is
\* looked up and cached.
ReceivePost ==
    /\ GetChannelKey("receiver")
    /\ UNCHANGED <<calling, pages>>

\* handleTagCreated, handleTagAdded: the same.
ReceiveTag == ReceivePost

CacheReceived ==
    /\ found["receiver"] # 0
    /\ cache' = found["receiver"]
    /\ found' = [found EXCEPT !["receiver"] = 0]
    /\ UNCHANGED <<keys, row, creating, calling, pages, posted, reopens, mishap>>

\* The program ends and starts again: the map and the calls are gone.
Reopen ==
    /\ reopens < MaxReopens
    /\ reopens' = reopens + 1
    /\ cache' = 0 /\ creating' = 0 /\ found' = [t \in Task |-> 0] /\ calling' = None
    /\ UNCHANGED <<keys, row, pages, posted, mishap>>

KeysNext ==
    \/ CreateChannel \/ CacheChannelKey \/ SendToChannel \/ SaveWikiPage \/ TagMessage
    \/ PostPage \/ LookUpForPage \/ PageWithoutKey \/ PostWithFound
    \/ ReceivePost \/ ReceiveTag \/ CacheReceived \/ Reopen

KeysSpec == KeysInit /\ [][KeysNext]_keyVars

(***************************************************************************)
(* Properties.                                                             *)
(***************************************************************************)
\* Every variable has its type.
KeysTypeOK ==
    /\ keys \in Keys /\ row \in Keys /\ cache \in Keys /\ creating \in Keys
    /\ found \in [Task -> Keys]
    /\ calling \in {None, "chat", "page"}
    /\ pages \in 0..MaxPages /\ posted \in SUBSET (1..MaxKeys)
    /\ reopens \in 0..MaxReopens /\ mishap \in BOOLEAN

\* Whatever the interleaving of calls, received posts and restarts, the key in use is
\* the one a restarted program would use, once CreateChannel has ended: unless the row
\* could not be written, or the key was made while another goroutine looked one up.
CacheMatchesRow == creating = 0 /\ ~mishap => cache \in {0, row}
=============================================================================
