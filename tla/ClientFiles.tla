---------------------------- MODULE ClientFiles ----------------------------
(***************************************************************************)
(* Files that a client sends and saves.  A file is cut into chunks, which  *)
(* stay on the disk of the sender; a manifest with their hashes is kept in *)
(* memory and sent.  No code asks for the chunks of a file of another.     *)
(***************************************************************************)
EXTENDS Basics

CONSTANTS Chunks,    \* number of chunks of a file
          MaxExits   \* bound: restarts of the program

ASSUME FilesAssumption == Chunks \in Nat \ {0} /\ MaxExits \in Nat

File == {"mine", "theirs"}
Content == {"none", "good", "bad"}   \* of a chunk file

VARIABLES
    chunk,      \* chunk files of the user's own file
    sending,    \* chunks that SendFile has been through, or None
    manifest,   \* manifests
    saving,     \* what SaveFileToDisk is writing, or None
    saved,      \* the last result of SaveFileToDisk
    exits       \* number of restarts

fileVars == <<chunk, sending, manifest, saving, saved, exits>>

FilesInit ==
    /\ chunk = [i \in 1..Chunks |-> "none"]
    /\ sending = None /\ manifest = {} /\ saving = None
    /\ saved = [result |-> "none", content |-> <<>>]
    /\ exits = 0

\* SendFile: a new file id, whose chunks are written one by one.
SendFile ==
    /\ sending = None /\ "mine" \notin manifest
    /\ sending' = 0 /\ chunk' = [i \in 1..Chunks |-> "none"]
    /\ UNCHANGED <<manifest, saving, saved, exits>>

\* A failed or a short write goes unnoticed.
WriteChunk ==
    /\ sending # None /\ sending < Chunks
    /\ \E c \in Content : chunk' = [chunk EXCEPT ![sending + 1] = c]
    /\ sending' = sending + 1
    /\ UNCHANGED <<manifest, saving, saved, exits>>

\* With a key for the target the manifest is sent and remembered; without one the call
\* fails, and the chunks stay for nothing.
SendManifest ==
    /\ sending = Chunks
    /\ sending' = None
    /\ \/ manifest' = manifest \cup {"mine"}
       \/ UNCHANGED manifest
    /\ UNCHANGED <<chunk, saving, saved, exits>>

\* The manifest of a file sent to this client directly; its chunks stay with the sender.
HandleFilePayload ==
    /\ "theirs" \notin manifest
    /\ manifest' = manifest \cup {"theirs"}
    /\ UNCHANGED <<chunk, sending, saving, saved, exits>>

SaveFileToDisk(f) ==
    /\ saving = None /\ f \in manifest
    /\ saving' = [file |-> f, content |-> <<>>]
    /\ UNCHANGED <<chunk, sending, manifest, saved, exits>>

ChunkOf(f, i) == IF f = "mine" THEN chunk[i] ELSE "none"
Done == Len(saving.content)

\* Faulty variant: a chunk that can be read is taken as it is.
ReadableChunk(c) == c # "none"

\* The chunk can be read and has the hash the manifest gives.
IntactChunk(c) == c = "good"

\* One chunk is read, checked and written to the destination.
SaveChunk ==
    /\ saving # None /\ Done < Chunks
    /\ LET c == ChunkOf(saving.file, Done + 1)
       IN  \/ /\ IntactChunk(c)
              /\ saving' = [saving EXCEPT !.content = Append(@, c)]
              /\ UNCHANGED saved
           \/ /\ saving' = None   \* what was written stays at the destination
              /\ saved' = [result |-> "failed", content |-> saving.content]
    /\ UNCHANGED <<chunk, sending, manifest, exits>>

SaveDone ==
    /\ saving # None /\ Done = Chunks
    /\ saving' = None
    /\ saved' = [result |-> "ok", content |-> saving.content]
    /\ UNCHANGED <<chunk, sending, manifest, exits>>

\* The program ends and starts again: the manifests and the calls are gone.
Quit ==
    /\ exits < MaxExits
    /\ exits' = exits + 1
    /\ manifest' = {} /\ sending' = None /\ saving' = None
    /\ UNCHANGED <<chunk, saved>>

FilesNext ==
    \/ SendFile \/ WriteChunk \/ SendManifest \/ HandleFilePayload
    \/ \E f \in File : SaveFileToDisk(f)
    \/ SaveChunk \/ SaveDone \/ Quit

FilesSpec == FilesInit /\ [][FilesNext]_fileVars

(***************************************************************************)
(* Properties.                                                             *)
(***************************************************************************)
\* Every variable has its type.
FilesTypeOK ==
    /\ chunk \in [1..Chunks -> Content]
    /\ sending \in 0..Chunks \cup {None}
    /\ manifest \in SUBSET File
    /\ saving \in [file : File, content : Seq(Content)] \cup {None}
    /\ saved \in [result : {"none", "ok", "failed"}, content : Seq(Content)]
    /\ exits \in 0..MaxExits

\* A file that SaveFileToDisk reports as saved is the one that was sent, although
\* SendFile does not notice that a chunk was not written, or not wholly.
SavedIsGenuine ==
    saved.result = "ok" => saved.content = [i \in 1..Chunks |-> "good"]
=============================================================================
