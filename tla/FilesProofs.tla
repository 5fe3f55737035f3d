----------------------------- MODULE FilesProofs -----------------------------
(***************************************************************************)
(* Safety of Files for any calls, users, uploads and failures: rows and    *)
(* objects agree but where an upload or a deletion is between the two, and *)
(* a file that is an image all the time keeps its object.                  *)
(***************************************************************************)
EXTENDS Files, TLAPS

\* What a step of one call leaves as it is of all the others.
OneCall(c) ==
    /\ DOMAIN call' = Calls /\ \A d \in Calls : d # c => call'[d] = call[d]
    /\ DOMAIN call'[c] = DOMAIN Started
    /\ call[c].touched => call'[c].touched
    /\ ObserveFiles

\* What files are asked for does not change.
LEMMA SameFile == ObserveFiles => \A c \in Calls : File(c)' = File(c) /\ asks' = asks
BY DEF ObserveFiles, File

\* A call that waits goes on relying on what it did, if its object is left alone.
LEMMA OthersRest ==
    ASSUME FilesInvariant, NEW c \in Calls, OneCall(c), NEW d \in Calls, d # c,
           call[d].pc = "save" => Uploading(d) \in objects',
           call[d].pc = "found" /\ File(d) \in objects \ objects' =>
              call'[c].touched /\ File(c) = File(d),
           call[d].pc = "row" => File(d) \notin objects',
           \A f : Uploaded(f) => Uploaded(f)'
    PROVE  StepsRest(d)'
<1>1. StepsRest(d) /\ call'[d] = call[d] /\ asks' = asks /\ \A b \in Calls : File(b)' = File(b)
  BY SameFile DEF FilesInvariant, OneCall
<1>2. call[d].pc = "guarded" => ~in_use'[d]
  BY <1>1 DEF OneCall, ObserveFiles, StepsRest
<1>3. call[d].pc = "found" =>
        File(d) \in objects' \/ \E b \in Calls : call'[b].touched /\ File(b) = File(d)
  BY <1>1 DEF OneCall, StepsRest
<1>4. Uploading(d)' = Uploading(d)
  BY <1>1 DEF Uploading
<1> QED  BY <1>1, <1>2, <1>3, <1>4 DEF StepsRest

\* Steps that touch neither rows nor objects.
LEMMA QuietCall ==
    ASSUME FilesInvariant, NEW c \in Calls, OneCall(c), UNCHANGED <<files, objects>>,
           call'[c].stored = call[c].stored,
           call[c].pc \in {"row", "save", "lost"} => call'[c].pc = "lost",
           call'[c].pc = "unavailable" => \E d \in Calls : call[d].touched /\ File(d) = File(c),
           StepsRest(c)'
    PROVE  FilesInvariant'
<1>0. /\ FileTypes /\ RowsAndObjectsAgree /\ \A b \in Calls : File(b)' = File(b)
      /\ \A b \in Calls : call'[b].stored = call[b].stored /\ (call[b].touched => call'[b].touched)
      /\ \A b \in Calls : b # c => call'[b] = call[b]
  BY SameFile DEF FilesInvariant, OneCall
<1>1. \A f : Uploaded(f) => Uploaded(f)'
  BY <1>0 DEF Uploaded
<1>2. FileTypes'
  BY <1>0, <1>1 DEF FileTypes, OneCall
<1>3. RowsAndObjectsAgree'
  <2>1. \A f \in DOMAIN files \ objects :
           \E b \in Calls : call'[b].touched /\ File(b) = f /\ call'[b].pc \in {"row", "lost"}
    BY <1>0 DEF RowsAndObjectsAgree
  <2>2. \A f \in objects \ DOMAIN files :
           f[2] = call'[f[1]].stored + 1 /\ call'[f[1]].pc \in {"save", "lost"}
    <3>1. \A f \in objects : f[1] \in Calls
      BY <1>0 DEF FileTypes
    <3> QED  BY <1>0, <3>1 DEF RowsAndObjectsAgree
  <2>3. \A b \in Calls : call'[b].pc = "unavailable" =>
           \E d \in Calls : call'[d].touched /\ File(d) = File(b)
    BY <1>0 DEF RowsAndObjectsAgree
  <2> QED  BY <1>0, <2>1, <2>2, <2>3 DEF RowsAndObjectsAgree
<1>4. ASSUME NEW d \in Calls, d # c
      PROVE  StepsRest(d)'
  <2>1. StepsRest(d)
    BY DEF FilesInvariant
  <2> QED  BY <1>1, <1>4, <2>1, OthersRest DEF StepsRest
<1> QED  BY <1>2, <1>3, <1>4 DEF FilesInvariant

LEMMA QuietSteps ==
    ASSUME FilesInvariant, NEW c \in Calls, ObserveFiles,
           \/ Validate(c) \/ FindFile(c) \/ EnsureNotReferenced(c) \/ ReadObject(c)
           \/ GetUser(c) \/ WriteImage(c) \/ DeleteAccount(c)
    PROVE  FilesInvariant'
<1>0. /\ FileTypes /\ RowsAndObjectsAgree /\ StepsRest(c)
      /\ DOMAIN call = Calls /\ DOMAIN call[c] = DOMAIN Started
      /\ DOMAIN Started = {"pc", "stored", "previous", "touched"}
      /\ File(c)' = File(c) /\ asks' = asks
  BY SameFile DEF FilesInvariant, FileTypes, Started
<1>1. /\ UNCHANGED <<files, objects>> /\ DOMAIN call' = Calls
      /\ \A d \in Calls : d # c => call'[d] = call[d]
      /\ DOMAIN call'[c] = DOMAIN Started
      /\ call'[c].stored = call[c].stored /\ call'[c].touched = call[c].touched
      /\ call[c].pc \notin {"row", "save", "lost"}
      /\ call'[c].pc \notin {"save", "row"}
  <2>1. CASE GetUser(c)
    BY <1>0, <2>1 DEF GetUser, Moves, Asks
  <2>2. CASE WriteImage(c)
    BY <1>0, <2>2 DEF WriteImage, Moves, Asks
  <2> QED
    BY <1>0, <2>1, <2>2 DEF Validate, FindFile, EnsureNotReferenced, ReadObject, DeleteAccount,
       Moves, Asks
<1>2. call'[c].pc = "found" => Uploaded(File(c)) /\
        (File(c) \in objects \/ \E d \in Calls : call[d].touched /\ File(d) = File(c))
  <2>1. CASE FindFile(c)
    <3>1. call'[c].pc = "found" => File(c) \in DOMAIN files
      BY <1>0, <2>1 DEF FindFile, Moves, Owned
    <3> QED  BY <1>0, <3>1 DEF FileTypes, RowsAndObjectsAgree
  <2> QED
    BY <1>0, <2>1 DEF Validate, EnsureNotReferenced, ReadObject, GetUser, WriteImage,
       DeleteAccount, Moves, Asks
<1>3. call'[c].pc = "guarded" => Uploaded(File(c)) /\ ~in_use'[c]
  <2>1. CASE EnsureNotReferenced(c)
    <3>1. call[c].pc = "found" /\ profile_image' = profile_image
          /\ (call'[c].pc = "guarded" => ~Pictured(c))
      BY <1>0, <2>1 DEF EnsureNotReferenced, Moves, Asks, Pictured
    <3>2. Pictured(c)' = Pictured(c)
      BY <1>0, <3>1 DEF Pictured
    <3>3. call'[c].pc = "guarded" => ~in_use'[c]
      BY <3>1, <3>2 DEF ObserveFiles, Answers
    <3> QED  BY <1>0, <3>1, <3>3 DEF StepsRest
  <2> QED
    BY <1>0, <2>1 DEF Validate, FindFile, ReadObject, GetUser, WriteImage, DeleteAccount, Moves, Asks
<1>4. call'[c].pc = "unavailable" => \E d \in Calls : call[d].touched /\ File(d) = File(c)
  <2>1. CASE ReadObject(c)
    BY <1>0, <2>1 DEF ReadObject, Moves, Asks, StepsRest
  <2> QED
    BY <1>0, <2>1 DEF Validate, FindFile, EnsureNotReferenced, GetUser, WriteImage, DeleteAccount,
       Moves, Asks
<1>5. \A f : Uploaded(f) => Uploaded(f)'
  BY <1>1 DEF Uploaded
<1>6. \A d \in Calls : call[d].touched => call'[d].touched
  BY <1>1
<1>7. \A d \in Calls : File(d)' = File(d)
  BY SameFile
<1>8. call'[c].pc = "found" =>
        File(c)' \in objects' \/ \E d \in Calls : call'[d].touched /\ File(d)' = File(c)'
  BY <1>0, <1>1, <1>2, <1>6, <1>7
<1>9. StepsRest(c)'
  BY <1>0, <1>1, <1>2, <1>3, <1>5, <1>8 DEF StepsRest
<1> QED  BY <1>1, <1>4, <1>9, QuietCall DEF OneCall

\* The process is lost, and a call of the storage has had no effect.
LEMMA StepOfLoss ==
    ASSUME FilesInvariant, NEW c \in Calls, ObserveFiles, Fault(c), objects' = objects,
           call' = [call EXCEPT ![c].pc = "lost"]
    PROVE  FilesInvariant'
<1>0. /\ DOMAIN call = Calls /\ DOMAIN call[c] = DOMAIN Started
      /\ DOMAIN Started = {"pc", "stored", "previous", "touched"}
  BY DEF FilesInvariant, FileTypes, Started
<1>1. /\ DOMAIN call' = Calls /\ \A d \in Calls : d # c => call'[d] = call[d]
      /\ call'[c].pc = "lost" /\ DOMAIN call'[c] = DOMAIN Started
      /\ call'[c].stored = call[c].stored /\ call'[c].touched = call[c].touched
      /\ files' = files
  BY <1>0 DEF Fault
<1> QED  BY <1>1, QuietCall DEF OneCall, StepsRest

\* An object is stored, and the call goes on or is lost.
LEMMA StepOfPut ==
    ASSUME FilesInvariant, NEW c \in Calls, OneCall(c), call[c].pc = "put", files' = files,
           objects' = objects \cup {Uploading(c)},
           call'[c].pc \in {"save", "lost"}, call'[c].stored = call[c].stored
    PROVE  FilesInvariant'
<1>0. /\ FileTypes /\ RowsAndObjectsAgree /\ \A b \in Calls : File(b)' = File(b)
      /\ \A b \in Calls : call'[b].stored = call[b].stored /\ (call[b].touched => call'[b].touched)
      /\ \A b \in Calls : b # c => call'[b] = call[b]
      /\ call[c].stored \in Nat /\ Uploading(c) = <<c, call[c].stored + 1>>
  BY SameFile DEF FilesInvariant, OneCall, FileTypes, Uploading
<1>1. \A f : Uploaded(f) => Uploaded(f)'
  BY <1>0 DEF Uploaded
<1>2. FileTypes'
  BY <1>0, <1>1 DEF FileTypes, OneCall
<1>3. RowsAndObjectsAgree'
  <2>1. \A f \in DOMAIN files \ objects' :
           \E b \in Calls : call'[b].touched /\ File(b) = f /\ call'[b].pc \in {"row", "lost"}
    BY <1>0 DEF RowsAndObjectsAgree
  <2>2. \A f \in objects' \ DOMAIN files :
           f[2] = call'[f[1]].stored + 1 /\ call'[f[1]].pc \in {"save", "lost"}
    <3>1. \A f \in objects : f[1] \in Calls
      BY <1>0 DEF FileTypes
    <3> QED  BY <1>0, <3>1 DEF RowsAndObjectsAgree
  <2>3. \A b \in Calls : call'[b].pc = "unavailable" =>
           \E d \in Calls : call'[d].touched /\ File(d) = File(b)
    BY <1>0 DEF RowsAndObjectsAgree
  <2> QED  BY <1>0, <2>1, <2>2, <2>3 DEF RowsAndObjectsAgree
<1>4. ASSUME NEW d \in Calls, d # c
      PROVE  StepsRest(d)'
  <2>1. StepsRest(d)
    BY DEF FilesInvariant
  <2>2. call[d].pc = "row" => File(d) # Uploading(c)
    <3>1. call[d].pc = "row" => Uploaded(File(d))
      BY <2>1 DEF StepsRest
    <3>2. ~Uploaded(Uploading(c))
      BY <1>0 DEF Uploaded
    <3> QED  BY <3>1, <3>2
  <2> QED  BY <1>1, <1>4, <2>1, <2>2, OthersRest DEF StepsRest
<1>5. StepsRest(c)'
  <2>1. Uploading(c)' = Uploading(c)
    BY <1>0 DEF Uploading
  <2> QED  BY <2>1 DEF StepsRest
<1> QED  BY <1>2, <1>3, <1>4, <1>5 DEF FilesInvariant

\* An object is deleted, and the call goes on or is lost.
LEMMA StepOfDeleteObject ==
    ASSUME FilesInvariant, NEW c \in Calls, OneCall(c), call[c].pc = "guarded", files' = files,
           objects' = objects \ {File(c)},
           call'[c].pc \in {"row", "lost"}, call'[c].stored = call[c].stored, call'[c].touched
    PROVE  FilesInvariant'
<1>0. /\ FileTypes /\ RowsAndObjectsAgree /\ \A b \in Calls : File(b)' = File(b)
      /\ \A b \in Calls : call'[b].stored = call[b].stored /\ (call[b].touched => call'[b].touched)
      /\ \A b \in Calls : b # c => call'[b] = call[b]
      /\ Uploaded(File(c))
  BY SameFile DEF FilesInvariant, OneCall, StepsRest
<1>1. \A f : Uploaded(f) => Uploaded(f)'
  BY <1>0 DEF Uploaded
<1>2. FileTypes'
  BY <1>0, <1>1 DEF FileTypes, OneCall
<1>3. RowsAndObjectsAgree'
  <2>1. \A f \in DOMAIN files \ objects' :
           \E b \in Calls : call'[b].touched /\ File(b) = f /\ call'[b].pc \in {"row", "lost"}
    BY <1>0 DEF RowsAndObjectsAgree
  <2>2. \A f \in objects' \ DOMAIN files :
           f[2] = call'[f[1]].stored + 1 /\ call'[f[1]].pc \in {"save", "lost"}
    <3>1. \A f \in objects : f[1] \in Calls
      BY <1>0 DEF FileTypes
    <3> QED  BY <1>0, <3>1 DEF RowsAndObjectsAgree
  <2>3. \A b \in Calls : call'[b].pc = "unavailable" =>
           \E d \in Calls : call'[d].touched /\ File(d) = File(b)
    BY <1>0 DEF RowsAndObjectsAgree
  <2> QED  BY <1>0, <2>1, <2>2, <2>3 DEF RowsAndObjectsAgree
<1>4. ASSUME NEW d \in Calls, d # c
      PROVE  StepsRest(d)'
  <2>1. StepsRest(d) /\ call[d].stored \in Nat
    BY DEF FilesInvariant, FileTypes
  <2>2. Uploading(d) # File(c)
    BY <1>0, <2>1 DEF Uploaded, Uploading
  <2> QED  BY <1>0, <1>1, <1>4, <2>1, <2>2, OthersRest DEF StepsRest
<1>5. StepsRest(c)'
  BY <1>0, <1>1 DEF StepsRest
<1> QED  BY <1>2, <1>3, <1>4, <1>5 DEF FilesInvariant

LEMMA StepOfDeleteFile ==
    ASSUME FilesInvariant, NEW c \in Calls, ObserveFiles, DeleteFile(c)
    PROVE  FilesInvariant'
<1>0. /\ FileTypes /\ RowsAndObjectsAgree /\ \A b \in Calls : File(b)' = File(b)
      /\ DOMAIN call' = Calls /\ DOMAIN call'[c] = DOMAIN Started
      /\ \A b \in Calls : call'[b].stored = call[b].stored /\ call'[b].touched = call[b].touched
      /\ \A b \in Calls : b # c => call'[b] = call[b]
      /\ call[c].pc = "row" /\ call'[c].pc = "deleted" /\ File(c) \notin objects
      /\ objects' = objects /\ DOMAIN files' = DOMAIN files \ {File(c)}
  BY SameFile DEF FilesInvariant, FileTypes, DeleteFile, Moves, Asks, Started, StepsRest
<1>1. \A f : Uploaded(f) => Uploaded(f)'
  BY <1>0 DEF Uploaded
<1>2. FileTypes'
  BY <1>0, <1>1 DEF FileTypes
<1>3. RowsAndObjectsAgree'
  <2>1. \A f \in DOMAIN files' \ objects :
           \E b \in Calls : call'[b].touched /\ File(b) = f /\ call'[b].pc \in {"row", "lost"}
    BY <1>0 DEF RowsAndObjectsAgree
  <2>2. \A f \in objects \ DOMAIN files' :
           f[2] = call'[f[1]].stored + 1 /\ call'[f[1]].pc \in {"save", "lost"}
    <3>1. \A f \in objects : f[1] \in Calls
      BY <1>0 DEF FileTypes
    <3> QED  BY <1>0, <3>1 DEF RowsAndObjectsAgree
  <2>3. \A b \in Calls : call'[b].pc = "unavailable" =>
           \E d \in Calls : call'[d].touched /\ File(d) = File(b)
    BY <1>0 DEF RowsAndObjectsAgree
  <2> QED  BY <1>0, <2>1, <2>2, <2>3 DEF RowsAndObjectsAgree
<1>4. ASSUME NEW d \in Calls, d # c
      PROVE  StepsRest(d)'
  <2>1. StepsRest(d)
    BY DEF FilesInvariant
  <2> QED  BY <1>0, <1>1, <1>4, <2>1, OthersRest DEF StepsRest, OneCall
<1>5. StepsRest(c)'
  BY <1>0 DEF StepsRest
<1> QED  BY <1>2, <1>3, <1>4, <1>5 DEF FilesInvariant

LEMMA StepOfSave ==
    ASSUME FilesInvariant, NEW c \in Calls, ObserveFiles, Save(c)
    PROVE  FilesInvariant'
<1>0. /\ FileTypes /\ RowsAndObjectsAgree /\ \A b \in Calls : File(b)' = File(b)
      /\ DOMAIN call = Calls /\ DOMAIN call[c] = DOMAIN Started
      /\ DOMAIN Started = {"pc", "stored", "previous", "touched"}
      /\ call[c].stored \in Nat /\ Uploading(c) = <<c, call[c].stored + 1>>
      /\ call[c].pc = "save" /\ Uploading(c) \in objects
      /\ objects' = objects /\ DOMAIN files' = DOMAIN files \cup {Uploading(c)}
  BY SameFile DEF FilesInvariant, FileTypes, Save, Asks, Started, StepsRest, Uploading
<1>1. /\ DOMAIN call' = Calls /\ \A b \in Calls : b # c => call'[b] = call[b]
      /\ call'[c].stored = call[c].stored + 1 /\ call'[c].touched = call[c].touched
      /\ call'[c].pc \in {"created", "put"} /\ DOMAIN call'[c] = DOMAIN Started
  BY <1>0 DEF Save
<1>2. \A f : Uploaded(f) => Uploaded(f)'
  BY <1>0, <1>1 DEF Uploaded, FileTypes
<1>3. FileTypes'
  <2>1. ASSUME NEW f \in DOMAIN files'
        PROVE  Uploaded(f)'
    <3>1. CASE f \in DOMAIN files
      BY <1>0, <1>2, <3>1 DEF FileTypes
    <3>2. CASE f = Uploading(c)
      <4>1. f[1] = c /\ f[2] = call[c].stored + 1 /\ f \in Calls \X Nat
        BY <1>0, <3>2
      <4>2. f[2] \in 1..call'[f[1]].stored
        BY <1>0, <1>1, <4>1
      <4> QED  BY <4>1, <4>2 DEF Uploaded
    <3> QED  BY <1>0, <3>1, <3>2
  <2> QED  BY <1>0, <1>1, <2>1 DEF FileTypes
<1>4. RowsAndObjectsAgree'
  <2>1. \A f \in DOMAIN files' \ objects :
           \E b \in Calls : call'[b].touched /\ File(b) = f /\ call'[b].pc \in {"row", "lost"}
    BY <1>0, <1>1 DEF RowsAndObjectsAgree
  <2>2. \A f \in objects \ DOMAIN files' :
           f[2] = call'[f[1]].stored + 1 /\ call'[f[1]].pc \in {"save", "lost"}
    <3>1. ASSUME NEW f \in objects \ DOMAIN files'
          PROVE  f[1] \in Calls /\ f[1] # c /\ f[2] = call[f[1]].stored + 1
                 /\ call[f[1]].pc \in {"save", "lost"}
      BY <1>0 DEF FileTypes, RowsAndObjectsAgree
    <3> QED  BY <1>1, <3>1
  <2>3. \A b \in Calls : call'[b].pc = "unavailable" =>
           \E d \in Calls : call'[d].touched /\ File(d) = File(b)
    BY <1>0, <1>1 DEF RowsAndObjectsAgree
  <2> QED  BY <1>0, <2>1, <2>2, <2>3 DEF RowsAndObjectsAgree
<1>5. ASSUME NEW d \in Calls, d # c
      PROVE  StepsRest(d)'
  <2>1. StepsRest(d)
    BY DEF FilesInvariant
  <2> QED  BY <1>0, <1>1, <1>2, <1>5, <2>1, OthersRest DEF StepsRest, OneCall
<1>6. StepsRest(c)'
  BY <1>1 DEF StepsRest
<1> QED  BY <1>3, <1>4, <1>5, <1>6 DEF FilesInvariant

LEMMA StepOfFault ==
    ASSUME FilesInvariant, NEW c \in Calls, ObserveFiles, Fault(c)
    PROVE  FilesInvariant'
<1>0. /\ DOMAIN call = Calls /\ DOMAIN call[c] = DOMAIN Started
      /\ DOMAIN Started = {"pc", "stored", "previous", "touched"} /\ files' = files
  BY DEF FilesInvariant, FileTypes, Started, Fault
<1>1. CASE objects' = objects /\ call' = [call EXCEPT ![c].pc = "lost"]
  BY <1>1, StepOfLoss
<1>2. CASE /\ Asks(c, {"upload"}, "put")
           /\ objects' = objects \cup {Uploading(c)}
           /\ Moves(c, "lost")
  <2>1. /\ OneCall(c) /\ call[c].pc = "put" /\ call'[c].pc = "lost"
        /\ call'[c].stored = call[c].stored
    BY <1>0, <1>2 DEF OneCall, Asks, Moves
  <2> QED  BY <1>0, <1>2, <2>1, StepOfPut
<1>3. CASE /\ Asks(c, {"delete"}, "guarded")
           /\ objects' = objects \ {File(c)}
           /\ call' = [call EXCEPT ![c].pc = "lost", ![c].touched = TRUE]
  <2>1. /\ OneCall(c) /\ call[c].pc = "guarded" /\ call'[c].pc = "lost" /\ call'[c].touched
        /\ call'[c].stored = call[c].stored
    BY <1>0, <1>3 DEF OneCall, Asks
  <2> QED  BY <1>0, <1>3, <2>1, StepOfDeleteObject
<1> QED  BY <1>1, <1>2, <1>3 DEF Fault

LEMMA FilesStep ==
    ASSUME FilesInvariant, [FilesNext]_fvars
    PROVE  FilesInvariant'
<1>1. ASSUME NEW c \in Calls, CallStep(c) \/ Fault(c), ObserveFiles
      PROVE  FilesInvariant'
  <2>0. /\ DOMAIN call = Calls /\ DOMAIN call[c] = DOMAIN Started
        /\ DOMAIN Started = {"pc", "stored", "previous", "touched"}
    BY DEF FilesInvariant, FileTypes, Started
  <2>1. CASE Put(c)
    <3>1. /\ OneCall(c) /\ call[c].pc = "put" /\ call'[c].pc = "save"
          /\ call'[c].stored = call[c].stored /\ files' = files
          /\ objects' = objects \cup {Uploading(c)}
      BY <1>1, <2>0, <2>1 DEF Put, OneCall, Asks, Moves
    <3> QED  BY <3>1, StepOfPut
  <2>2. CASE DeleteObject(c)
    <3>1. /\ OneCall(c) /\ call[c].pc = "guarded" /\ call'[c].pc = "row" /\ call'[c].touched
          /\ call'[c].stored = call[c].stored /\ files' = files
          /\ objects' = objects \ {File(c)}
      BY <1>1, <2>0, <2>2 DEF DeleteObject, OneCall, Asks
    <3> QED  BY <3>1, StepOfDeleteObject
  <2> QED
    BY <1>1, <2>1, <2>2, StepOfSave, StepOfDeleteFile, StepOfFault, QuietSteps DEF CallStep
<1>2. CASE UNCHANGED fvars
  <2>1. /\ \A c \in Calls : File(c)' = File(c) /\ Uploading(c)' = Uploading(c)
        /\ \A f : Uploaded(f)' = Uploaded(f)
        /\ UNCHANGED <<files, objects, call, in_use>>
    BY <1>2 DEF fvars, File, Uploading, Uploaded
  <2>2. FileTypes'
    BY <2>1 DEF FilesInvariant, FileTypes
  <2>3. RowsAndObjectsAgree'
    BY <2>1 DEF FilesInvariant, RowsAndObjectsAgree
  <2>4. \A c \in Calls : StepsRest(c)'
    BY <2>1 DEF FilesInvariant, StepsRest
  <2> QED  BY <2>2, <2>3, <2>4 DEF FilesInvariant
<1> QED  BY <1>1, <1>2 DEF FilesNext

\* Every row but one of an upload or a deletion under way has its object
\* (upload_file/use_case.py:45, delete_file/use_case.py:36).
THEOREM FilesInvariantHolds == FilesSpec => []FilesInvariant
<1>1. FilesAtRest => FilesInvariant
  <2> SUFFICES ASSUME FilesAtRest PROVE FilesInvariant
    OBVIOUS
  <2>1. FileTypes
    BY DEF FilesAtRest, FileTypes, Uploaded
  <2>2. RowsAndObjectsAgree
    BY DEF FilesAtRest, RowsAndObjectsAgree, Answers
  <2>3. \A c \in Calls : StepsRest(c)
    BY DEF FilesAtRest, StepsRest, Answers
  <2> QED  BY <2>1, <2>2, <2>3 DEF FilesInvariant
<1>2. FilesInvariant /\ [FilesNext]_fvars => FilesInvariant'
  BY FilesStep
<1> QED  BY <1>1, <1>2, PTL DEF FilesSpec

\* Rows and objects agree, and a download fails only for a deletion.
THEOREM RowsAgreeWithObjects == FilesSpec => []RowsAndObjectsAgree
<1>1. FilesInvariant => RowsAndObjectsAgree
  BY DEF FilesInvariant
<1> QED  BY <1>1, FilesInvariantHolds, PTL

\* The check for references, made before the object goes, protects a file that
\* is an image all the time (users/dependencies.py:73).
THEOREM ImagesInUseKept == FilesSpec => ImageInUseKept
<1>1. FilesInvariant /\ [FilesNext]_fvars =>
        [\A c \in Calls : call'[c].touched /\ ~call[c].touched => ~in_use[c]]_fvars
  <2> SUFFICES ASSUME FilesInvariant, FilesNext, NEW c \in Calls,
                      call'[c].touched, ~call[c].touched
               PROVE  ~in_use[c]
    OBVIOUS
  <2>1. PICK d \in Calls : CallStep(d) \/ Fault(d)
    BY DEF FilesNext
  <2>2. /\ DOMAIN call = Calls /\ DOMAIN call[d] = {"pc", "stored", "previous", "touched"}
        /\ StepsRest(c)
    BY DEF FilesInvariant, FileTypes, Started
  <2>3. CASE call[d].pc = "guarded"
    <3>1. \A b \in Calls : b # d => call'[b] = call[b]
      BY <2>1, <2>2 DEF CallStep, Validate, Put, Save, FindFile, EnsureNotReferenced, DeleteObject,
         DeleteFile, ReadObject, GetUser, WriteImage, DeleteAccount, Fault, Moves
    <3> QED  BY <2>2, <2>3, <3>1 DEF StepsRest
  <2>4. CASE call[d].pc # "guarded"
    <3>1. \A b \in Calls : call'[b].touched = call[b].touched
      BY <2>1, <2>2, <2>4 DEF CallStep, Validate, Put, Save, FindFile, EnsureNotReferenced,
         DeleteObject, DeleteFile, ReadObject, GetUser, WriteImage, DeleteAccount, Fault, Moves, Asks
    <3> QED  BY <3>1
  <2> QED  BY <2>3, <2>4
<1> QED  BY <1>1, FilesInvariantHolds, PTL DEF FilesSpec, ImageInUseKept

=============================================================================
