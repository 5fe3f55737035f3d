-------------------------------- MODULE Files --------------------------------
(***************************************************************************)
(* The files module and the profile images of users: rows in the database, *)
(* objects in a storage that takes no part in transactions, and requests   *)
(* that touch both.                                                        *)
(*                                                                         *)
(* An action is one statement or one call of the storage, with the commit  *)
(* that follows it.  A file is identified by the upload it came in and its *)
(* place there; its object has the key of the file.                        *)
(***************************************************************************)
EXTENDS Integers, Sequences, FiniteSets

CONSTANTS None, Calls,
          MaxFaults,  \* bound on failing calls and lost processes
          MaxUploads  \* file_max_upload_count

VARIABLES
    files,          \* committed rows, with their owners
    objects,        \* keys in the storage
    profile_image,  \* users.profile_image_url of every user there is
    asks,           \* what each call asks for
    call,           \* how far it has come
    faults,
    in_use          \* of a call: its file was a profile image all the time

fvars == <<files, objects, profile_image, asks, call, faults, in_use>>

Started == [pc |-> "start", stored |-> 0, previous |-> None, touched |-> FALSE]
Answers == {"created", "deleted", "changed", "served", "invalid", "not_found", "conflict",
            "unavailable", "lost"}

File(c) == asks[c].file
Moves(c, pc) == call' = [call EXCEPT ![c].pc = pc]
Asks(c, kinds, pc) == asks[c].kind \in kinds /\ call[c].pc = pc
Owned(c) == File(c) \in DOMAIN files /\ files[File(c)] = asks[c].user

-----------------------------------------------------------------------------
(* Upload: every file is validated before the first is stored; then each is  *)
(* stored and committed on its own.                                          *)

Uploading(c) == <<c, call[c].stored + 1>>

Validate(c) ==
    /\ Asks(c, {"upload"}, "start")
    /\ Moves(c, IF /\ Len(asks[c].valid) \in 1..MaxUploads
                   /\ \A k \in DOMAIN asks[c].valid : asks[c].valid[k]
                THEN "put" ELSE "invalid")
    /\ UNCHANGED <<files, objects, profile_image>>

\* Mutant: the row is committed before the object is stored.
SaveFirst(c) ==
    /\ Asks(c, {"upload"}, "put")
    /\ files' = [f \in DOMAIN files \cup {Uploading(c)} |->
                    IF f = Uploading(c) THEN asks[c].user ELSE files[f]]
    /\ Moves(c, "save")
    /\ UNCHANGED <<objects, profile_image>>

Put(c) ==
    /\ Asks(c, {"upload"}, "put")
    /\ objects' = objects \cup {Uploading(c)}
    /\ Moves(c, "save")
    /\ UNCHANGED <<files, profile_image>>

Save(c) ==
    /\ Asks(c, {"upload"}, "save")
    /\ files' = [f \in DOMAIN files \cup {Uploading(c)} |->
                    IF f = Uploading(c) THEN asks[c].user ELSE files[f]]
    /\ LET stored == call[c].stored + 1 IN
       call' = [call EXCEPT ![c].stored = stored,
                            ![c].pc = IF stored = Len(asks[c].valid) THEN "created" ELSE "put"]
    /\ UNCHANGED <<objects, profile_image>>

-----------------------------------------------------------------------------
(* Delete, download, set and clear the profile image *)

\* find_by_id_for_user, find_all_by_id_for_user
FindFile(c) ==
    /\ Asks(c, {"delete", "download", "set"}, "start")
    /\ Moves(c, IF Owned(c) THEN "found" ELSE "not_found")
    /\ UNCHANGED <<files, objects, profile_image>>

\* Mutant: the guard of the files module itself, which lets everything pass.
AllowEverything(c) ==
    /\ Asks(c, {"delete"}, "found")
    /\ Moves(c, "guarded")
    /\ UNCHANGED <<files, objects, profile_image>>

EnsureNotReferenced(c) ==
    /\ Asks(c, {"delete"}, "found")
    /\ Moves(c, IF \E u \in DOMAIN profile_image : profile_image[u] = File(c)
                THEN "conflict" ELSE "guarded")
    /\ UNCHANGED <<files, objects, profile_image>>

DeleteObject(c) ==
    /\ Asks(c, {"delete"}, "guarded")
    /\ objects' = objects \ {File(c)}
    /\ call' = [call EXCEPT ![c].pc = "row", ![c].touched = TRUE]
    /\ UNCHANGED <<files, profile_image>>

\* A row that another call has deleted is no error.
DeleteFile(c) ==
    /\ Asks(c, {"delete"}, "row")
    /\ files' = [f \in DOMAIN files \ {File(c)} |-> files[f]]
    /\ Moves(c, "deleted")
    /\ UNCHANGED <<objects, profile_image>>

\* Mutant: an object that is not there is asked for again and again.
ReadUntilThere(c) ==
    /\ Asks(c, {"download"}, "found")
    /\ File(c) \in objects
    /\ Moves(c, "served")
    /\ UNCHANGED <<files, objects, profile_image>>

ReadObject(c) ==
    /\ Asks(c, {"download"}, "found")
    /\ Moves(c, IF File(c) \in objects THEN "served" ELSE "unavailable")
    /\ UNCHANGED <<files, objects, profile_image>>

\* update_profile_image_url: the user's row is read without a lock ...
GetUser(c) ==
    /\ \/ Asks(c, {"set"}, "found")
       \/ Asks(c, {"clear"}, "start")
    /\ IF asks[c].user \in DOMAIN profile_image
       THEN call' = [call EXCEPT ![c].pc = "write", ![c].previous = profile_image[asks[c].user]]
       ELSE Moves(c, "not_found")
    /\ UNCHANGED <<files, objects, profile_image>>

\* ... and written when it changes; a user who is gone is an error then.
WriteImage(c) ==
    /\ Asks(c, {"set", "clear"}, "write")
    /\ LET u == asks[c].user IN
       \/ /\ call[c].previous = File(c)
          /\ Moves(c, "changed")
          /\ UNCHANGED profile_image
       \/ /\ call[c].previous # File(c) /\ u \in DOMAIN profile_image
          /\ profile_image' = [profile_image EXCEPT ![u] = File(c)]
          /\ Moves(c, "changed")
       \/ /\ call[c].previous # File(c) /\ u \notin DOMAIN profile_image
          /\ Moves(c, "lost")
          /\ UNCHANGED profile_image
    /\ UNCHANGED <<files, objects>>

\* The account goes, its files stay.
DeleteAccount(c) ==
    /\ Asks(c, {"withdraw"}, "start")
    /\ profile_image' = [u \in DOMAIN profile_image \ {asks[c].user} |-> profile_image[u]]
    /\ Moves(c, "deleted")
    /\ UNCHANGED <<files, objects>>

\* The storage answers with an error, or the process is lost: the transaction
\* is rolled back, and a call of the storage may have had its effect or not.
Fault(c) ==
    /\ call[c].pc \notin {"start"} \cup Answers /\ faults < MaxFaults
    /\ faults' = faults + 1
    /\ \/ call' = [call EXCEPT ![c].pc = "lost"] /\ UNCHANGED objects
       \/ /\ Asks(c, {"upload"}, "put")
          /\ objects' = objects \cup {Uploading(c)}
          /\ Moves(c, "lost")
       \/ /\ Asks(c, {"delete"}, "guarded")
          /\ objects' = objects \ {File(c)}
          /\ call' = [call EXCEPT ![c].pc = "lost", ![c].touched = TRUE]
    /\ UNCHANGED <<files, profile_image>>

CallStep(c) ==
    /\ \/ Validate(c) \/ Put(c) \/ Save(c)
       \/ FindFile(c) \/ EnsureNotReferenced(c) \/ DeleteObject(c) \/ DeleteFile(c)
       \/ ReadObject(c) \/ GetUser(c) \/ WriteImage(c) \/ DeleteAccount(c)
    /\ UNCHANGED faults

\* Whether a call's file is a profile image.
Pictured(c) == \E u \in DOMAIN profile_image : profile_image[u] = File(c)

ObserveFiles ==
    /\ UNCHANGED asks
    /\ in_use' = [c \in Calls |->
           IF call'[c].pc = "start" \/ call[c].pc = "start" THEN Pictured(c)'
           ELSE in_use[c] /\ (Pictured(c)' \/ call'[c].pc \in Answers)]

FilesNext == (\E c \in Calls : CallStep(c) \/ Fault(c)) /\ ObserveFiles

FilesFairness == \A c \in Calls : WF_fvars(CallStep(c) /\ ObserveFiles)

-----------------------------------------------------------------------------
(* Properties *)

\* A row lacks its object only where a deletion has come between them; an
\* object lacks its row only where its upload has; and a download fails only
\* for the former (upload_file/use_case.py:45, delete_file/use_case.py:36).
RowsAndObjectsAgree ==
    /\ \A f \in DOMAIN files \ objects :
           \E c \in Calls : call[c].touched /\ File(c) = f /\ call[c].pc \in {"row", "lost"}
    /\ \A f \in objects \ DOMAIN files :
           f[2] = call[f[1]].stored + 1 /\ call[f[1]].pc \in {"save", "lost"}
    /\ \A c \in Calls : call[c].pc = "unavailable" =>
           \E d \in Calls : call[d].touched /\ File(d) = File(c)

\* A file that is someone's profile image from the moment its deletion is
\* asked for keeps its object (users/dependencies.py:73).
ImageInUseKept ==
    [][\A c \in Calls : call'[c].touched /\ ~call[c].touched => ~in_use[c]]_fvars

-----------------------------------------------------------------------------
(* Why: the states calls begin in, and the inductive invariant of the proofs *)

\* Any rows with their objects, left by uploads that have ended; calls that
\* have not begun or have been answered.
FilesAtRest ==
    /\ \A f \in DOMAIN files : f \in Calls \X Nat /\ f[2] \in 1..call[f[1]].stored
    /\ objects = DOMAIN files
    /\ DOMAIN call = Calls
    /\ \A c \in Calls :
          /\ DOMAIN call[c] = DOMAIN Started
          /\ call[c].pc \in {"start"} \cup (Answers \ {"unavailable", "lost"})
          /\ call[c].stored \in Nat /\ ~call[c].touched
    /\ in_use = [c \in Calls |-> Pictured(c)]

FilesSpec == FilesAtRest /\ [][FilesNext]_fvars

\* A file whose upload got as far as its row.
Uploaded(f) == f \in Calls \X Nat /\ f[2] \in 1..call[f[1]].stored

FileTypes ==
    /\ DOMAIN call = Calls
    /\ \A c \in Calls : DOMAIN call[c] = DOMAIN Started /\ call[c].stored \in Nat
    /\ objects \subseteq Calls \X Nat
    /\ \A f \in DOMAIN files : Uploaded(f)

\* What each step may rely on of the steps of its call before it.
StepsRest(c) ==
    /\ call[c].pc = "save" => Uploading(c) \in objects
    /\ call[c].pc \in {"found", "guarded", "row"} => Uploaded(File(c))
    /\ call[c].pc = "found" =>
          File(c) \in objects \/ \E d \in Calls : call[d].touched /\ File(d) = File(c)
    /\ call[c].pc = "guarded" => ~in_use[c]
    /\ call[c].pc = "row" => call[c].touched /\ File(c) \notin objects

\* Why rows and objects agree, and images in use are kept.
FilesInvariant ==
    FileTypes /\ RowsAndObjectsAgree /\ \A c \in Calls : StepsRest(c)

=============================================================================
