----------------------------- MODULE Directory -----------------------------
(***************************************************************************)
(* What a directory section promises to the threads that open its          *)
(* sub-sections: a map from descs to sections that only grows, changed and *)
(* read by calls that overlap. (BlockManager::openDirSection,              *)
(* openDataSection and getSectionType, declared in                         *)
(* lib/pse/include/fsl/fsl_lib.h.)                                         *)
(***************************************************************************)
EXTENDS Integers

CONSTANTS
  Threads,   (* the callers                                               *)
  Ops,       (* their calls: [mode, kind, desc]                           *)
  Killable,  (* callers that may be killed                                *)
  Ids        (* what may identify a section                               *)

VARIABLES
  sections,  (* the section of each desc: [id, kind]; id 0: none yet      *)
  call,      (* the call each thread is in                                *)
  result,    (* its outcome                                               *)
  late,      (* the section was there when the call began                 *)
  room       (* where the next entry would go: into the directory itself, *)
             (* into its tables, or nowhere                               *)

vars == <<sections, call, result, late, room>>

NoCall    == [mode |-> "none", kind |-> "dir", desc |-> 0]
Pending   == [what |-> "none", id |-> 0]

Init ==
  /\ sections = [d \in {o.desc : o \in Ops} \ {0} |-> [id |-> 0, kind |-> "none"]]
  /\ call = [t \in Threads |-> NoCall]
  /\ result = [t \in Threads |-> Pending]
  /\ late = [t \in Threads |-> FALSE]
  /\ room = "own"

Exists(d) == d # 0 /\ sections[d].id # 0

Begin(t, o) ==
  /\ call[t] = NoCall
  /\ call' = [call EXCEPT ![t] = o]
  /\ late' = [late EXCEPT ![t] = Exists(o.desc)]
  /\ UNCHANGED <<sections, result, room>>

Waiting(t) == call[t] # NoCall /\ result[t] = Pending

Answer(t, what, id) == result' = [result EXCEPT ![t] = [what |-> what, id |-> id]]

(* Entries are never given back.                                           *)
Filled(r) == {x \in {"own", "tables", "none"} : r = "own" \/ x = r \/ x = "none"}

(* A creator adds a section whose desc has none; the caller may learn of   *)
(* it at once or later.                                                    *)
Create(t, id) ==
  LET d == call[t].desc IN
  /\ Waiting(t) /\ call[t].mode = "create"
  /\ d # 0 /\ ~Exists(d)
  /\ \A e \in DOMAIN sections : sections[e].id # id
  /\ sections' = [sections EXCEPT ![d] = [id |-> id, kind |-> call[t].kind]]
  /\ UNCHANGED result \/ Answer(t, "opened", id)
  /\ room' \in Filled(room)
  /\ UNCHANGED <<call, late>>

(* A creator has taken an entry, and may be killed before it makes a       *)
(* section of it.                                                          *)
Take(t) ==
  /\ Waiting(t) /\ call[t].mode = "create"
  /\ room' \in Filled(room) \ {room}
  /\ UNCHANGED <<sections, call, result, late>>

(* The section of the desc is returned, unless it is of the other kind.    *)
Hit(t) ==
  LET s == sections[call[t].desc] IN
  /\ Waiting(t) /\ Exists(call[t].desc)
  /\ Answer(t, IF call[t].mode = "type" \/ s.kind = call[t].kind THEN "opened" ELSE "cast failed", s.id)
  /\ UNCHANGED <<sections, call, late, room>>

(* Nothing is found, only when nothing was there at the beginning, and a   *)
(* creator always finds something: "if desc doesn't exists and create is   *)
(* false, entry_ptr is nullptr" (fsl_lib.h:149).                           *)
Miss(t) ==
  /\ Waiting(t) /\ ~late[t]
  /\ call[t].mode # "create" \/ call[t].desc = 0
  /\ Answer(t, "null", 0)
  /\ UNCHANGED <<sections, call, late, room>>

(* The exception "dir entry is full". For a creator: when every entry is   *)
(* taken and none is for its desc.                                         *)
RefuseCreate(t) ==
  /\ Waiting(t) /\ call[t].mode = "create"
  /\ room = "none" /\ call[t].desc # 0 /\ ~Exists(call[t].desc)
  /\ Answer(t, "dir entry is full", 0)
  /\ UNCHANGED <<sections, call, late, room>>

(* Against what is declared (fsl_lib.h:149): a call that creates nothing   *)
(* may get this exception instead of null when it finds nothing, but only  *)
(* once the entries in the directory itself are taken.                     *)
RefuseLookup(t) ==
  /\ Waiting(t) /\ call[t].mode # "create" /\ call[t].desc # 0
  /\ room # "own" /\ ~late[t]
  /\ Answer(t, "dir entry is full", 0)
  /\ UNCHANGED <<sections, call, late, room>>

End(t) ==
  /\ result[t] # Pending
  /\ call' = [call EXCEPT ![t] = NoCall]
  /\ result' = [result EXCEPT ![t] = Pending]
  /\ late' = [late EXCEPT ![t] = FALSE]
  /\ UNCHANGED <<sections, room>>

Kill(t) ==
  /\ call' = [call EXCEPT ![t] = NoCall]
  /\ result' = [result EXCEPT ![t] = Pending]
  /\ late' = [late EXCEPT ![t] = FALSE]
  /\ UNCHANGED <<sections, room>>

Next ==
  \/ \E t \in Threads :
       \/ \E o \in Ops : Begin(t, o)
       \/ \E id \in Ids : Create(t, id)
       \/ Take(t) \/ Hit(t) \/ Miss(t) \/ RefuseCreate(t) \/ RefuseLookup(t) \/ End(t)
  \/ \E t \in Killable : Kill(t)

Spec == Init /\ [][Next]_vars

=============================================================================
