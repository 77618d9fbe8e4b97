--------------------------- MODULE GssapiProvider ---------------------------
(***************************************************************************)
(* GssapiKerberosRpcAuthProvider and GssapiClientContext of src/auth.rs:   *)
(* init_context builds a new context and puts it in the place of the old   *)
(* one, step advances it, and names, credentials, contexts and token       *)
(* buffers that the GSSAPI library hands out must be given back once each. *)
(*                                                                         *)
(* One action is one library call with what the code does with its result. *)
(* The library is external: any call may fail, and a failing call may      *)
(* leave, create or delete the security context and allocate a token.      *)
(***************************************************************************)
EXTENDS Naturals

CONSTANT MaxInits   \* bound: init_context calls

ASSUME GssapiAssumption == MaxInits \in Nat

VARIABLES
    pc,        \* "idle", "imported", "stepping", "called" or "dropped"
    op,        \* the operation in hand or the last one: "init" or "step"
    context,   \* the provider's field
    fresh,     \* init_context's local
    major,     \* what gss_init_sec_context returned
    output,    \* its output_token: "null", "empty" or "token"
    last,      \* what the last operation returned
    live,      \* library: handles it has given out and not got back
    misused,   \* library: a handle was given back that was not out
    done,      \* library: contexts it considers established
    inits,     \* init_context calls begun: the number of the newest context
    before     \* history: the context when the operation in hand began

vars == <<pc, op, context, fresh, major, output, last, live, misused, done, inits, before>>

\* The field `context` is null before the first call and after a deletion.
None == [n |-> 0, context |-> FALSE, established |-> FALSE]

Handle(kind, n) == [kind |-> kind, n |-> n]

Init ==
    /\ pc = "idle" /\ op = "init" /\ context = None /\ fresh = None
    /\ major = "COMPLETE" /\ output = "null" /\ last = "Err"
    /\ live = {} /\ misused = FALSE /\ done = {} /\ inits = 0 /\ before = None

-----------------------------------------------------------------------------
Release(handles) ==
    /\ live' = live \ handles
    /\ misused' = (misused \/ ~(handles \subseteq live))

\* What Drop for GssapiClientContext releases: the null context is skipped.
Owned(c) ==
    IF c.n = 0 THEN {}
    ELSE {Handle("name", c.n), Handle("cred", c.n)}
            \cup IF c.context THEN {Handle("context", c.n)} ELSE {}

\* release_gssapi_buffer skips a null value.
Buffer == IF output = "null" THEN {} ELSE {Handle("buffer", inits)}

Return(result) == pc' = "idle" /\ last' = result

-----------------------------------------------------------------------------
(* init_context: import_name, acquire_cred, a first step, then the store. *)

ImportName(ok) ==
    /\ pc = "idle"
    /\ inits < MaxInits
    /\ inits' = inits + 1
    /\ op' = "init" /\ before' = context
    /\ IF ok
       THEN /\ pc' = "imported"
            /\ live' = live \cup {Handle("name", inits')}
            /\ UNCHANGED last
       ELSE Return("Err") /\ UNCHANGED live
    /\ UNCHANGED <<context, fresh, major, output, misused, done>>

\* Slip: a failure to get credentials forgets the name.
MutAcquireFails ==
    /\ pc = "imported"
    /\ Return("Err")
    /\ UNCHANGED <<op, context, fresh, major, output, live, misused, done, inits, before>>

AcquireFails ==
    /\ pc = "imported"
    /\ Release({Handle("name", inits)})
    /\ Return("Err")
    /\ UNCHANGED <<op, context, fresh, major, output, done, inits, before>>

AcquireCred ==
    /\ pc = "imported"
    /\ pc' = "stepping"
    /\ fresh' = [None EXCEPT !.n = inits]
    /\ live' = live \cup {Handle("cred", inits)}
    /\ UNCHANGED <<op, context, major, output, last, misused, done, inits, before>>

StepBegins ==
    /\ pc = "idle"
    /\ op' = "step" /\ before' = context
    /\ IF context = None THEN Return("Err") ELSE pc' = "stepping" /\ UNCHANGED last
    /\ UNCHANGED <<context, fresh, major, output, live, misused, done, inits>>

Stepped == IF op = "init" THEN fresh ELSE context

SetStepped(c) ==
    IF op = "init" THEN fresh' = c /\ UNCHANGED context ELSE context' = c /\ UNCHANGED fresh

\* The library call: a context is there after a success, maybe after a failure.
InitSecContext(code, out, there) ==
    /\ pc = "stepping"
    /\ code # "FAILURE" => there
    /\ pc' = "called"
    /\ major' = code /\ output' = out
    /\ SetStepped([Stepped EXCEPT !.context = there])
    /\ LET handle == {Handle("context", Stepped.n)}
       IN  live' = (IF there THEN live \cup handle ELSE live \ handle)
                      \cup IF out = "null" THEN {} ELSE {Handle("buffer", inits)}
    /\ done' = IF code = "COMPLETE" THEN done \cup {Stepped.n} ELSE done \ {Stepped.n}
    /\ UNCHANGED <<op, last, misused, inits, before>>

\* A local context is dropped with the error.
StepFails ==
    /\ pc = "called"
    /\ major = "FAILURE"
    /\ Release(Buffer \cup IF op = "init" THEN Owned(fresh) ELSE {})
    /\ fresh' = None
    /\ Return("Err")
    /\ UNCHANGED <<op, context, major, output, done, inits, before>>

\* Slip: established is set by any successful call.
MutEstablished == [Stepped EXCEPT !.established = TRUE]

Established == [Stepped EXCEPT !.established = (major = "COMPLETE")]

StepOk ==
    /\ pc = "called"
    /\ op = "step" /\ major # "FAILURE"
    /\ context' = Established
    /\ Release(Buffer)
    /\ Return("Ok")
    /\ UNCHANGED <<op, fresh, major, output, done, inits, before>>

\* Slip: the old context goes before the new one has proved itself.
MutInitEmpty ==
    /\ pc = "called"
    /\ op = "init" /\ major # "FAILURE" /\ output # "token"
    /\ Release(Buffer \cup Owned(fresh) \cup Owned(context))
    /\ fresh' = None /\ context' = None
    /\ Return("Err")
    /\ UNCHANGED <<op, major, output, done, inits, before>>

\* "GSSAPI initial token is empty": the new context is dropped, established or not.
InitEmpty ==
    /\ pc = "called"
    /\ op = "init" /\ major # "FAILURE" /\ output # "token"
    /\ Release(Buffer \cup Owned(fresh))
    /\ fresh' = None
    /\ Return("Err")
    /\ UNCHANGED <<op, context, major, output, done, inits, before>>

\* self.context = Some(context) drops the context that was there.
InitOk ==
    /\ pc = "called"
    /\ op = "init" /\ major # "FAILURE" /\ output = "token"
    /\ Release(Buffer \cup Owned(context))
    /\ context' = Established /\ fresh' = None
    /\ Return("Ok")
    /\ UNCHANGED <<op, major, output, done, inits, before>>

DropProvider ==
    /\ pc = "idle"
    /\ pc' = "dropped"
    /\ Release(Owned(context))
    /\ UNCHANGED <<op, context, fresh, major, output, last, done, inits, before>>

Next ==
    \/ \E ok \in BOOLEAN : ImportName(ok)
    \/ AcquireFails \/ AcquireCred
    \/ StepBegins
    \/ \E code \in {"COMPLETE", "CONTINUE_NEEDED", "FAILURE"},
          out \in {"null", "empty", "token"}, there \in BOOLEAN : InitSecContext(code, out, there)
    \/ StepFails \/ StepOk \/ InitEmpty \/ InitOk
    \/ DropProvider

Spec == Init /\ [][Next]_vars

-----------------------------------------------------------------------------
is_context_established == context.n # 0 /\ context.established

(***************************************************************************)
(* Whatever call fails, and however often init_context is called again,    *)
(* every handle the library gave out is given back exactly once: between   *)
(* operations those of the provider's context are out and no others, and   *)
(* after the provider is dropped none.                                     *)
(***************************************************************************)
ReleasedExactlyOnce ==
    /\ ~misused
    /\ pc = "idle" => live = IF context.n = 0 THEN {}
                             ELSE {h \in live : h.n = context.n /\ h.kind # "buffer"}
    /\ pc = "idle" /\ context.n # 0 =>
          {Handle("name", context.n), Handle("cred", context.n)} \subseteq live
    /\ pc = "dropped" => live = {}

(***************************************************************************)
(* An init_context that fails, at whichever call, leaves the provider as   *)
(* it was: the earlier context stays, with its handles and its flag.       *)
(***************************************************************************)
FailedInitKeepsContext ==
    pc = "idle" /\ op = "init" /\ last = "Err" => context = before /\ fresh = None

(***************************************************************************)
(* After an operation that succeeded, is_context_established says whether  *)
(* the library considers the provider's context established.  (After a     *)
(* failed step it may not: the flag keeps its value, which is why a bind   *)
(* must not keep such a provider.)                                         *)
(***************************************************************************)
GssapiEstablished ==
    pc = "idle" /\ last = "Ok" =>
       /\ is_context_established = (context.n \in done)
       /\ context.context
=============================================================================
