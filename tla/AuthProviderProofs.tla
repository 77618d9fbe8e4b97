------------------------- MODULE AuthProviderProofs -------------------------
(***************************************************************************)
(* Theorems about the two providers of src/auth.rs, for every number of    *)
(* init_context calls and every way the security library may fail.         *)
(***************************************************************************)
EXTENDS AuthProvider, TLAPS

SecContexts == [n : Nat, context : BOOLEAN, established : BOOLEAN]

GssapiTypeOK ==
    /\ pc \in {"idle", "imported", "stepping", "called", "dropped"}
    /\ op \in {"init", "step"}
    /\ context \in SecContexts /\ fresh \in SecContexts
    /\ major \in {"COMPLETE", "CONTINUE_NEEDED", "FAILURE"}
    /\ output \in {"null", "empty", "token"}
    /\ inits \in Nat

(***************************************************************************)
(* Which contexts there are: an operation in hand works on the newest one, *)
(* which is not yet the provider's, or on the provider's own.              *)
(***************************************************************************)
ContextsApart ==
    /\ context.n = 0 => context = None
    /\ context.n <= inits
    /\ pc = "imported" => op = "init"
    /\ pc \in {"imported", "stepping", "called"} /\ op = "init" =>
          context.n < inits /\ before = context
    /\ IF pc \in {"stepping", "called"} /\ op = "init" THEN fresh.n = inits ELSE fresh = None
    /\ pc \in {"stepping", "called"} /\ op = "step" => context.n # 0
    /\ pc = "stepping" /\ op = "init" => ~fresh.context

(***************************************************************************)
(* The library's books: the handles that are out are those of the two      *)
(* contexts, an imported name on its way into one, and an output token.    *)
(***************************************************************************)
Out ==
    CASE pc = "imported" -> {Handle("name", inits)}
      [] pc = "called" -> Buffer
      [] OTHER -> {}

Books ==
    /\ ~misused
    /\ live = IF pc = "dropped" THEN {} ELSE Owned(context) \cup Owned(fresh) \cup Out

(***************************************************************************)
(* What the library said of the context in hand is known until it is       *)
(* stored in its flag.                                                     *)
(***************************************************************************)
VerdictKnown ==
    pc = "called" =>
       /\ Stepped.n \in done <=> major = "COMPLETE"
       /\ major # "FAILURE" => Stepped.context

GssapiInvariant ==
    /\ GssapiTypeOK /\ ContextsApart /\ Books /\ VerdictKnown
    /\ FailedInitKeepsContext /\ GssapiEstablished

(***************************************************************************)
(* An NTLM provider has no GSSAPI context.                                 *)
(***************************************************************************)
NoGssapi ==
    /\ context = None /\ fresh = None /\ before = None
    /\ live = {} /\ misused = FALSE

(***************************************************************************)
(* NTLM: credentials come with a target, a token is made with them, and a  *)
(* token being completed knows what sspi said of it.                       *)
(***************************************************************************)
NtlmInvariant ==
    /\ pc \in {"idle", "token", "complete"}
    /\ established \in BOOLEAN /\ finished \in BOOLEAN
    /\ inits \in Nat
    /\ credentials_handle # 0 => inits # 0
    /\ pc # "idle" => credentials_handle # 0
    /\ pc = "complete" => (finished <=> ~Ntlm!Continues(status))
    /\ Ntlm!CompleteTokens /\ Ntlm!NtlmEstablished

ProviderInvariant ==
    /\ mechanism \in {"Ntlm", "Kerberos"}
    /\ mechanism = "Kerberos" => GssapiInvariant
    /\ mechanism = "Ntlm" => NoGssapi /\ NtlmInvariant

-----------------------------------------------------------------------------
(* GSSAPI. *)

(***************************************************************************)
(* No context, no handles; the handles of a context are its own.           *)
(***************************************************************************)
LEMMA OwnedFacts ==
  /\ Owned(None) = {} /\ None \in SecContexts
  /\ \A c \in SecContexts : \A h \in Owned(c) :
        c.n # 0 /\ h.n = c.n /\ h.kind \in {"name", "cred", "context"}
  /\ \A c \in SecContexts : c.n # 0 =>
        Owned(c) = {Handle("name", c.n), Handle("cred", c.n)}
                      \cup IF c.context THEN {Handle("context", c.n)} ELSE {}
<1>1. Owned(None) = {} /\ None \in SecContexts
  BY DEF Owned, None, SecContexts
<1>2. ASSUME NEW c \in SecContexts, NEW h \in Owned(c)
      PROVE  c.n # 0 /\ h.n = c.n /\ h.kind \in {"name", "cred", "context"}
  <2>1. c.n # 0 /\ h \in {Handle("name", c.n), Handle("cred", c.n), Handle("context", c.n)}
    BY DEF Owned
  <2> QED
    BY <2>1 DEF Handle
<1>3. \A c \in SecContexts : c.n # 0 =>
        Owned(c) = {Handle("name", c.n), Handle("cred", c.n)}
                      \cup IF c.context THEN {Handle("context", c.n)} ELSE {}
  BY DEF Owned
<1> QED
  BY <1>1, <1>2, <1>3

(***************************************************************************)
(* Handles of different kinds, or of different init_context calls, differ. *)
(***************************************************************************)
LEMMA HandlesDiffer ==
  ASSUME NEW k1, NEW n1, NEW k2, NEW n2, Handle(k1, n1) = Handle(k2, n2)
  PROVE  k1 = k2 /\ n1 = n2
<1>1. Handle(k1, n1).kind = k1 /\ Handle(k1, n1).n = n1
      /\ Handle(k2, n2).kind = k2 /\ Handle(k2, n2).n = n2
  BY DEF Handle
<1> QED
  BY <1>1

(***************************************************************************)
(* What is given back was out.                                             *)
(***************************************************************************)
LEMMA ReleaseOwn ==
  ASSUME NEW handles, handles \subseteq live, ~misused, Release(handles)
  PROVE  ~misused' /\ live' = live \ handles
BY DEF Release

(***************************************************************************)
(* import_name: nothing but the name is new.                               *)
(***************************************************************************)
LEMMA ImportKeeps ==
  ASSUME GssapiInvariant, NEW ok \in BOOLEAN, ImportName(ok)
  PROVE  GssapiInvariant'
<1>1. /\ pc = "idle" /\ inits' = inits + 1 /\ op' = "init" /\ before' = context
      /\ UNCHANGED <<context, fresh, major, output, misused, done>>
      /\ \/ pc' = "imported" /\ live' = live \cup {Handle("name", inits')}
         \/ pc' = "idle" /\ last' = "Err" /\ live' = live
  BY DEF ImportName, Return
<1>2. /\ GssapiTypeOK' /\ ContextsApart'
  BY <1>1 DEF GssapiInvariant, GssapiTypeOK, ContextsApart, SecContexts, None
<1>3. Books'
  <2>1. ~misused' /\ live = Owned(context) \cup Owned(fresh)
    BY <1>1 DEF GssapiInvariant, Books, Out
  <2> QED
    BY <1>1, <2>1 DEF Books, Out, Owned
<1>4. VerdictKnown' /\ GssapiEstablished'
  BY <1>1 DEF VerdictKnown, GssapiEstablished
<1>5. FailedInitKeepsContext'
  BY <1>1 DEF FailedInitKeepsContext, GssapiInvariant, ContextsApart
<1> QED
  BY <1>2, <1>3, <1>4, <1>5 DEF GssapiInvariant

(***************************************************************************)
(* acquire_cred: the name is given back or goes into the new context.      *)
(***************************************************************************)
LEMMA AcquireKeeps ==
  ASSUME GssapiInvariant, AcquireFails \/ AcquireCred
  PROVE  GssapiInvariant'
<1>1. /\ pc = "imported" /\ op = "init" /\ context.n < inits /\ before = context /\ fresh = None
      /\ ~misused /\ live = Owned(context) \cup {Handle("name", inits)}
      /\ context \in SecContexts /\ inits \in Nat
  BY OwnedFacts DEF AcquireFails, AcquireCred, GssapiInvariant, ContextsApart, Books, Out,
                    GssapiTypeOK
<1>2. CASE AcquireFails
  <2>1. /\ pc' = "idle" /\ last' = "Err" /\ Release({Handle("name", inits)})
        /\ UNCHANGED <<op, context, fresh, major, output, done, inits, before>>
    BY <1>2 DEF AcquireFails, Return
  <2>2. Handle("name", inits) \notin Owned(context)
    <3>1. Handle("name", inits).n = inits /\ context.n # inits
      BY <1>1 DEF Handle, SecContexts
    <3> QED
      BY <1>1, <3>1, OwnedFacts
  <2>3. ~misused' /\ live' = Owned(context)
    <3>1. ~misused' /\ live' = live \ {Handle("name", inits)}
      BY <1>1, <2>1, ReleaseOwn
    <3> QED
      BY <1>1, <2>2, <3>1
  <2>4. GssapiTypeOK' /\ ContextsApart'
    BY <1>1, <2>1 DEF GssapiInvariant, GssapiTypeOK, ContextsApart
  <2>5. Books'
    BY <1>1, <2>1, <2>3, OwnedFacts DEF Books, Out, Owned
  <2>6. VerdictKnown' /\ GssapiEstablished' /\ FailedInitKeepsContext'
    BY <1>1, <2>1 DEF VerdictKnown, GssapiEstablished, FailedInitKeepsContext
  <2> QED
    BY <2>4, <2>5, <2>6 DEF GssapiInvariant
<1>3. CASE AcquireCred
  <2>1. /\ pc' = "stepping" /\ fresh' = [None EXCEPT !.n = inits]
        /\ live' = live \cup {Handle("cred", inits)}
        /\ UNCHANGED <<op, context, major, output, last, misused, done, inits, before>>
    BY <1>3 DEF AcquireCred
  <2>2. /\ fresh' \in SecContexts /\ fresh'.n = inits /\ ~fresh'.context /\ inits # 0
    <3>1. inits # 0
      BY <1>1 DEF SecContexts
    <3>2. fresh' = [n |-> inits, context |-> FALSE, established |-> FALSE]
      BY <2>1 DEF None
    <3> QED
      BY <1>1, <3>1, <3>2 DEF SecContexts
  <2>3. Owned(fresh') = {Handle("name", inits), Handle("cred", inits)}
    BY <2>2, OwnedFacts
  <2>4. GssapiTypeOK' /\ ContextsApart'
    BY <1>1, <2>1, <2>2 DEF GssapiInvariant, GssapiTypeOK, ContextsApart
  <2>5. live' = Owned(context) \cup Owned(fresh')
    BY <1>1, <2>1, <2>3
  <2>6. Books'
    BY <1>1, <2>1, <2>5 DEF Books, Out, Owned
  <2>7. VerdictKnown' /\ GssapiEstablished' /\ FailedInitKeepsContext'
    BY <1>1, <2>1 DEF VerdictKnown, GssapiEstablished, FailedInitKeepsContext
  <2> QED
    BY <2>4, <2>6, <2>7 DEF GssapiInvariant
<1> QED
  BY <1>2, <1>3

(***************************************************************************)
(* step begins on the provider's context, or is refused without one.       *)
(***************************************************************************)
LEMMA StepBeginsKeeps ==
  ASSUME GssapiInvariant, StepBegins
  PROVE  GssapiInvariant'
<1>1. /\ pc = "idle" /\ op' = "step"
      /\ UNCHANGED <<context, fresh, major, output, live, misused, done, inits>>
      /\ \/ context = None /\ pc' = "idle" /\ last' = "Err"
         \/ context # None /\ pc' = "stepping"
  BY DEF StepBegins, Return
<1>2. GssapiTypeOK' /\ ContextsApart'
  BY <1>1 DEF GssapiInvariant, GssapiTypeOK, ContextsApart
<1>3. Books' /\ VerdictKnown' /\ GssapiEstablished' /\ FailedInitKeepsContext'
  BY <1>1 DEF GssapiInvariant, Books, Out, Owned, VerdictKnown, GssapiEstablished,
              FailedInitKeepsContext
<1> QED
  BY <1>2, <1>3 DEF GssapiInvariant

(***************************************************************************)
(* gss_init_sec_context: it makes, keeps or deletes the context in hand,   *)
(* may allocate a token, and gives its verdict.                            *)
(***************************************************************************)
LEMMA CallKeeps ==
  ASSUME GssapiInvariant,
         NEW code \in {"COMPLETE", "CONTINUE_NEEDED", "FAILURE"},
         NEW out \in {"null", "empty", "token"}, NEW there \in BOOLEAN,
         InitSecContext(code, out, there)
  PROVE  GssapiInvariant'
<1> DEFINE after == [Stepped EXCEPT !.context = there]
           handle == Handle("context", Stepped.n)
           buffer == IF out = "null" THEN {} ELSE {Handle("buffer", inits)}
<1>1. /\ pc = "stepping" /\ pc' = "called" /\ major' = code /\ output' = out
      /\ code # "FAILURE" => there
      /\ SetStepped(after)
      /\ live' = (IF there THEN live \cup {handle} ELSE live \ {handle}) \cup buffer
      /\ done' = IF code = "COMPLETE" THEN done \cup {Stepped.n} ELSE done \ {Stepped.n}
      /\ UNCHANGED <<op, last, misused, inits, before>>
  BY DEF InitSecContext
<1>2. /\ context \in SecContexts /\ fresh \in SecContexts /\ inits \in Nat
      /\ op \in {"init", "step"} /\ ~misused
      /\ live = Owned(context) \cup Owned(fresh)
  BY <1>1 DEF GssapiInvariant, GssapiTypeOK, Books, Out
<1>3. /\ op = "init" => /\ context.n < inits /\ before = context /\ fresh.n = inits
                        /\ Stepped = fresh
      /\ op = "step" => fresh = None /\ context.n # 0 /\ Stepped = context
  BY <1>1 DEF GssapiInvariant, ContextsApart, Stepped
<1>4. /\ Stepped \in SecContexts /\ Stepped.n # 0
      /\ after \in SecContexts /\ after.n = Stepped.n /\ after.context = there
      /\ after # None
  <2>1. Stepped \in SecContexts /\ Stepped.n # 0
    BY <1>2, <1>3 DEF SecContexts
  <2> QED
    BY <2>1 DEF SecContexts, None
<1>5. Owned(after) = IF there THEN Owned(Stepped) \cup {handle} ELSE Owned(Stepped) \ {handle}
  <2> DEFINE base == {Handle("name", Stepped.n), Handle("cred", Stepped.n)}
  <2>1. Owned(after) = base \cup IF there THEN {handle} ELSE {}
    BY <1>4, OwnedFacts
  <2>2. Owned(Stepped) = base \cup IF Stepped.context THEN {handle} ELSE {}
    BY <1>4, OwnedFacts
  <2>3. handle \notin base
    BY HandlesDiffer
  <2> HIDE DEF base, handle
  <2> QED
    BY <2>1, <2>2, <2>3
<1>6. GssapiTypeOK'
  BY <1>1, <1>2, <1>4 DEF GssapiInvariant, GssapiTypeOK, SetStepped
<1>7. ContextsApart'
  <2>1. CASE op = "init"
    BY <1>1, <1>2, <1>3, <1>4, <2>1 DEF GssapiInvariant, ContextsApart, SetStepped
  <2>2. CASE op = "step"
    BY <1>1, <1>2, <1>3, <1>4, <2>2 DEF GssapiInvariant, ContextsApart, SetStepped
  <2> QED
    BY <1>2, <2>1, <2>2
<1>8. live' = Owned(context') \cup Owned(fresh') \cup buffer
  <2>1. CASE op = "init"
    <3>1. context' = context /\ fresh' = after /\ Stepped = fresh
      BY <1>1, <1>3, <2>1 DEF SetStepped
    <3>2. handle \notin Owned(context)
      <4>1. handle.n = inits /\ context.n # inits
        BY <1>2, <1>3, <2>1 DEF Handle, SecContexts
      <4> QED
        BY <1>2, <4>1, OwnedFacts
    <3> HIDE DEF handle, buffer, after
    <3> QED
      BY <1>1, <1>2, <1>5, <3>1, <3>2
  <2>2. CASE op = "step"
    <3>1. context' = after /\ fresh' = fresh /\ Stepped = context /\ Owned(fresh) = {}
      BY <1>1, <1>3, <2>2, OwnedFacts DEF SetStepped
    <3> HIDE DEF handle, buffer, after
    <3> QED
      BY <1>1, <1>2, <1>5, <3>1
  <2> QED
    BY <1>2, <2>1, <2>2
<1>9. Books'
  BY <1>1, <1>2, <1>8 DEF Books, Out, Buffer, Owned
<1>10. Stepped' = after
  BY <1>1, <1>2 DEF Stepped, SetStepped
<1>11. VerdictKnown'
  BY <1>1, <1>4, <1>10 DEF VerdictKnown
<1>12. GssapiEstablished' /\ FailedInitKeepsContext'
  BY <1>1 DEF GssapiEstablished, FailedInitKeepsContext
<1> QED
  BY <1>6, <1>7, <1>9, <1>11, <1>12 DEF GssapiInvariant

(***************************************************************************)
(* What is out when the library has returned: the handles of the two       *)
(* contexts and the output token, all different.                           *)
(***************************************************************************)
LEMMA CalledBooks ==
  ASSUME GssapiInvariant, pc = "called"
  PROVE  /\ ~misused /\ live = Owned(context) \cup Owned(fresh) \cup Buffer
         /\ Owned(context) \cap Owned(fresh) = {}
         /\ Owned(context) \cap Buffer = {} /\ Owned(fresh) \cap Buffer = {}
<1>1. /\ context \in SecContexts /\ fresh \in SecContexts /\ inits \in Nat
      /\ ~misused /\ live = Owned(context) \cup Owned(fresh) \cup Buffer
  BY DEF GssapiInvariant, GssapiTypeOK, Books, Out
<1>2. fresh = None \/ fresh.n # context.n
  BY <1>1 DEF GssapiInvariant, ContextsApart, SecContexts
<1>3. Owned(context) \cap Owned(fresh) = {}
  BY <1>1, <1>2, OwnedFacts
<1>4. \A h \in Buffer : h.kind = "buffer"
  BY DEF Buffer, Handle
<1>5. \A c \in SecContexts : Owned(c) \cap Buffer = {}
  <2>1. \A c \in SecContexts : \A h \in Owned(c) : h.kind # "buffer"
    BY OwnedFacts
  <2> QED
    BY <1>4, <2>1
<1> QED
  BY <1>1, <1>3, <1>5

(***************************************************************************)
(* Every way out of an operation: the token buffer is released, with the   *)
(* context that goes; what stays is the provider's context.                *)
(***************************************************************************)
LEMMA ReturnKeeps ==
  ASSUME GssapiInvariant, StepFails \/ StepOk \/ InitEmpty \/ InitOk
  PROVE  GssapiInvariant'
<1>1. /\ pc = "called" /\ pc' = "idle"
      /\ UNCHANGED <<op, major, output, done, inits, before>>
  BY DEF StepFails, StepOk, InitEmpty, InitOk, Return
<1>2. /\ context \in SecContexts /\ fresh \in SecContexts /\ inits \in Nat
      /\ op \in {"init", "step"}
      /\ major \in {"COMPLETE", "CONTINUE_NEEDED", "FAILURE"}
  BY DEF GssapiInvariant, GssapiTypeOK
<1>3. /\ op = "init" => /\ context.n < inits /\ before = context /\ fresh.n = inits
                        /\ Stepped = fresh
      /\ op = "step" => fresh = None /\ context.n # 0 /\ Stepped = context
      /\ context.n = 0 => context = None
      /\ context.n <= inits
  BY <1>1 DEF GssapiInvariant, ContextsApart, Stepped
<1>4. /\ ~misused /\ live = Owned(context) \cup Owned(fresh) \cup Buffer
      /\ Owned(context) \cap Owned(fresh) = {}
      /\ Owned(context) \cap Buffer = {} /\ Owned(fresh) \cap Buffer = {}
  BY <1>1, CalledBooks
<1>5. /\ Established \in SecContexts /\ Established.n = Stepped.n
      /\ Established.context = Stepped.context /\ Owned(Established) = Owned(Stepped)
      /\ Established.established <=> major = "COMPLETE"
      /\ Stepped.n # 0
  <2>1. Stepped \in SecContexts /\ Stepped.n # 0
    BY <1>2, <1>3 DEF SecContexts
  <2>2. /\ Established \in SecContexts /\ Established.n = Stepped.n
        /\ Established.context = Stepped.context
        /\ Established.established <=> major = "COMPLETE"
    BY <2>1 DEF SecContexts, Established
  <2> QED
    BY <2>1, <2>2 DEF Owned
<1>6. CASE (StepFails \/ InitEmpty)
  <2>1. /\ UNCHANGED context /\ fresh' = None /\ last' = "Err"
        /\ Release(Buffer \cup Owned(fresh))
    <3>1. CASE op = "init"
      BY <1>6, <3>1 DEF StepFails, InitEmpty, Return
    <3>2. CASE op = "step"
      <4>1. Owned(fresh) = {}
        BY <1>3, <3>2, OwnedFacts
      <4> QED
        BY <1>6, <3>2, <4>1 DEF StepFails, InitEmpty, Return
    <3> QED
      BY <1>2, <3>1, <3>2
  <2>2. ~misused' /\ live' = live \ (Buffer \cup Owned(fresh))
    BY <1>4, <2>1, ReleaseOwn
  <2>3. live' = Owned(context)
    BY <1>4, <2>2
  <2>4. GssapiTypeOK' /\ ContextsApart'
    BY <1>1, <1>2, <1>3, <2>1, OwnedFacts DEF GssapiInvariant, GssapiTypeOK, ContextsApart
  <2>5. Books'
    BY <1>1, <2>1, <2>2, <2>3, OwnedFacts DEF Books, Out, Owned
  <2>6. VerdictKnown' /\ GssapiEstablished' /\ FailedInitKeepsContext'
    BY <1>1, <1>3, <2>1 DEF VerdictKnown, GssapiEstablished, FailedInitKeepsContext
  <2> QED
    BY <2>4, <2>5, <2>6 DEF GssapiInvariant
<1>7. CASE StepOk \/ InitOk
  <2>1. /\ context' = Established /\ fresh' = None /\ last' = "Ok"
        /\ op = "init" => Release(Buffer \cup Owned(context))
        /\ op = "step" => Release(Buffer)
        /\ major # "FAILURE"
    BY <1>3, <1>7 DEF StepOk, InitOk, Return
  <2>2. ~misused' /\ live' = Owned(Established)
    <3>1. CASE op = "init"
      <4>1. ~misused' /\ live' = live \ (Buffer \cup Owned(context))
        BY <1>4, <2>1, <3>1, ReleaseOwn
      <4> QED
        BY <1>3, <1>4, <1>5, <3>1, <4>1
    <3>2. CASE op = "step"
      <4>1. ~misused' /\ live' = live \ Buffer
        BY <1>4, <2>1, <3>2, ReleaseOwn
      <4>2. Owned(fresh) = {}
        BY <1>3, <3>2, OwnedFacts
      <4> QED
        BY <1>3, <1>4, <1>5, <3>2, <4>1, <4>2
    <3> QED
      BY <1>2, <3>1, <3>2
  <2>3. Established.n # 0 /\ Established.n <= inits
    BY <1>2, <1>3, <1>5
  <2>4. GssapiTypeOK'
    BY <1>1, <1>5, <2>1, OwnedFacts DEF GssapiInvariant, GssapiTypeOK
  <2>5. ContextsApart'
    BY <1>1, <2>1, <2>3 DEF ContextsApart
  <2>6. Books'
    BY <1>1, <2>1, <2>2, OwnedFacts DEF Books, Out, Owned
  <2>7. /\ Stepped.n \in done <=> major = "COMPLETE"
        /\ Stepped.context
    BY <1>1, <2>1 DEF GssapiInvariant, VerdictKnown
  <2>8. /\ context'.context /\ context'.n # 0
        /\ context'.established <=> context'.n \in done'
    BY <1>1, <1>5, <2>1, <2>7
  <2>9. is_context_established' = (context'.n \in done')
    BY <2>8 DEF is_context_established
  <2>10. GssapiEstablished' /\ VerdictKnown' /\ FailedInitKeepsContext'
    BY <1>1, <2>1, <2>8, <2>9 DEF GssapiEstablished, VerdictKnown, FailedInitKeepsContext
  <2> QED
    BY <2>4, <2>5, <2>6, <2>10 DEF GssapiInvariant
<1> QED
  BY <1>6, <1>7

(***************************************************************************)
(* Dropping the provider gives back what its context holds.                *)
(***************************************************************************)
LEMMA DropKeeps ==
  ASSUME GssapiInvariant, DropProvider
  PROVE  GssapiInvariant'
<1>1. /\ pc = "idle" /\ pc' = "dropped" /\ Release(Owned(context))
      /\ UNCHANGED <<op, context, fresh, major, output, last, done, inits, before>>
  BY DEF DropProvider
<1>2. ~misused /\ live = Owned(context)
  BY <1>1, OwnedFacts DEF GssapiInvariant, Books, Out, ContextsApart
<1>3. ~misused' /\ live' = {}
  BY <1>1, <1>2, ReleaseOwn
<1>4. GssapiTypeOK' /\ ContextsApart' /\ Books'
  BY <1>1, <1>3 DEF GssapiInvariant, GssapiTypeOK, ContextsApart, Books
<1>5. VerdictKnown' /\ GssapiEstablished' /\ FailedInitKeepsContext'
  BY <1>1 DEF VerdictKnown, GssapiEstablished, FailedInitKeepsContext
<1> QED
  BY <1>4, <1>5 DEF GssapiInvariant

(***************************************************************************)
(* Every call of a GSSAPI provider keeps its invariant.                    *)
(***************************************************************************)
LEMMA GssapiStep ==
  ASSUME GssapiInvariant, Next
  PROVE  GssapiInvariant'
BY ImportKeeps, AcquireKeeps, StepBeginsKeeps, CallKeeps, ReturnKeeps, DropKeeps DEF Next

-----------------------------------------------------------------------------
(* NTLM. *)

(***************************************************************************)
(* Every call of an NTLM provider keeps its invariant.                     *)
(***************************************************************************)
LEMMA NtlmStep ==
  ASSUME NtlmInvariant, Ntlm!Next
  PROVE  NtlmInvariant'
<1> USE DEF Ntlm!fields, Ntlm!sspi, Ntlm!Return
<1>1. CASE Ntlm!AcquireFails \/ Ntlm!Acquire \/ Ntlm!Step
  BY <1>1 DEF NtlmInvariant, Ntlm!CompleteTokens, Ntlm!NtlmEstablished,
              Ntlm!AcquireFails, Ntlm!Acquire, Ntlm!Step
<1>2. CASE Ntlm!InitializeFails \/ Ntlm!CompleteFails
  BY <1>2 DEF NtlmInvariant, Ntlm!CompleteTokens, Ntlm!NtlmEstablished,
              Ntlm!InitializeFails, Ntlm!CompleteFails
<1>3. ASSUME NEW s \in Ntlm!Statuses, Ntlm!Initialize(s)
      PROVE  NtlmInvariant'
  <2>1. /\ pc = "token" /\ status' = s /\ UNCHANGED <<credentials_handle, target, inits>>
        /\ finished' \in BOOLEAN /\ (finished' <=> ~Ntlm!Continues(s))
        /\ incomplete' <=> Ntlm!Completes(s)
    <3>1. /\ finished' = (s \in {"Ok", "CompleteNeeded"})
          /\ incomplete' = (s \in {"CompleteNeeded", "CompleteAndContinue"})
      BY <1>3 DEF Ntlm!Initialize
    <3>2. s \in {"Ok", "CompleteNeeded"} <=> ~Ntlm!Continues(s)
      BY DEF Ntlm!Statuses, Ntlm!Continues
    <3>3. finished' \in BOOLEAN /\ (finished' <=> ~Ntlm!Continues(s))
      <4>1. (s \in {"Ok", "CompleteNeeded"}) \in BOOLEAN
        OBVIOUS
      <4>2. finished' \in BOOLEAN
        BY <3>1, <4>1, Zenon
      <4>3. finished' <=> s \in {"Ok", "CompleteNeeded"}
        BY <3>1, Zenon
      <4> QED
        BY <3>2, <4>2, <4>3
    <3>4. incomplete' <=> Ntlm!Completes(s)
      BY <3>1 DEF Ntlm!Completes
    <3> QED
      BY <1>3, <3>3, <3>4 DEF Ntlm!Initialize
  <2>2. /\ credentials_handle # 0 /\ inits # 0 /\ inits \in Nat /\ credentials_handle = target
        /\ established \in BOOLEAN
    BY <2>1 DEF NtlmInvariant, Ntlm!CompleteTokens
  <2>3. CASE Ntlm!Completes(s)
    <3>1. pc' = "complete" /\ UNCHANGED <<established, last>>
      BY <1>3, <2>3 DEF Ntlm!Initialize
    <3>2. Ntlm!CompleteTokens' /\ Ntlm!NtlmEstablished'
      BY <2>1, <2>2, <3>1 DEF Ntlm!CompleteTokens, Ntlm!NtlmEstablished
    <3>3. finished' <=> ~Ntlm!Continues(status)'
      BY <2>1
    <3> QED
      BY <2>1, <2>2, <3>1, <3>2, <3>3 DEF NtlmInvariant
  <2>4. CASE ~Ntlm!Completes(s)
    <3>1. /\ pc' = "idle" /\ last' = "Ok"
          /\ established' \in BOOLEAN /\ (established' <=> ~Ntlm!Continues(s))
      BY <1>3, <2>4 DEF Ntlm!Initialize, Ntlm!Established, Ntlm!Continues
    <3>2. established' <=> finished'
      BY <2>1, <3>1
    <3>3. established' = finished'
      <4>1. established' \in BOOLEAN /\ finished' \in BOOLEAN
        BY <2>1, <3>1
      <4> QED
        BY <3>2, <4>1
    <3>4. Ntlm!CompleteTokens' /\ Ntlm!NtlmEstablished'
      BY <2>1, <2>2, <2>4, <3>1, <3>3 DEF Ntlm!CompleteTokens, Ntlm!NtlmEstablished
    <3> QED
      BY <2>1, <2>2, <3>1, <3>4 DEF NtlmInvariant
  <2> QED
    BY <2>3, <2>4
<1>4. CASE Ntlm!Complete
  BY <1>4 DEF NtlmInvariant, Ntlm!CompleteTokens, Ntlm!NtlmEstablished, Ntlm!Continues,
              Ntlm!Complete, Ntlm!Established
<1> QED
  BY <1>1, <1>2, <1>3, <1>4 DEF Ntlm!Next

-----------------------------------------------------------------------------
(***************************************************************************)
(* The invariant of the provider in use holds in every run.                *)
(***************************************************************************)
LEMMA ProviderInvariantHolds == ProviderSpec => []ProviderInvariant
<1>1. ProviderInit => ProviderInvariant
  <2> SUFFICES ASSUME ProviderInit PROVE ProviderInvariant
    OBVIOUS
  <2>1. mechanism \in {"Ntlm", "Kerberos"} /\ Init /\ Ntlm!Init
    BY DEF ProviderInit
  <2>2. NoGssapi
    BY <2>1 DEF Init, NoGssapi
  <2>3. NtlmInvariant
    BY <2>1 DEF Ntlm!Init, NtlmInvariant, Ntlm!CompleteTokens, Ntlm!NtlmEstablished
  <2>4. GssapiTypeOK
    BY <2>1, OwnedFacts DEF Init, GssapiTypeOK
  <2>5. ContextsApart
    BY <2>1 DEF Init, ContextsApart, None
  <2>6. Books
    BY <2>1, OwnedFacts DEF Init, Books, Out
  <2>7. VerdictKnown /\ FailedInitKeepsContext /\ GssapiEstablished
    BY <2>1 DEF Init, VerdictKnown, FailedInitKeepsContext, GssapiEstablished
  <2> QED
    BY <2>1, <2>2, <2>3, <2>4, <2>5, <2>6, <2>7 DEF ProviderInvariant, GssapiInvariant
<1>2. ProviderInvariant /\ [ProviderNext]_<<mechanism, vars, ntlmOnly>> => ProviderInvariant'
  <2> SUFFICES ASSUME ProviderInvariant, [ProviderNext]_<<mechanism, vars, ntlmOnly>>
               PROVE  ProviderInvariant'
    OBVIOUS
  <2>1. CASE mechanism = "Kerberos" /\ Next /\ UNCHANGED <<mechanism, ntlmOnly>>
    BY <2>1, GssapiStep DEF ProviderInvariant
  <2>2. CASE mechanism = "Ntlm" /\ Ntlm!Next /\ UNCHANGED <<mechanism, gssapiOnly>>
    <3>1. NoGssapi'
      BY <2>2 DEF ProviderInvariant, NoGssapi, gssapiOnly
    <3> QED
      BY <2>2, <3>1, NtlmStep DEF ProviderInvariant
  <2>3. CASE UNCHANGED <<mechanism, vars, ntlmOnly>>
    <3> USE <2>3 DEF vars, ntlmOnly
    <3>1. GssapiInvariant => GssapiInvariant'
      BY DEF GssapiInvariant, GssapiTypeOK, ContextsApart, Books, Out, Buffer, Owned,
             VerdictKnown, Stepped, FailedInitKeepsContext, GssapiEstablished,
             is_context_established
    <3>2. NoGssapi /\ NtlmInvariant => (NoGssapi /\ NtlmInvariant)'
      BY DEF NoGssapi, NtlmInvariant, Ntlm!Continues, Ntlm!CompleteTokens, Ntlm!NtlmEstablished
    <3> QED
      BY <3>1, <3>2 DEF ProviderInvariant
  <2> QED
    BY <2>1, <2>2, <2>3 DEF ProviderNext
<1> QED
  BY <1>1, <1>2, PTL DEF ProviderSpec

(***************************************************************************)
(* Every name, credential, context and token buffer that the GSSAPI        *)
(* library gives out is given back exactly once, however many contexts are *)
(* made and whichever calls fail.                                          *)
(***************************************************************************)
THEOREM HandlesReleased == ProviderSpec => []ReleasedExactlyOnce
<1>1. ProviderInvariant => ReleasedExactlyOnce
  <2> SUFFICES ASSUME ProviderInvariant PROVE ReleasedExactlyOnce
    OBVIOUS
  <2>1. CASE mechanism = "Ntlm"
    BY <2>1 DEF ProviderInvariant, NoGssapi, ReleasedExactlyOnce, None
  <2>2. CASE mechanism = "Kerberos"
    <3>1. /\ GssapiInvariant /\ ~misused /\ context \in SecContexts
          /\ pc = "dropped" => live = {}
      BY <2>2 DEF ProviderInvariant, GssapiInvariant, Books, GssapiTypeOK
    <3>2. pc = "idle" => live = Owned(context)
      BY <3>1, OwnedFacts DEF GssapiInvariant, Books, Out, ContextsApart
    <3>3. pc = "idle" /\ context.n = 0 => live = {}
      BY <3>2 DEF Owned
    <3>4. pc = "idle" /\ context.n # 0 =>
             /\ \A h \in live : h.n = context.n /\ h.kind # "buffer"
             /\ {Handle("name", context.n), Handle("cred", context.n)} \subseteq live
      BY <3>1, <3>2, OwnedFacts
    <3> QED
      BY <3>1, <3>3, <3>4 DEF ReleasedExactlyOnce
  <2> QED
    BY <2>1, <2>2 DEF ProviderInvariant
<1> QED
  BY <1>1, ProviderInvariantHolds, PTL

(***************************************************************************)
(* An init_context that fails leaves the provider's earlier context in     *)
(* use, whichever of its library calls failed.                             *)
(***************************************************************************)
THEOREM FailedInitsKeepContext == ProviderSpec => []FailedInitKeepsContext
<1>1. ProviderInvariant => FailedInitKeepsContext
  BY DEF ProviderInvariant, GssapiInvariant, NoGssapi, FailedInitKeepsContext
<1> QED
  BY <1>1, ProviderInvariantHolds, PTL

(***************************************************************************)
(* is_context_established tells the truth after every success, for both    *)
(* providers.                                                              *)
(***************************************************************************)
THEOREM EstablishedIsTrue == ProviderSpec => []EstablishedTrue
<1>1. ProviderInvariant => EstablishedTrue
  BY DEF ProviderInvariant, GssapiInvariant, NtlmInvariant, EstablishedTrue
<1> QED
  BY <1>1, ProviderInvariantHolds, PTL

(***************************************************************************)
(* No NTLM token leaves the provider incomplete, or made with credentials  *)
(* and a target of different init_context calls.                           *)
(***************************************************************************)
THEOREM TokensAreComplete == ProviderSpec => []TokensComplete
<1>1. ProviderInvariant => TokensComplete
  BY DEF ProviderInvariant, NtlmInvariant, TokensComplete
<1> QED
  BY <1>1, ProviderInvariantHolds, PTL
=============================================================================
