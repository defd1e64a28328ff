----------------------------- MODULE ProxiesProofs -----------------------------
(***************************************************************************)
(* Proxies that are started at the same time, for any number of requests,  *)
(* DNS servers and ports: the proofs of the safety properties of Proxies.  *)
(***************************************************************************)
EXTENDS Proxies, FiniteSetTheorems, SequenceTheorems, TLAPS

(***************************************************************************)
(* The inductive invariant                                                 *)
(***************************************************************************)
Places == {"idle", "port", "listen", "resolver", "target", "read", "write", "done", "failed"}
Done == {r \in Requests : at[r] = "done"}
Listed == {proxies[i] : i \in DOMAIN proxies}

\* A request has a forwarder only once it has started one.
TypeInv ==
    /\ at \in [Requests -> Places]
    /\ asked \in [Requests -> Kinds]
    /\ forwarder \in [Requests -> {"none", "handle", "listen", "serving"}]
    /\ proxies \in Seq(Requests) /\ seen \in [Requests -> Seq(Requests)]
    /\ \A r \in Requests :
          forwarder[r] # "none" => at[r] \in {"read", "write", "done"}

\* As long as nobody is overtaken there is one forwarder at most that has not
\* handled "." yet, and it will install the target that was assigned last.
TargetInv ==
    ~overtaken =>
        /\ \A r, q \in Requests : Pending(r) /\ Pending(q) => r = q
        /\ \A r \in Requests : Pending(r) => asked[r] = dnsTarget
        /\ (\A r \in Requests : ~Pending(r)) => handler = dnsTarget

\* As long as no two appends overlap, the one that is under way has read the list
\* as it is.
ListInv ==
    /\ IsFiniteSet(Done)
    /\ ~together =>
        /\ \A r, q \in Requests : at[r] = "write" /\ at[q] = "write" => r = q
        /\ \A r \in Requests : at[r] = "write" => seen[r] = proxies
        /\ Listed = Done
        /\ Len(proxies) = Cardinality(Done)

ProxiesInv == TypeInv /\ TargetInv /\ ListInv

(***************************************************************************)
(* Every step preserves it                                                 *)
(***************************************************************************)
\* The place of every request and the list have changed nowhere that matters to
\* the list.
LEMMA ListUntouched ==
    ASSUME ListInv, UNCHANGED <<proxies, seen, together>>,
           \A r \in Requests : at'[r] = at[r] \/ {at[r], at'[r]} \cap {"write", "done"} = {}
    PROVE  ListInv'
<1>1. Done' = Done /\ Listed' = Listed
  BY DEF Done, Listed
<1>. QED
  BY <1>1 DEF ListInv

\* A request goes its way up to the append, without a DNS proxy.
LEMMA OtherStepsKeepInv ==
    ASSUME ProxiesInv, NEW r \in Requests,
           NewProxy(r) \/ CreateTCPListener(r) \/ ConfigResolver(r) \/ GetFreeUDPPort(r)
    PROVE  ProxiesInv'
<1>. USE DEF Goes, Refused, startVars, dnsVars
<1>1. /\ at[r] \in {"idle", "listen", "resolver", "port"}
      /\ \E to \in {"port", "listen", "failed", "resolver", "read", "target"} :
             at' = [at EXCEPT ![r] = to]
  BY DEF NewProxy, CreateTCPListener, ConfigResolver, GetFreeUDPPort
<1>2. UNCHANGED <<proxies, seen, together, dnsTarget, forwarder, handler, overtaken>>
  BY DEF NewProxy, CreateTCPListener, ConfigResolver, GetFreeUDPPort
<1>3. \/ asked' = asked
      \/ at[r] = "idle" /\ \E kind \in Kinds : asked' = [asked EXCEPT ![r] = kind]
  BY DEF NewProxy, CreateTCPListener, ConfigResolver, GetFreeUDPPort
<1>4. TypeInv'
  <2>1. at' \in [Requests -> Places] /\ forwarder[r] = "none"
    BY <1>1 DEF ProxiesInv, TypeInv, Places
  <2>2. asked' \in [Requests -> Kinds]
    BY <1>3 DEF ProxiesInv, TypeInv
  <2>3. \A q \in Requests : forwarder'[q] # "none" => at'[q] \in {"read", "write", "done"}
    BY <1>1, <1>2, <2>1 DEF ProxiesInv, TypeInv
  <2>. QED
    BY <1>2, <2>1, <2>2, <2>3 DEF ProxiesInv, TypeInv
<1>5. TargetInv'
  BY <1>1, <1>2, <1>3 DEF ProxiesInv, TypeInv, TargetInv, Pending
<1>6. ListInv'
  BY <1>1, <1>2, ListUntouched DEF ProxiesInv, TypeInv
<1>. QED
  BY <1>4, <1>5, <1>6 DEF ProxiesInv

\* NewDNSProxy assigns the target and starts the forwarder, or does neither.
LEMMA NewDNSProxyKeepsInv ==
    ASSUME ProxiesInv, NEW r \in Requests, NewDNSProxy(r)
    PROVE  ProxiesInv'
<1>. USE DEF NewDNSProxy, Goes, Refused, Starts
<1>1. at[r] = "target" /\ \E to \in {"failed", "read"} : at' = [at EXCEPT ![r] = to]
  OBVIOUS
<1>2. TypeInv'
  BY DEF ProxiesInv, TypeInv, Places
<1>3. TargetInv'
  <2>1. CASE asked[r] = "malformed"
    BY <2>1 DEF ProxiesInv, TypeInv, TargetInv, Pending
  <2>2. CASE asked[r] # "malformed"
    <3>1. /\ dnsTarget' = asked[r] /\ forwarder' = [forwarder EXCEPT ![r] = "handle"]
          /\ overtaken' = (overtaken \/ \E q \in Requests : Pending(q))
          /\ asked' = asked
      BY <2>2
    <3>2. forwarder'[r] = "handle" /\ \A q \in Requests \ {r} : forwarder'[q] = forwarder[q]
      BY <3>1 DEF ProxiesInv, TypeInv
    <3>3. ~overtaken' => \A q \in Requests \ {r} : forwarder'[q] # "handle"
      BY <3>1, <3>2 DEF Pending
    <3>. QED
      BY <3>1, <3>2, <3>3 DEF TargetInv, Pending
  <2>. QED
    BY <2>1, <2>2
<1>4. ListInv'
  BY <1>1, ListUntouched DEF ProxiesInv, TypeInv
<1>. QED
  BY <1>2, <1>3, <1>4 DEF ProxiesInv

\* The two halves of the append.
LEMMA AppendKeepsInv ==
    ASSUME ProxiesInv, NEW r \in Requests, ReadProxies(r) \/ WriteProxies(r)
    PROVE  ProxiesInv'
<1>. USE DEF Goes, dnsVars
<1>1. TypeInv'
  <2>1. <<>> \in Seq(Requests) /\ Append(seen[r], r) \in Seq(Requests)
    BY EmptySeq, AppendProperties DEF ProxiesInv, TypeInv
  <2>2. proxies' \in Seq(Requests) /\ seen' \in [Requests -> Seq(Requests)]
    BY <2>1 DEF ReadProxies, WriteProxies, ProxiesInv, TypeInv
  <2>. QED
    BY <2>2 DEF ReadProxies, WriteProxies, ProxiesInv, TypeInv, Places
<1>2. TargetInv'
  BY DEF ReadProxies, WriteProxies, ProxiesInv, TargetInv, Pending
<1>3. ListInv'
  <2>1. CASE ReadProxies(r)
    <3>1. Done' = Done /\ Listed' = Listed
      BY <2>1 DEF ReadProxies, Done, Listed, ProxiesInv, TypeInv
    <3>. QED
      BY <2>1, <3>1 DEF ReadProxies, ListInv, ProxiesInv, TypeInv
  <2>2. CASE WriteProxies(r)
    <3>1. Done' = Done \cup {r} /\ r \notin Done
      BY <2>2 DEF WriteProxies, Done, ProxiesInv, TypeInv
    <3>2. IsFiniteSet(Done') /\ Cardinality(Done') = Cardinality(Done) + 1
      BY <3>1, FS_AddElement DEF ProxiesInv, ListInv
    <3>3. ASSUME ~together'
          PROVE  Listed' = Done' /\ Len(proxies') = Cardinality(Done')
      <4>1. proxies' = Append(proxies, r) /\ Listed = Done /\ Len(proxies) = Cardinality(Done)
        BY <2>2, <3>3 DEF WriteProxies, ProxiesInv, ListInv
      <4>2. proxies \in Seq(Requests)
        BY DEF ProxiesInv, TypeInv
      <4>3. Len(proxies') = Len(proxies) + 1 /\ Len(proxies) \in Nat
        BY <4>1, <4>2
      <4>4. /\ \A i \in 1..Len(proxies) : proxies'[i] = proxies[i]
            /\ proxies'[Len(proxies) + 1] = r
        BY <4>1, <4>2
      <4>5. DOMAIN proxies = 1..Len(proxies) /\ DOMAIN proxies' = 1..(Len(proxies) + 1)
        BY <4>1, <4>2
      <4>6. DOMAIN proxies' = DOMAIN proxies \cup {Len(proxies) + 1}
        BY <4>3, <4>5
      <4>7. Listed' = Listed \cup {r}
        BY <4>4, <4>5, <4>6 DEF Listed
      <4>. QED
        BY <3>1, <3>2, <4>1, <4>3, <4>7
    <3>4. ~together' => \A q \in Requests : at'[q] # "write"
      BY <2>2 DEF WriteProxies, ProxiesInv, TypeInv, ListInv
    <3>. QED
      BY <3>2, <3>3, <3>4 DEF ListInv
  <2>. QED
    BY <2>1, <2>2
<1>. QED
  BY <1>1, <1>2, <1>3 DEF ProxiesInv

\* forwardDNS, and other processes that take ports.
LEMMA ForwarderKeepsInv ==
    ASSUME ProxiesInv,
           OtherBinds \/ \E r \in Requests : HandleFunc(r) \/ ListenAndServe(r)
    PROVE  ProxiesInv'
<1>. USE DEF startVars
<1>1. UNCHANGED startVars
  BY DEF OtherBinds, HandleFunc, ListenAndServe
<1>2. TypeInv'
  BY <1>1 DEF OtherBinds, HandleFunc, ListenAndServe, ProxiesInv, TypeInv
<1>3. TargetInv'
  BY <1>1 DEF OtherBinds, HandleFunc, ListenAndServe, ProxiesInv, TypeInv, TargetInv, Pending
<1>4. ListInv'
  BY <1>1, ListUntouched DEF ProxiesInv
<1>. QED
  BY <1>2, <1>3, <1>4 DEF ProxiesInv

\* ProxiesInv holds in every state, in whatever order the requests take their steps.
THEOREM ProxiesInvariant == Spec => []ProxiesInv
<1>1. Init => ProxiesInv
  <2>. SUFFICES ASSUME Init
                PROVE  ProxiesInv
    OBVIOUS
  <2>1. <<>> \in Seq(Requests) /\ DOMAIN <<>> = {} /\ Len(<<>>) = 0
    BY EmptySeq, LenProperties
  <2>2. TypeInv
    BY <2>1 DEF Init, TypeInv, Places, Kinds
  <2>3. TargetInv
    BY DEF Init, TargetInv, Pending
  <2>4. Done = {} /\ Listed = {}
    BY <2>1 DEF Init, Done, Listed
  <2>. QED
    BY <2>1, <2>2, <2>3, <2>4, FS_EmptySet DEF Init, ProxiesInv, ListInv
<1>2. ProxiesInv /\ [Next]_vars => ProxiesInv'
  <2>1. ProxiesInv /\ Next => ProxiesInv'
    BY OtherStepsKeepInv, NewDNSProxyKeepsInv, AppendKeepsInv, ForwarderKeepsInv
       DEF Next, StartStep, ForwarderStep
  <2>2. ProxiesInv /\ UNCHANGED vars => ProxiesInv'
    <3>. SUFFICES ASSUME ProxiesInv, UNCHANGED vars
                  PROVE  ProxiesInv'
      OBVIOUS
    <3>1. TypeInv' /\ TargetInv'
      BY DEF ProxiesInv, TypeInv, TargetInv, Pending, vars, startVars, dnsVars
    <3>2. ListInv'
      BY ListUntouched DEF ProxiesInv, vars, startVars
    <3>. QED
      BY <3>1, <3>2 DEF ProxiesInv
  <2>. QED
    BY <2>1, <2>2
<1>. QED
  BY <1>1, <1>2, PTL DEF Spec

(***************************************************************************)
(* The properties                                                          *)
(***************************************************************************)
\* The handler of "." and dnsTarget disagree only while a DNS proxy starts, or
\* after one was started before an earlier one had installed its handler.
THEOREM TargetsAlwaysAgree == Spec => []TargetsAgree
<1>1. ProxiesInv => TargetsAgree
  BY DEF ProxiesInv, TargetInv, TargetsAgree
<1>. QED
  BY <1>1, ProxiesInvariant, PTL

\* server.proxies lists every proxy that was started, once, and no other, unless
\* two appends have overlapped.
THEOREM ListAlwaysComplete == Spec => []ListComplete
<1>1. ProxiesInv => ListComplete
  BY DEF ProxiesInv, ListInv, ListComplete, Done, Listed
<1>. QED
  BY <1>1, ProxiesInvariant, PTL
================================================================================
