------------------------- MODULE DialerRegistryProofs -------------------------
(***************************************************************************)
(* The registry of dialers for any number of requests and connections, and *)
(* for lists of keys and addresses of any length: the proofs of            *)
(* NobodyMeetsNil, KeyKept, AddressesKept and DefaultIsSticky.             *)
(***************************************************************************)
EXTENDS DialerRegistry, FiniteSetTheorems, SequenceTheorems, TLAPS

(***************************************************************************)
(* The types                                                               *)
(***************************************************************************)
Making == {"make", "new", "info", "as_default", "as_ssh", "return"}
KeySteps == {"signers", "append_signers", "auth", "append_auth"}
AddressSteps == {"addresses", "append_addresses"}
Appending == {"append_signers", "append_auth", "append_addresses"}
Steps == Making \cup KeySteps \cup AddressSteps
             \cup {"idle", "connect", "list_keys", "register", "end", "panic", "no_connection"}
Items == STRING
Lists == [signers : Seq(Items), auth : Seq(Items), addresses : Seq(Items)]

\* The requests that have created an SSHDialer if they needed one.
Past == {r \in Requests : pc[r] \notin {"idle", "make", "new"}}

TypeInv ==
    /\ world \in [file : BOOLEAN, clients : Nat]
    /\ knownHosts \in BOOLEAN
    /\ dialers \in [Names -> [type : {"none", "ssh", "socks5"}, impl : Nat]]
    /\ made \in Nat /\ sshDialer \in 0..made
    /\ lists \in [SSHDialers -> Lists]
    /\ pc \in [Requests \cup Conns -> Steps]
    /\ call \in [Requests -> Calls \cup {NoCall}]
    /\ dlr \in [Requests \cup Conns -> Nat] /\ \A r \in Requests : dlr[r] <= made
    /\ buf \in [Requests -> Seq(Items)] /\ todo \in [Requests -> Seq(Items)]

\* What a request asks for is told by its step.
CallInv ==
    \A r \in Requests :
        /\ pc[r] # "idle" => call[r] \in Calls
        /\ pc[r] \in Making => call[r].kind # "socks5"
        /\ pc[r] \in Making \cup KeySteps => todo[r] = call[r].items
        /\ pc[r] \in KeySteps => call[r].kind = "key" /\ Head(call[r].items) \in Valid
        /\ pc[r] \in Appending => dlr[r] # 0 /\ todo[r] # <<>>
        /\ pc[r] \in AddressSteps => call[r].kind = "dialer"
        /\ pc[r] \in {"connect", "list_keys"} => call[r].kind \in {"connect", "keys"}
        /\ pc[r] = "register" => call[r].kind \in {"dialer", "socks5"}

\* There are no more SSHDialers than requests that may have created one.
CountInv == made <= Cardinality(Past)

(***************************************************************************)
(* Nobody meets a nil SSHDialer                                            *)
(***************************************************************************)
\* With the file in place NewSSHDialer always returns a dialer, and the global is
\* never nil again: not for those that have looked at it, nor for those that were
\* given it before.
HasDialer(r) ==
    /\ pc[r] \in {"info", "as_default", "as_ssh", "return"} \cup AddressSteps => sshDialer # 0
    /\ pc[r] = "register" /\ call[r].kind # "socks5" => sshDialer # 0
    /\ pc[r] \in {"as_default", "as_ssh", "connect", "list_keys"} \cup KeySteps
           => dlr[r] # 0
NilInv ==
    world.file =>
        /\ knownHosts
        /\ \A n \in Names : dialers[n] # SSH(0)
        /\ \A g \in Requests \cup Conns : pc[g] # "panic"
        /\ \A r \in Requests : HasDialer(r)

RegistryInv == TypeInv /\ CallInv /\ NilInv

\* append keeps what the list holds and adds the new element.
LEMMA AppendElements ==
    ASSUME NEW S, NEW s \in Seq(S), NEW e \in S
    PROVE  Elements(s) \subseteq Elements(Append(s, e)) /\ e \in Elements(Append(s, e))
<1>1. Len(s) \in Nat /\ Len(Append(s, e)) = Len(s) + 1
  OBVIOUS
<1>2. \A i \in 1..Len(s) : Append(s, e)[i] = s[i]
  OBVIOUS
<1>3. Append(s, e)[Len(s) + 1] = e
  OBVIOUS
<1>. QED
  BY <1>1, <1>2, <1>3 DEF Elements

\* The addresses of a list that can be parsed are counted one by one.
LEMMA CountValid ==
    ASSUME NEW items
    PROVE  /\ ValidUpTo(items, 0) = 0
           /\ \A n \in Nat : /\ ValidUpTo(items, n) \in Nat
                             /\ items[n + 1] \in Valid =>
                                   ValidUpTo(items, n + 1) = ValidUpTo(items, n) + 1
                             /\ items[n + 1] \notin Valid =>
                                   ValidUpTo(items, n + 1) = ValidUpTo(items, n)
           /\ \A n \in Nat : \A m \in 1 .. n :
                 /\ ValidUpTo(items, m) <= ValidUpTo(items, n)
                 /\ items[m] \in Valid => 1 <= ValidUpTo(items, m)
<1>. DEFINE S(n) == {i \in 1 .. n : items[i] \in Valid}
<1>1. ASSUME NEW n \in Nat
      PROVE  IsFiniteSet(S(n)) /\ Cardinality(S(n)) \in Nat
  <2>1. IsFiniteSet(1 .. n)
    BY FS_Interval
  <2>2. S(n) \subseteq 1 .. n
    OBVIOUS
  <2>. QED
    BY <2>1, <2>2, FS_Subset, FS_CardinalityType
<1>2. Cardinality(S(0)) = 0
  <2>1. S(0) = {}
    OBVIOUS
  <2>. QED
    BY <2>1, FS_EmptySet
<1>3. ASSUME NEW n \in Nat
      PROVE  /\ items[n + 1] \in Valid => Cardinality(S(n + 1)) = Cardinality(S(n)) + 1
             /\ items[n + 1] \notin Valid => Cardinality(S(n + 1)) = Cardinality(S(n))
  <2>1. CASE items[n + 1] \in Valid
    <3>1. S(n + 1) = S(n) \cup {n + 1} /\ n + 1 \notin S(n)
      BY <2>1
    <3>. HIDE DEF S
    <3>. QED
      BY <1>1, <2>1, <3>1, FS_AddElement
  <2>2. CASE items[n + 1] \notin Valid
    <3>1. S(n + 1) = S(n)
      BY <2>2
    <3>. HIDE DEF S
    <3>. QED
      BY <2>2, <3>1
  <2>. QED
    BY <2>1, <2>2
<1>4. ASSUME NEW n \in Nat, NEW m \in 1 .. n
      PROVE  /\ Cardinality(S(m)) <= Cardinality(S(n))
             /\ items[m] \in Valid => 1 <= Cardinality(S(m))
  <2>1. S(m) \subseteq S(n) /\ m \in Nat
    OBVIOUS
  <2>2. items[m] \in Valid => m \in S(m)
    OBVIOUS
  <2>. HIDE DEF S
  <2>3. Cardinality(S(m)) <= Cardinality(S(n))
    BY <1>1, <2>1, FS_Subset
  <2>4. ASSUME items[m] \in Valid PROVE Cardinality(S(m)) # 0
    BY <1>1, <2>1, <2>2, <2>4, FS_EmptySet
  <2>. QED
    BY <1>1, <2>1, <2>3, <2>4
<1>5. \A n : ValidUpTo(items, n) = Cardinality(S(n))
  BY DEF ValidUpTo
<1>. HIDE DEF S
<1>. QED
  BY <1>1, <1>2, <1>3, <1>4, <1>5

\* The valid ones of the first n items are in a row in a list, behind its position i.
RowAt(items, n, all, i) ==
    \A m \in 1 .. n : items[m] \in Valid => all[i + ValidUpTo(items, m)] = items[m]
\* They are its last elements, or somewhere in it.
RowAtEnd(items, n, all) ==
    \E i \in Nat : i + ValidUpTo(items, n) = Len(all) /\ RowAt(items, n, all, i)
RowIn(items, n, all) ==
    \E i \in Nat : i + ValidUpTo(items, n) <= Len(all) /\ RowAt(items, n, all, i)

\* A row stays when the list grows, and grows with it.
LEMMA RowStays ==
    ASSUME NEW items, NEW n \in Nat, NEW S, NEW all \in Seq(S), NEW e \in S, NEW i \in Nat,
           i + ValidUpTo(items, n) <= Len(all), RowAt(items, n, all, i)
    PROVE  RowAt(items, n, Append(all, e), i)
<1>. DEFINE new == Append(all, e)
            l == Len(all)
<1>1. l \in Nat /\ \A x \in 1 .. l : new[x] = all[x]
  BY AppendProperties
<1>2. i + ValidUpTo(items, n) <= l
  OBVIOUS
<1>. HIDE DEF new, l
<1>3. ASSUME NEW m \in 1 .. n, items[m] \in Valid
      PROVE  new[i + ValidUpTo(items, m)] = items[m]
  <2>1. /\ m \in Nat /\ ValidUpTo(items, m) \in Nat /\ ValidUpTo(items, n) \in Nat
        /\ ValidUpTo(items, m) <= ValidUpTo(items, n) /\ 1 <= ValidUpTo(items, m)
    BY <1>3, CountValid
  <2>2. i + ValidUpTo(items, m) \in 1 .. l
    BY <1>1, <1>2, <2>1
  <2>. QED
    BY <1>1, <1>3, <2>2 DEF RowAt
<1>. QED
  BY <1>3 DEF RowAt, new

LEMMA RowGrows ==
    ASSUME NEW items, NEW n \in Nat, NEW S, NEW all \in Seq(S), RowAtEnd(items, n, all)
    PROVE  /\ items[n + 1] \notin Valid => RowAtEnd(items, n + 1, all)
           /\ items[n + 1] \in Valid /\ items[n + 1] \in S =>
                 RowAtEnd(items, n + 1, Append(all, items[n + 1]))
<1>1. PICK i \in Nat : i + ValidUpTo(items, n) = Len(all) /\ RowAt(items, n, all, i)
  BY DEF RowAtEnd
<1>2. ValidUpTo(items, n) \in Nat /\ Len(all) \in Nat
  BY CountValid, LenProperties
<1>3. \A m \in 1 .. n + 1 : m \in 1 .. n \/ m = n + 1
  OBVIOUS
<1>4. ASSUME items[n + 1] \notin Valid
      PROVE  RowAtEnd(items, n + 1, all)
  <2>1. ValidUpTo(items, n + 1) = ValidUpTo(items, n)
    BY <1>4, CountValid
  <2>2. RowAt(items, n + 1, all, i)
    BY <1>1, <1>3, <1>4 DEF RowAt
  <2>. QED
    BY <1>1, <2>1, <2>2 DEF RowAtEnd
<1>5. ASSUME items[n + 1] \in Valid, items[n + 1] \in S
      PROVE  RowAtEnd(items, n + 1, Append(all, items[n + 1]))
  <2>. DEFINE new == Append(all, items[n + 1])
              l == Len(all)
  <2>1. Len(new) = l + 1 /\ new[l + 1] = items[n + 1] /\ l \in Nat
    BY <1>5, AppendProperties
  <2>2. RowAt(items, n, new, i)
    BY <1>1, <1>2, <1>5, RowStays
  <2>3. i + ValidUpTo(items, n) = l
    BY <1>1
  <2>. HIDE DEF new, l
  <2>4. ValidUpTo(items, n + 1) = ValidUpTo(items, n) + 1
    BY <1>5, CountValid
  <2>5. i + ValidUpTo(items, n + 1) = l + 1
    BY <1>2, <2>3, <2>4
  <2>6. RowAt(items, n + 1, new, i)
    BY <1>3, <2>1, <2>2, <2>5 DEF RowAt
  <2>7. RowAtEnd(items, n + 1, new)
    BY <2>1, <2>5, <2>6 DEF RowAtEnd
  <2>. QED
    BY <2>7 DEF new
<1>. QED
  BY <1>4, <1>5

USE RegistryAssumption DEF Making, KeySteps, AddressSteps, Appending, Steps

\* The records of the registry differ in their types or in their dialers.
LEMMA DialerRecords ==
    /\ \A d \in Nat : SSH(d) \in [type : {"none", "ssh", "socks5"}, impl : Nat]
    /\ \A d, e \in Nat : SSH(d) = SSH(e) => d = e
    /\ \A d : SSH(d) # NoDialer /\ SSH(d) # Socks5
    /\ {NoDialer, Socks5} \subseteq [type : {"none", "ssh", "socks5"}, impl : Nat]
BY DEF SSH, NoDialer, Socks5

\* What Calls holds.
LEMMA CallRecords ==
    \A c \in Calls : /\ c.kind \in Kinds /\ c.items \in Seq(Items)
                     /\ c.kind = "key" => c.items # <<>>
BY DEF Items

\* Where a request goes on once it has its SSHDialer.
LEMMA FirstSteps ==
    ASSUME NEW c, c.kind \in Kinds \ {"socks5"}
    PROVE  \/ c.kind = "key" /\ FirstStep(c) = "signers" /\ Head(c.items) \in Valid
           \/ c.kind = "key" /\ FirstStep(c) = "end" /\ Head(c.items) \notin Valid
           \/ c.kind = "keys" /\ FirstStep(c) = "list_keys"
           \/ c.kind = "connect" /\ FirstStep(c) = "connect"
           \/ c.kind = "dialer" /\ FirstStep(c) = "addresses"
BY DEF FirstStep, Kinds

\* The requests that have not come to their SSHDialer yet.
LEMMA MakingKeepsInv ==
    ASSUME RegistryInv, NEW r \in Requests,
           Receive(r) \/ MakeSSHDialer(r) \/ NewSSHDialer(r) \/ ChooseName(r)
               \/ RegisterNew(r) \/ ReturnDialer(r)
    PROVE  RegistryInv'
<1>. USE DEF RegistryInv, Goto, Use, host, registry, locals
<1>1. CASE Receive(r)
  <2>1. PICK c \in Calls : /\ call' = [call EXCEPT ![r] = c]
                           /\ todo' = [todo EXCEPT ![r] = c.items]
                           /\ pc' = [pc EXCEPT ![r] = IF c.kind = "socks5" THEN "register" ELSE "make"]
    BY <1>1 DEF Receive
  <2>2. TypeInv'
    BY <1>1, <2>1, CallRecords DEF Receive, TypeInv
  <2>3. CallInv'
    BY <1>1, <2>1 DEF Receive, TypeInv, CallInv
  <2>4. NilInv'
    BY <1>1, <2>1 DEF Receive, TypeInv, CallInv, NilInv, HasDialer
  <2>. QED
    BY <2>2, <2>3, <2>4
<1>2. CASE MakeSSHDialer(r)
  <2>1. TypeInv'
    BY <1>2 DEF MakeSSHDialer, TypeInv
  <2>2. CallInv'
    BY <1>2 DEF MakeSSHDialer, TypeInv, CallInv
  <2>3. NilInv'
    BY <1>2 DEF MakeSSHDialer, DialerNeeded, TypeInv, NilInv, HasDialer
  <2>. QED
    BY <2>1, <2>2, <2>3
<1>3. CASE NewSSHDialer(r)
  <2>1. TypeInv'
    BY <1>3 DEF NewSSHDialer, TypeInv
  <2>2. CallInv'
    BY <1>3 DEF NewSSHDialer, TypeInv, CallInv
  <2>3. NilInv'
    BY <1>3 DEF NewSSHDialer, FileLoads, TypeInv, NilInv, HasDialer
  <2>. QED
    BY <2>1, <2>2, <2>3
<1>4. CASE ChooseName(r)
  <2>1. TypeInv'
    BY <1>4 DEF ChooseName, TypeInv
  <2>2. CallInv'
    BY <1>4 DEF ChooseName, TypeInv, CallInv
  <2>3. NilInv'
    <3>1. /\ pc[r] = "info" /\ dlr' = [dlr EXCEPT ![r] = sshDialer]
          /\ \E to \in {"as_default", "as_ssh"} : pc' = [pc EXCEPT ![r] = to]
      BY <1>4 DEF ChooseName
    <3>2. \A g \in Requests \cup Conns : pc'[g] = pc[g] \/ pc'[g] \in {"as_default", "as_ssh"}
      BY <3>1 DEF TypeInv
    <3>3. ASSUME world.file, NEW q \in Requests
          PROVE  HasDialer(q)'
      BY <1>4, <3>1, <3>3 DEF ChooseName, TypeInv, NilInv, HasDialer
    <3>. QED
      BY <1>4, <3>2, <3>3 DEF ChooseName, NilInv
  <2>. QED
    BY <2>1, <2>2, <2>3
<1>5. CASE RegisterNew(r)
  <2>1. /\ pc[r] \in {"as_default", "as_ssh"} /\ pc' = [pc EXCEPT ![r] = "return"]
        /\ \E n \in Names : dialers' = [dialers EXCEPT ![n] = SSH(dlr[r])]
    BY <1>5 DEF RegisterNew
  <2>2. TypeInv'
    <3>1. SSH(dlr[r]) \in [type : {"none", "ssh", "socks5"}, impl : Nat]
      BY DialerRecords DEF TypeInv
    <3>. QED
      BY <1>5, <2>1, <3>1 DEF RegisterNew, TypeInv
  <2>3. CallInv'
    BY <1>5, <2>1 DEF RegisterNew, TypeInv, CallInv
  <2>4. NilInv'
    <3>1. world.file => SSH(dlr[r]) # SSH(0)
      BY <2>1, DialerRecords DEF TypeInv, NilInv, HasDialer
    <3>2. world.file => \A n \in Names : dialers'[n] # SSH(0)
      BY <2>1, <3>1 DEF TypeInv, NilInv, HasDialer
    <3>. QED
      BY <1>5, <2>1, <3>2 DEF RegisterNew, TypeInv, NilInv, HasDialer
  <2>. QED
    BY <2>2, <2>3, <2>4
<1>6. CASE ReturnDialer(r)
  <2>1. /\ call[r].kind \in Kinds \ {"socks5"}
        /\ pc' = [pc EXCEPT ![r] = FirstStep(call[r])] /\ dlr' = [dlr EXCEPT ![r] = sshDialer]
    BY <1>6, CallRecords DEF ReturnDialer, CallInv
  <2>2. \/ call[r].kind = "key" /\ FirstStep(call[r]) = "signers" /\ Head(call[r].items) \in Valid
        \/ FirstStep(call[r]) = "end"
        \/ call[r].kind = "keys" /\ FirstStep(call[r]) = "list_keys"
        \/ call[r].kind = "connect" /\ FirstStep(call[r]) = "connect"
        \/ call[r].kind = "dialer" /\ FirstStep(call[r]) = "addresses"
    BY <2>1, FirstSteps
  <2>3. TypeInv'
    BY <1>6, <2>1, <2>2 DEF ReturnDialer, TypeInv
  <2>4. CallInv'
    BY <1>6, <2>1, <2>2 DEF ReturnDialer, TypeInv, CallInv
  <2>5. NilInv'
    <3>1. FirstStep(call[r]) \in {"signers", "end", "list_keys", "connect", "addresses"}
      BY <2>2
    <3>2. \A g \in Requests \cup Conns : pc'[g] = pc[g] \/ pc'[g] # "panic"
      BY <2>1, <3>1 DEF TypeInv
    <3>3. ASSUME world.file, NEW q \in Requests
          PROVE  HasDialer(q)'
      BY <1>6, <2>1, <3>1, <3>3 DEF ReturnDialer, TypeInv, NilInv, HasDialer
    <3>. QED
      BY <1>6, <3>2, <3>3 DEF ReturnDialer, NilInv
  <2>. QED
    BY <2>3, <2>4, <2>5
<1>. QED
  BY <1>1, <1>2, <1>3, <1>4, <1>5, <1>6

\* The requests that have come to their SSHDialer.
LEMMA UsingKeepsInv ==
    ASSUME RegistryInv, \A d \in 1..made : d \in SSHDialers, NEW r \in Requests,
           LoadSigners(r) \/ StoreSigners(r) \/ LoadAuth(r) \/ StoreAuth(r)
               \/ LoadAddresses(r) \/ StoreAddress(r) \/ SkipAddress(r) \/ AllAdded(r)
               \/ Register(r) \/ UseDialer(r)
    PROVE  RegistryInv'
<1>. USE DEF RegistryInv, Goto, Use, host, registry, locals
<1>0. pc[r] \in Making \cup KeySteps => todo[r] # <<>> \/ call[r].kind # "key"
  BY CallRecords DEF CallInv
<1>1. CASE LoadSigners(r)
  <2>1. CASE dlr[r] = 0
    <3>1. /\ pc[r] = "signers" /\ pc' = [pc EXCEPT ![r] = "panic"]
          /\ UNCHANGED <<world, knownHosts, dialers, sshDialer, made, lists, call, dlr, buf,
                         todo>>
      BY <1>1, <2>1 DEF LoadSigners, Load
    <3>2. TypeInv'
      BY <3>1 DEF TypeInv
    <3>3. CallInv'
      BY <3>1 DEF TypeInv, CallInv
    <3>4. ~world.file
      BY <2>1, <3>1 DEF NilInv, HasDialer
    <3>. QED
      BY <3>1, <3>2, <3>3, <3>4 DEF NilInv
  <2>2. CASE dlr[r] # 0
    <3>1. dlr[r] \in SSHDialers
      BY <2>2 DEF TypeInv
    <3>2. lists[dlr[r]]["signers"] \in Seq(Items)
      BY <3>1 DEF TypeInv, Lists
    <3>3. /\ pc[r] = "signers" /\ pc' = [pc EXCEPT ![r] = "append_signers"]
          /\ dlr' = [dlr EXCEPT ![r] = dlr[r]]
          /\ buf' = [buf EXCEPT ![r] = lists[dlr[r]]["signers"]]
          /\ UNCHANGED <<world, knownHosts, dialers, sshDialer, made, lists, call, todo>>
      BY <1>1, <2>2 DEF LoadSigners, Load
    <3>4. TypeInv'
      BY <3>2, <3>3 DEF TypeInv
    <3>5. CallInv'
      BY <1>1, <1>0, <2>2, <3>3 DEF LoadSigners, TypeInv, CallInv
    <3>6. NilInv'
      BY <2>2, <3>3 DEF TypeInv, NilInv, HasDialer
    <3>. QED
      BY <3>4, <3>5, <3>6
  <2>. QED
    BY <2>1, <2>2
<1>2. CASE StoreSigners(r)
  <2>1. /\ pc[r] = "append_signers" /\ pc' = [pc EXCEPT ![r] = "auth"]
        /\ lists' = [lists EXCEPT ![dlr[r]]["signers"] = Append(buf[r], Head(todo[r]))]
        /\ buf' = [buf EXCEPT ![r] = <<>>]
        /\ todo' = todo
        /\ UNCHANGED <<world, knownHosts, dialers, sshDialer, made, call, dlr>>
    BY <1>2 DEF StoreSigners, Store
  <2>2. dlr[r] \in SSHDialers /\ todo[r] # <<>>
    BY <2>1 DEF TypeInv, CallInv
  <2>3. Append(buf[r], Head(todo[r])) \in Seq(Items) /\ <<>> \in Seq(Items)
        /\ Tail(todo[r]) \in Seq(Items)
    BY <2>2, AppendProperties, HeadTailProperties, EmptySeq DEF TypeInv
  <2>4. lists' \in [SSHDialers -> Lists]
    <3>1. lists \in [SSHDialers -> Lists]
      BY DEF TypeInv
    <3> DEFINE new == [lists[dlr[r]] EXCEPT !["signers"] = Append(buf[r], Head(todo[r]))]
    <3>2. lists[dlr[r]] \in Lists
      BY <2>2, <3>1
    <3>3. new \in Lists
      BY <2>3, <3>2 DEF Lists
    <3>4. lists' = [lists EXCEPT ![dlr[r]] = new]
      BY <2>1
    <3>. HIDE DEF new
    <3>. QED
      BY <2>2, <3>1, <3>3, <3>4
  <2>5. TypeInv'
    BY <2>1, <2>3, <2>4 DEF TypeInv
  <2>6. CallInv'
    BY <2>1 DEF TypeInv, CallInv
  <2>7. NilInv'
    BY <2>1 DEF TypeInv, NilInv, HasDialer
  <2>. QED
    BY <2>5, <2>6, <2>7
<1>3. CASE LoadAuth(r)
  <2>1. CASE dlr[r] = 0
    <3>1. /\ pc[r] = "auth" /\ pc' = [pc EXCEPT ![r] = "panic"]
          /\ UNCHANGED <<world, knownHosts, dialers, sshDialer, made, lists, call, dlr, buf,
                         todo>>
      BY <1>3, <2>1 DEF LoadAuth, Load
    <3>2. TypeInv'
      BY <3>1 DEF TypeInv
    <3>3. CallInv'
      BY <3>1 DEF TypeInv, CallInv
    <3>4. ~world.file
      BY <2>1, <3>1 DEF NilInv, HasDialer
    <3>. QED
      BY <3>1, <3>2, <3>3, <3>4 DEF NilInv
  <2>2. CASE dlr[r] # 0
    <3>1. dlr[r] \in SSHDialers
      BY <2>2 DEF TypeInv
    <3>2. lists[dlr[r]]["auth"] \in Seq(Items)
      BY <3>1 DEF TypeInv, Lists
    <3>3. /\ pc[r] = "auth" /\ pc' = [pc EXCEPT ![r] = "append_auth"]
          /\ dlr' = [dlr EXCEPT ![r] = dlr[r]]
          /\ buf' = [buf EXCEPT ![r] = lists[dlr[r]]["auth"]]
          /\ UNCHANGED <<world, knownHosts, dialers, sshDialer, made, lists, call, todo>>
      BY <1>3, <2>2 DEF LoadAuth, Load
    <3>4. TypeInv'
      BY <3>2, <3>3 DEF TypeInv
    <3>5. CallInv'
      BY <1>3, <1>0, <2>2, <3>3 DEF LoadAuth, TypeInv, CallInv
    <3>6. NilInv'
      BY <2>2, <3>3 DEF TypeInv, NilInv, HasDialer
    <3>. QED
      BY <3>4, <3>5, <3>6
  <2>. QED
    BY <2>1, <2>2
<1>4. CASE StoreAuth(r)
  <2>1. /\ pc[r] = "append_auth" /\ pc' = [pc EXCEPT ![r] = "end"]
        /\ lists' = [lists EXCEPT ![dlr[r]]["auth"] = Append(buf[r], Head(todo[r]))]
        /\ buf' = [buf EXCEPT ![r] = <<>>]
        /\ todo' = todo
        /\ UNCHANGED <<world, knownHosts, dialers, sshDialer, made, call, dlr>>
    BY <1>4 DEF StoreAuth, Store
  <2>2. dlr[r] \in SSHDialers /\ todo[r] # <<>>
    BY <2>1 DEF TypeInv, CallInv
  <2>3. Append(buf[r], Head(todo[r])) \in Seq(Items) /\ <<>> \in Seq(Items)
        /\ Tail(todo[r]) \in Seq(Items)
    BY <2>2, AppendProperties, HeadTailProperties, EmptySeq DEF TypeInv
  <2>4. lists' \in [SSHDialers -> Lists]
    <3>1. lists \in [SSHDialers -> Lists]
      BY DEF TypeInv
    <3> DEFINE new == [lists[dlr[r]] EXCEPT !["auth"] = Append(buf[r], Head(todo[r]))]
    <3>2. lists[dlr[r]] \in Lists
      BY <2>2, <3>1
    <3>3. new \in Lists
      BY <2>3, <3>2 DEF Lists
    <3>4. lists' = [lists EXCEPT ![dlr[r]] = new]
      BY <2>1
    <3>. HIDE DEF new
    <3>. QED
      BY <2>2, <3>1, <3>3, <3>4
  <2>5. TypeInv'
    BY <2>1, <2>3, <2>4 DEF TypeInv
  <2>6. CallInv'
    BY <2>1 DEF TypeInv, CallInv
  <2>7. NilInv'
    BY <2>1 DEF TypeInv, NilInv, HasDialer
  <2>. QED
    BY <2>5, <2>6, <2>7
<1>5. CASE LoadAddresses(r)
  <2>1. CASE sshDialer = 0
    <3>1. /\ pc[r] = "addresses" /\ pc' = [pc EXCEPT ![r] = "panic"]
          /\ UNCHANGED <<world, knownHosts, dialers, sshDialer, made, lists, call, dlr, buf, todo>>
      BY <1>5, <2>1 DEF LoadAddresses, Load
    <3>2. TypeInv' /\ CallInv'
      BY <3>1 DEF TypeInv, CallInv
    <3>3. NilInv'
      BY <2>1, <3>1 DEF NilInv, HasDialer
    <3>. QED
      BY <3>2, <3>3
  <2>2. CASE sshDialer # 0
    <3>1. sshDialer \in SSHDialers
      BY <2>2 DEF TypeInv
    <3>2. lists[sshDialer]["addresses"] \in Seq(Items)
      BY <3>1 DEF TypeInv, Lists
    <3>3. /\ pc[r] = "addresses" /\ pc' = [pc EXCEPT ![r] = "append_addresses"]
          /\ dlr' = [dlr EXCEPT ![r] = sshDialer]
          /\ buf' = [buf EXCEPT ![r] = lists[sshDialer]["addresses"]]
          /\ UNCHANGED <<world, knownHosts, dialers, sshDialer, made, lists, call, todo>>
      BY <1>5, <2>2 DEF LoadAddresses, Load
    <3>4. TypeInv'
      BY <3>2, <3>3 DEF TypeInv
    <3>5. CallInv'
      BY <1>5, <1>0, <2>2, <3>3 DEF LoadAddresses, TypeInv, CallInv
    <3>6. NilInv'
      BY <2>2, <3>3 DEF TypeInv, NilInv, HasDialer
    <3>. QED
      BY <3>4, <3>5, <3>6
  <2>. QED
    BY <2>1, <2>2
<1>6. CASE StoreAddress(r)
  <2>1. /\ pc[r] = "append_addresses" /\ pc' = [pc EXCEPT ![r] = "addresses"]
        /\ lists' = [lists EXCEPT ![dlr[r]]["addresses"] = Append(buf[r], Head(todo[r]))]
        /\ buf' = [buf EXCEPT ![r] = <<>>]
        /\ todo' = [todo EXCEPT ![r] = Tail(todo[r])]
        /\ UNCHANGED <<world, knownHosts, dialers, sshDialer, made, call, dlr>>
    BY <1>6 DEF StoreAddress, Store, NextAddress, Rest
  <2>2. dlr[r] \in SSHDialers /\ todo[r] # <<>>
    BY <2>1 DEF TypeInv, CallInv
  <2>3. Append(buf[r], Head(todo[r])) \in Seq(Items) /\ <<>> \in Seq(Items)
        /\ Tail(todo[r]) \in Seq(Items)
    BY <2>2, AppendProperties, HeadTailProperties, EmptySeq DEF TypeInv
  <2>4. lists' \in [SSHDialers -> Lists]
    <3>1. lists \in [SSHDialers -> Lists]
      BY DEF TypeInv
    <3> DEFINE new == [lists[dlr[r]] EXCEPT !["addresses"] = Append(buf[r], Head(todo[r]))]
    <3>2. lists[dlr[r]] \in Lists
      BY <2>2, <3>1
    <3>3. new \in Lists
      BY <2>3, <3>2 DEF Lists
    <3>4. lists' = [lists EXCEPT ![dlr[r]] = new]
      BY <2>1
    <3>. HIDE DEF new
    <3>. QED
      BY <2>2, <3>1, <3>3, <3>4
  <2>5. TypeInv'
    BY <2>1, <2>3, <2>4 DEF TypeInv
  <2>6. CallInv'
    BY <2>1 DEF TypeInv, CallInv
  <2>7. NilInv'
    BY <2>1 DEF TypeInv, NilInv, HasDialer
  <2>. QED
    BY <2>5, <2>6, <2>7
<1>7. CASE SkipAddress(r)
  <2>1. Tail(todo[r]) \in Seq(Items)
    BY <1>7, HeadTailProperties DEF SkipAddress, TypeInv
  <2>. QED
    BY <1>7, <2>1 DEF SkipAddress, NextAddress, Rest, TypeInv, CallInv, NilInv, HasDialer
<1>8. CASE AllAdded(r)
  BY <1>8 DEF AllAdded, TypeInv, CallInv, NilInv, HasDialer
<1>9. CASE Register(r)
  <2>. DEFINE new == IF call[r].kind = "socks5" THEN Socks5 ELSE SSH(sshDialer)
  <2>1. /\ pc[r] = "register" /\ pc' = [pc EXCEPT ![r] = "end"]
        /\ dialers' = [dialers EXCEPT !["default"] = new]
        /\ UNCHANGED <<world, knownHosts, sshDialer, made, lists, call, dlr, buf, todo>>
    BY <1>9 DEF Register
  <2>2. new \in [type : {"none", "ssh", "socks5"}, impl : Nat]
    <3>1. sshDialer \in Nat
      BY DEF TypeInv
    <3>2. SSH(sshDialer) \in [type : {"none", "ssh", "socks5"}, impl : Nat]
      BY <3>1, DialerRecords
    <3>. QED
      BY <3>2, DialerRecords
  <2>3. world.file => new # SSH(0)
    <3>1. CASE call[r].kind = "socks5"
      BY <3>1, DialerRecords
    <3>2. CASE call[r].kind # "socks5"
      <4>1. world.file => sshDialer # 0
        BY <2>1, <3>2 DEF NilInv, HasDialer
      <4>. QED
        BY <3>2, <4>1, DialerRecords DEF TypeInv
    <3>. QED
      BY <3>1, <3>2
  <2>. HIDE DEF new
  <2>4. TypeInv' /\ CallInv'
    BY <2>1, <2>2 DEF TypeInv, CallInv
  <2>5. NilInv'
    BY <2>1, <2>3 DEF TypeInv, NilInv, HasDialer
  <2>. QED
    BY <2>4, <2>5
<1>10. CASE UseDialer(r)
  BY <1>10 DEF UseDialer, TypeInv, CallInv, NilInv, HasDialer
<1>. QED
  BY <1>1, <1>2, <1>3, <1>4, <1>5, <1>6, <1>7, <1>8, <1>9, <1>10

\* What a request was given is one of the dialers that requests can create.
LEMMA MadeAreDialers == TypeInv /\ CountInv => \A d \in 1..made : d \in SSHDialers
<1>. SUFFICES ASSUME TypeInv, CountInv
              PROVE  \A d \in 1..made : d \in SSHDialers
  OBVIOUS
<1>1. Past \subseteq Requests
  BY DEF Past
<1>2. Cardinality(Past) <= Cardinality(Requests) /\ Cardinality(Past) \in Nat
      /\ Cardinality(Requests) \in Nat
  BY <1>1, FS_Subset, FS_CardinalityType
<1>. QED
  BY <1>2 DEF TypeInv, CountInv, SSHDialers

\* An SSHDialer is created by a request that leaves the step "new" for good.
LEMMA CountKept ==
    ASSUME TypeInv, CallInv, CountInv, [Next]_vars
    PROVE  CountInv'
<1>. USE DEF Goto, Use, host, registry, locals
<1>1. IsFiniteSet(Requests) /\ Past \subseteq Requests /\ Past' \subseteq Requests
  BY DEF Past
<1>2. /\ IsFiniteSet(Past) /\ IsFiniteSet(Past')
      /\ Cardinality(Past) \in Nat /\ Cardinality(Past') \in Nat
  BY <1>1, FS_Subset, FS_CardinalityType
<1>3. ASSUME NEW r \in Requests, NewSSHDialer(r)
      PROVE  CountInv'
  <2>1. Past' = Past \cup {r} /\ r \notin Past
    BY <1>3 DEF NewSSHDialer, Past, TypeInv
  <2>2. Cardinality(Past') = Cardinality(Past) + 1
    BY <1>2, <2>1, FS_AddElement
  <2>. QED
    BY <1>2, <1>3, <2>2 DEF NewSSHDialer, CountInv, TypeInv
<1>4. ASSUME made' = made, Past \subseteq Past'
      PROVE  CountInv'
  <2>1. Cardinality(Past) <= Cardinality(Past')
    BY <1>2, <1>4, FS_Subset
  <2>. QED
    BY <1>2, <1>4, <2>1 DEF CountInv, TypeInv
<1>5. CASE CreateKnownHosts \/ UNCHANGED vars
  BY <1>4, <1>5 DEF CreateKnownHosts, vars, Past
<1>6. ASSUME NEW g \in Conns, Dial(g)
      PROVE  CountInv'
  BY <1>4, <1>6 DEF Dial, Past, TypeInv
<1>7. ASSUME NEW r \in Requests, RequestNext(r), ~NewSSHDialer(r)
      PROVE  CountInv'
  <2>1. made' = made
    BY <1>7 DEF RequestNext, Receive, MakeSSHDialer, ChooseName, RegisterNew, ReturnDialer,
                LoadSigners, StoreSigners, LoadAuth, StoreAuth, LoadAddresses, StoreAddress,
                Load, Store, SkipAddress, AllAdded, Register, UseDialer
  <2>2. \A q \in Requests \ {r} : pc'[q] = pc[q]
    BY <1>7 DEF RequestNext, Receive, MakeSSHDialer, ChooseName, RegisterNew, ReturnDialer,
                LoadSigners, StoreSigners, LoadAuth, StoreAuth, LoadAddresses, StoreAddress,
                Load, Store, SkipAddress, AllAdded, Register, UseDialer, TypeInv
  <2>3. ASSUME pc[r] \notin {"idle", "make", "new"}
        PROVE  pc'[r] \notin {"idle", "make", "new"}
    <3>1. CASE ReturnDialer(r)
      <4>1. call[r].kind \in Kinds \ {"socks5"}
        BY <3>1, CallRecords DEF ReturnDialer, CallInv
      <4>2. FirstStep(call[r]) \notin {"idle", "make", "new"}
        BY <4>1, FirstSteps
      <4>. QED
        BY <3>1, <4>2 DEF ReturnDialer, TypeInv
    <3>2. CASE ~ReturnDialer(r)
      BY <1>7, <2>3, <3>2
         DEF RequestNext, Receive, MakeSSHDialer, ChooseName, RegisterNew,
             LoadSigners, StoreSigners, LoadAuth, StoreAuth, LoadAddresses, StoreAddress,
             Load, Store, SkipAddress, AllAdded, Register, UseDialer, TypeInv
    <3>. QED
      BY <3>1, <3>2
  <2>. QED
    BY <1>4, <2>1, <2>2, <2>3 DEF Past
<1>. QED
  BY <1>3, <1>5, <1>6, <1>7 DEF Next

\* Connections, and the file that appears.
LEMMA OthersKeepInv ==
    ASSUME RegistryInv, CreateKnownHosts \/ (\E g \in Conns : Dial(g)) \/ UNCHANGED vars
    PROVE  RegistryInv'
<1>. USE DEF RegistryInv, Goto, Use, host, registry, locals
<1>1. CASE CreateKnownHosts
  BY <1>1 DEF CreateKnownHosts, TypeInv, CallInv, NilInv, HasDialer
<1>2. ASSUME NEW g \in Conns, Dial(g)
      PROVE  RegistryInv'
  <2>1. PICK n \in Names :
            /\ dlr' = [dlr EXCEPT ![g] = dialers[n].impl]
            /\ pc' = [pc EXCEPT ![g] = IF dialers[n] = NoDialer THEN "no_connection"
                                       ELSE IF dialers[n] = SSH(0) THEN "panic" ELSE "end"]
    BY <1>2 DEF Dial
  <2>2. /\ \A r \in Requests : pc'[r] = pc[r] /\ dlr'[r] = dlr[r]
        /\ UNCHANGED <<world, knownHosts, dialers, sshDialer, made, lists, call, buf, todo>>
    BY <1>2, <2>1 DEF Dial, TypeInv
  <2>3. dialers[n].impl \in Nat
    BY DEF TypeInv
  <2>4. TypeInv'
    BY <2>1, <2>2, <2>3 DEF TypeInv
  <2>5. CallInv'
    BY <2>2 DEF CallInv
  <2>6. NilInv'
    BY <2>1, <2>2 DEF TypeInv, NilInv, HasDialer
  <2>. QED
    BY <2>4, <2>5, <2>6
<1>3. CASE UNCHANGED vars
  BY <1>3 DEF vars, TypeInv, CallInv, NilInv, HasDialer
<1>. QED
  BY <1>1, <1>2, <1>3

\* RegistryInv holds in every state.
THEOREM RegistryInvariant == Spec => [](RegistryInv /\ CountInv)
<1>1. Init => RegistryInv /\ CountInv
  <2>. SUFFICES ASSUME Init
                PROVE  RegistryInv /\ CountInv
    OBVIOUS
  <2>1. <<>> \in Seq(Items)
    BY EmptySeq
  <2>2. [signers |-> <<>>, auth |-> <<>>, addresses |-> <<>>] \in Lists
    BY <2>1 DEF Lists
  <2>3. TypeInv
    BY <2>1, <2>2, DialerRecords DEF Init, TypeInv
  <2>4. CallInv /\ NilInv
    BY DialerRecords DEF Init, CallInv, NilInv, HasDialer
  <2>5. Past = {}
    BY DEF Init, Past
  <2>. QED
    BY <2>3, <2>4, <2>5, FS_EmptySet DEF Init, RegistryInv, CountInv
<1>2. RegistryInv /\ CountInv /\ [Next]_vars => RegistryInv' /\ CountInv'
  <2>. SUFFICES ASSUME RegistryInv, CountInv, [Next]_vars
                PROVE  RegistryInv' /\ CountInv'
    OBVIOUS
  <2>1. CountInv'
    BY CountKept DEF RegistryInv
  <2>2. \A d \in 1..made : d \in SSHDialers
    BY MadeAreDialers DEF RegistryInv
  <2>3. ASSUME NEW r \in Requests, RequestNext(r)
        PROVE  RegistryInv'
    BY <2>2, <2>3, MakingKeepsInv, UsingKeepsInv DEF RequestNext
  <2>4. RegistryInv'
    BY <2>3, OthersKeepInv DEF Next
  <2>. QED
    BY <2>1, <2>4
<1>. QED
  BY <1>1, <1>2, PTL DEF Spec

\* With known_hosts in place from the start neither a request nor a connection
\* meets a nil SSHDialer, however many of them overlap.
THEOREM NobodyEverMeetsNil == Spec => []NobodyMeetsNil
<1>1. RegistryInv => NobodyMeetsNil
  BY DEF RegistryInv, NilInv, NobodyMeetsNil
<1>. QED
  BY <1>1, RegistryInvariant, PTL

(***************************************************************************)
(* Requests that follow one another                                        *)
(***************************************************************************)
\* What the one request that is at work has seen is still so: there is no dialer
\* while it creates one, no default while it registers one, and the list that it
\* has loaded is the list of the dialer that will connect.
OwnInv(r) ==
    /\ pc[r] = "new" => sshDialer = 0
    /\ pc[r] = "as_default" => dialers["default"] = NoDialer
    /\ pc[r] \in KeySteps => dlr[r] = sshDialer
    /\ pc[r] = "append_signers" => buf[r] = lists[sshDialer].signers
    /\ pc[r] = "append_auth" => buf[r] = lists[sshDialer].auth
    /\ pc[r] \in {"auth", "append_auth"} =>
          /\ sshDialer # 0
          /\ Head(call[r].items) \in Elements(lists[sshDialer].signers)

\* KeyKept of one request.
OwnKeyKept(r) ==
    Done(r, "key") /\ Head(call[r].items) \in Valid =>
        /\ sshDialer # 0
        /\ Head(call[r].items) \in Elements(lists[sshDialer].auth)
        /\ Head(call[r].items) \in Elements(lists[sshDialer].signers)

SerialInv ==
    OneAtATime =>
        /\ \A r, q \in AtWork : r = q
        /\ \A r \in Requests : OwnInv(r) /\ OwnKeyKept(r)

\* The dialer that will connect stays, and so do its keys.
KeysStay ==
    sshDialer # 0 =>
        /\ sshDialer' = sshDialer
        /\ Elements(lists[sshDialer].auth) \subseteq Elements(lists'[sshDialer].auth)
        /\ Elements(lists[sshDialer].signers) \subseteq Elements(lists'[sshDialer].signers)

\* A step of the one request at work: it keeps what it knows, and adds to the lists.
LEMMA OwnKept ==
    ASSUME RegistryInv, \A d \in 1..made : d \in SSHDialers, NEW r \in Requests, RequestNext(r),
           OwnInv(r), OwnKeyKept(r)
    PROVE  OwnInv(r)' /\ OwnKeyKept(r)' /\ KeysStay
<1>. USE DEF Goto, Use, host, registry, locals, OwnInv, OwnKeyKept, KeysStay, Done
<1>1. CASE Receive(r) \/ MakeSSHDialer(r) \/ ChooseName(r) \/ RegisterNew(r)
  BY <1>1 DEF Receive, MakeSSHDialer, ChooseName, RegisterNew, DialerNeeded, DefaultFree,
              RegistryInv, TypeInv
<1>2. CASE NewSSHDialer(r)
  BY <1>2 DEF NewSSHDialer, RegistryInv, TypeInv
<1>3. CASE ReturnDialer(r)
  <2>1. call[r].kind \in Kinds \ {"socks5"}
    BY <1>3, CallRecords DEF ReturnDialer, RegistryInv, CallInv
  <2>2. /\ pc'[r] \in {"signers", "end", "list_keys", "connect", "addresses"}
        /\ pc'[r] = "end" => call[r].kind = "key" /\ Head(call[r].items) \notin Valid
        /\ dlr'[r] = sshDialer
        /\ UNCHANGED <<sshDialer, lists, call>>
    BY <1>3, <2>1, FirstSteps DEF ReturnDialer, RegistryInv, TypeInv
  <2>. QED
    BY <2>2
<1>4. CASE LoadSigners(r) \/ LoadAuth(r)
  BY <1>4 DEF LoadSigners, LoadAuth, Load, RegistryInv, TypeInv
<1>5. CASE StoreSigners(r)
  <2>1. /\ pc[r] = "append_signers" /\ pc'[r] = "auth"
        /\ lists' = [lists EXCEPT ![dlr[r]]["signers"] = Append(buf[r], Head(todo[r]))]
        /\ UNCHANGED <<sshDialer, call, dlr>>
    BY <1>5 DEF StoreSigners, Store, RegistryInv, TypeInv
  <2>2. /\ dlr[r] = sshDialer /\ sshDialer # 0 /\ sshDialer \in SSHDialers
        /\ todo[r] = call[r].items /\ todo[r] # <<>>
        /\ buf[r] = lists[sshDialer].signers
    BY <2>1 DEF RegistryInv, TypeInv, CallInv
  <2>3. buf[r] \in Seq(Items) /\ Head(todo[r]) \in Items
    BY <2>2, HeadTailProperties DEF RegistryInv, TypeInv
  <2>4. /\ lists'[sshDialer].signers = Append(buf[r], Head(todo[r]))
        /\ lists'[sshDialer].auth = lists[sshDialer].auth
    <3>1. Append(buf[r], Head(todo[r])) \in Seq(Items) /\ lists \in [SSHDialers -> Lists]
      BY <2>3, AppendProperties DEF RegistryInv, TypeInv
    <3> DEFINE new == [lists[sshDialer] EXCEPT !["signers"] = Append(buf[r], Head(todo[r]))]
    <3>2. lists[sshDialer] \in Lists
      BY <2>2, <3>1
    <3>3. new.signers = Append(buf[r], Head(todo[r])) /\ new.auth = lists[sshDialer].auth
      BY <3>2 DEF Lists
    <3>4. lists' = [lists EXCEPT ![sshDialer] = new]
      BY <2>1, <2>2
    <3>. HIDE DEF new
    <3>5. lists'[sshDialer] = new
      BY <2>2, <3>1, <3>4
    <3>. QED
      BY <3>3, <3>5
  <2>5. /\ Elements(buf[r]) \subseteq Elements(Append(buf[r], Head(todo[r])))
        /\ Head(todo[r]) \in Elements(Append(buf[r], Head(todo[r])))
    BY <2>3, AppendElements
  <2>. QED
    BY <2>1, <2>2, <2>4, <2>5
<1>6. CASE StoreAuth(r)
  <2>1. /\ pc[r] = "append_auth" /\ pc'[r] = "end"
        /\ lists' = [lists EXCEPT ![dlr[r]]["auth"] = Append(buf[r], Head(todo[r]))]
        /\ UNCHANGED <<sshDialer, call, dlr>>
    BY <1>6 DEF StoreAuth, Store, RegistryInv, TypeInv
  <2>2. /\ dlr[r] = sshDialer /\ sshDialer # 0 /\ sshDialer \in SSHDialers
        /\ todo[r] = call[r].items /\ todo[r] # <<>>
        /\ buf[r] = lists[sshDialer].auth
    BY <2>1 DEF RegistryInv, TypeInv, CallInv
  <2>3. buf[r] \in Seq(Items) /\ Head(todo[r]) \in Items
    BY <2>2, HeadTailProperties DEF RegistryInv, TypeInv
  <2>4. /\ lists'[sshDialer].auth = Append(buf[r], Head(todo[r]))
        /\ lists'[sshDialer].signers = lists[sshDialer].signers
    <3>1. Append(buf[r], Head(todo[r])) \in Seq(Items) /\ lists \in [SSHDialers -> Lists]
      BY <2>3, AppendProperties DEF RegistryInv, TypeInv
    <3> DEFINE new == [lists[sshDialer] EXCEPT !["auth"] = Append(buf[r], Head(todo[r]))]
    <3>2. lists[sshDialer] \in Lists
      BY <2>2, <3>1
    <3>3. new.auth = Append(buf[r], Head(todo[r])) /\ new.signers = lists[sshDialer].signers
      BY <3>2 DEF Lists
    <3>4. lists' = [lists EXCEPT ![sshDialer] = new]
      BY <2>1, <2>2
    <3>. HIDE DEF new
    <3>5. lists'[sshDialer] = new
      BY <2>2, <3>1, <3>4
    <3>. QED
      BY <3>3, <3>5
  <2>5. /\ Elements(buf[r]) \subseteq Elements(Append(buf[r], Head(todo[r])))
        /\ Head(todo[r]) \in Elements(Append(buf[r], Head(todo[r])))
    BY <2>3, AppendElements
  <2>. QED
    BY <2>1, <2>2, <2>4, <2>5
<1>7. CASE StoreAddress(r)
  <2>1. /\ pc'[r] = "addresses"
        /\ lists' = [lists EXCEPT ![dlr[r]]["addresses"] = Append(buf[r], Head(todo[r]))]
        /\ UNCHANGED <<sshDialer, call, dlr>>
    BY <1>7 DEF StoreAddress, Store, RegistryInv, TypeInv
  <2>2. sshDialer # 0 => /\ lists'[sshDialer].auth = lists[sshDialer].auth
                         /\ lists'[sshDialer].signers = lists[sshDialer].signers
    BY <2>1 DEF RegistryInv, TypeInv, Lists
  <2>. QED
    BY <2>1, <2>2
<1>8. CASE LoadAddresses(r) \/ SkipAddress(r) \/ AllAdded(r)
  BY <1>8 DEF LoadAddresses, Load, SkipAddress, AllAdded, RegistryInv, TypeInv
<1>9. CASE Register(r) \/ UseDialer(r)
  BY <1>9 DEF Register, UseDialer, RegistryInv, TypeInv, CallInv
<1>. QED
  BY <1>1, <1>2, <1>3, <1>4, <1>5, <1>6, <1>7, <1>8, <1>9 DEF RequestNext

\* A step of a request leaves all others where they are.  It was idle when there
\* was nobody at work, or is the one that is.
LEMMA StepOfOne ==
    ASSUME RegistryInv, NEW r \in Requests, RequestNext(r)
    PROVE  /\ \A q \in Requests \ {r} : pc'[q] = pc[q] /\ call'[q] = call[q]
           /\ world' = world
           /\ r \in AtWork \/ (pc[r] = "idle" /\ Cardinality(AtWork) < world.clients)
<1>. USE DEF RegistryInv, TypeInv, Goto, Use, host, registry, locals
<1>1. CASE Receive(r)
  BY <1>1 DEF Receive
<1>2. CASE ~Receive(r)
  <2>1. UNCHANGED <<world, call>>
    BY <1>2 DEF RequestNext, MakeSSHDialer, NewSSHDialer, ChooseName, RegisterNew, ReturnDialer,
                LoadSigners, StoreSigners, LoadAuth, StoreAuth, LoadAddresses, StoreAddress,
                Load, Store, SkipAddress, AllAdded, Register, UseDialer
  <2>2. \A q \in Requests \ {r} : pc'[q] = pc[q]
    BY <1>2 DEF RequestNext, MakeSSHDialer, NewSSHDialer, ChooseName, RegisterNew, ReturnDialer,
                LoadSigners, StoreSigners, LoadAuth, StoreAuth, LoadAddresses, StoreAddress,
                Load, Store, SkipAddress, AllAdded, Register, UseDialer
  <2>3. pc[r] \notin {"idle", "end", "panic"}
    BY <1>2 DEF RequestNext, MakeSSHDialer, NewSSHDialer, ChooseName, RegisterNew, ReturnDialer,
                LoadSigners, StoreSigners, LoadAuth, StoreAuth, LoadAddresses, StoreAddress,
                Load, Store, SkipAddress, AllAdded, Register, UseDialer
  <2>. QED
    BY <2>1, <2>2, <2>3 DEF AtWork
<1>. QED
  BY <1>1, <1>2

\* If requests follow one another, nobody else is at work when one takes a step.
LEMMA OnlyOneAtWork ==
    ASSUME RegistryInv, SerialInv, OneAtATime, NEW r \in Requests, RequestNext(r)
    PROVE  \A q \in AtWork : q = r
<1>1. CASE r \in AtWork
  BY <1>1 DEF SerialInv
<1>2. CASE Cardinality(AtWork) < world.clients
  <2>1. AtWork \subseteq Requests
    BY DEF AtWork
  <2>2. IsFiniteSet(AtWork) /\ Cardinality(AtWork) \in Nat
    BY <2>1, FS_Subset, FS_CardinalityType
  <2>3. Cardinality(AtWork) = 0
    BY <1>2, <2>2 DEF OneAtATime
  <2>. QED
    BY <2>2, <2>3, FS_EmptySet
<1>. QED
  BY <1>1, <1>2, StepOfOne

\* Requests that follow one another find what they left.
LEMMA SerialKept ==
    ASSUME RegistryInv, CountInv, SerialInv, [Next]_vars
    PROVE  SerialInv'
<1>1. ASSUME NEW r \in Requests, RequestNext(r), OneAtATime
      PROVE  /\ \A q, p \in AtWork' : q = p
             /\ \A q \in Requests : OwnInv(q)' /\ OwnKeyKept(q)'
  <2>1. \A q \in AtWork : q = r
    BY <1>1, OnlyOneAtWork
  <2>2. \A q \in Requests \ {r} : pc'[q] = pc[q] /\ call'[q] = call[q]
    BY <1>1, StepOfOne
  <2>3. \A q \in Requests \ {r} : pc'[q] \in {"idle", "end", "panic"}
    BY <2>1, <2>2 DEF AtWork
  <2>4. OwnInv(r)' /\ OwnKeyKept(r)' /\ KeysStay
    BY <1>1, OwnKept, MadeAreDialers DEF SerialInv, RegistryInv
  <2>5. ASSUME NEW q \in Requests \ {r}
        PROVE  OwnInv(q)' /\ OwnKeyKept(q)'
    <3>1. OwnInv(q)'
      BY <2>3 DEF OwnInv
    <3>2. OwnKeyKept(q)
      BY <1>1 DEF SerialInv
    <3>3. OwnKeyKept(q)'
      BY <2>2, <2>4, <3>2 DEF OwnKeyKept, KeysStay, Done
    <3>. QED
      BY <3>1, <3>3
  <2>. QED
    BY <2>3, <2>4, <2>5 DEF AtWork
<1>2. ASSUME NEW r \in Requests, RequestNext(r)
      PROVE  SerialInv'
  BY <1>1, <1>2, StepOfOne DEF SerialInv, OneAtATime
<1>3. ASSUME NEW g \in Conns, Dial(g)
      PROVE  SerialInv'
  <2>1. \A q \in Requests : pc'[q] = pc[q] /\ dlr'[q] = dlr[q]
    BY <1>3 DEF Dial, Goto, Use, RegistryInv, TypeInv
  <2>2. UNCHANGED <<world, dialers, sshDialer, lists, call, buf>>
    BY <1>3 DEF Dial, host, registry
  <2>3. AtWork' = AtWork /\ (OneAtATime' <=> OneAtATime)
    BY <2>1, <2>2 DEF AtWork, OneAtATime
  <2>. QED
    BY <2>1, <2>2, <2>3 DEF SerialInv, OwnInv, OwnKeyKept, Done
<1>4. CASE CreateKnownHosts \/ UNCHANGED vars
  <2>1. UNCHANGED <<world, registry, lists, pc, call, locals>>
    BY <1>4 DEF CreateKnownHosts, vars, host
  <2>. QED
    BY <2>1 DEF registry, locals, SerialInv, OneAtATime, AtWork, OwnInv, OwnKeyKept, Done
<1>. QED
  BY <1>2, <1>3, <1>4 DEF Next

\* SerialInv holds in every state.
THEOREM SerialInvariant == Spec => []SerialInv
<1>1. Init => SerialInv
  BY DEF Init, SerialInv, AtWork, OwnInv, OwnKeyKept, Done
<1>. QED
  BY <1>1, SerialKept, RegistryInvariant, PTL DEF Spec

\* A key that was added is one that the dialer that will connect can use and lists,
\* if requests follow one another.
THEOREM KeyAlwaysKept == Spec => []KeyKept
<1>1. SerialInv => KeyKept
  BY DEF SerialInv, OwnKeyKept, KeyKept
<1>. QED
  BY <1>1, SerialInvariant, PTL

\* Only the request to add a dialer replaces the default dialer, if requests follow
\* one another.
THEOREM DefaultAlwaysSticky == Spec => DefaultIsSticky
<1>. DEFINE Sticky == \/ ~OneAtATime
                      \/ dialers["default"] \in {NoDialer, dialers'["default"]}
                      \/ \E r \in Requests : pc[r] = "register" /\ pc'[r] = "end"
<1>1. RegistryInv /\ SerialInv /\ [Next]_vars => [Sticky]_vars
  <2>. SUFFICES ASSUME RegistryInv, SerialInv, Next, OneAtATime,
                       dialers["default"] # NoDialer, dialers'["default"] # dialers["default"]
                PROVE  \E r \in Requests : pc[r] = "register" /\ pc'[r] = "end"
    OBVIOUS
  <2>1. dialers' # dialers
    OBVIOUS
  <2>2. PICK r \in Requests : RegisterNew(r) \/ Register(r)
    BY <2>1 DEF Next, RequestNext, CreateKnownHosts, Dial, Receive, MakeSSHDialer, NewSSHDialer,
                ChooseName, ReturnDialer, LoadSigners, StoreSigners, LoadAuth, StoreAuth,
                LoadAddresses, StoreAddress, Load, Store, SkipAddress, AllAdded, UseDialer,
                registry
  <2>3. ~RegisterNew(r)
    BY DEF RegisterNew, RegistryInv, TypeInv, SerialInv, OwnInv
  <2>. QED
    BY <2>2, <2>3 DEF Register, Goto, RegistryInv, TypeInv
<1>. QED
  BY <1>1, RegistryInvariant, SerialInvariant, PTL DEF Spec, DefaultIsSticky

(***************************************************************************)
(* The addresses of a list                                                 *)
(***************************************************************************)
\* A request to add a dialer has dealt with the first items of its list: the valid
\* ones are the last addresses of the dialer that will connect.  A list that it has
\* loaded is still the list of that dialer.
Dealt(r) == Len(call[r].items) - Len(todo[r])
IsRest(s, items) ==
    /\ Len(s) <= Len(items)
    /\ \A i \in 1 .. Len(s) : s[i] = items[Len(items) - Len(s) + i]
\* The first item of a rest is the next one of the list; behind it is a rest again.
RestLeft(s, items) ==
    /\ Len(items) - Len(s) \in Nat /\ IsRest(Tail(s), items)
    /\ Len(items) - Len(Tail(s)) = Len(items) - Len(s) + 1
    /\ Head(s) = items[Len(items) - Len(s) + 1] /\ Head(s) \in Items
OwnAddresses(r) ==
    /\ pc[r] \in AddressSteps =>
          /\ IsRest(todo[r], call[r].items)
          /\ IF sshDialer = 0 THEN ValidUpTo(call[r].items, Dealt(r)) = 0
             ELSE RowAtEnd(call[r].items, Dealt(r), lists[sshDialer].addresses)
    /\ pc[r] = "append_addresses" =>
          /\ sshDialer # 0 /\ dlr[r] = sshDialer /\ buf[r] = lists[sshDialer].addresses
          /\ todo[r] # <<>> /\ Head(todo[r]) \in Valid
    /\ pc[r] \in {"register", "end"} /\ call[r].kind = "dialer" =>
          LET items == call[r].items IN
          ValidUpTo(items, Len(items)) > 0 =>
              sshDialer # 0 /\ RowIn(items, Len(items), lists[sshDialer].addresses)
AddressInv == OneAtATime => \A r \in Requests : OwnAddresses(r)

\* The dialer that will connect stays, and its list only grows.
AddressesStay ==
    sshDialer # 0 =>
        /\ sshDialer' = sshDialer
        /\ \/ lists'[sshDialer].addresses = lists[sshDialer].addresses
           \/ \E e \in Items :
                 lists'[sshDialer].addresses = Append(lists[sshDialer].addresses, e)

\* The rest of a list is what the request has not dealt with yet.
LEMMA TailLemma ==
    ASSUME NEW items \in Seq(Items), NEW s \in Seq(Items), s # <<>>, IsRest(s, items)
    PROVE  RestLeft(s, items)
<1>. DEFINE l == Len(items)
            k == Len(s)
            n == l - k
            t == Tail(s)
<1>1. l \in Nat /\ k \in Nat /\ k >= 1 /\ k <= l
  BY LenProperties, EmptySeq DEF IsRest
<1>2. /\ Len(t) = k - 1 /\ \A i \in 1 .. k - 1 : t[i] = s[i + 1]
      /\ Head(s) = s[1] /\ Head(s) \in Items
  BY HeadTailProperties
<1>3. \A i \in 1 .. k : s[i] = items[n + i]
  BY DEF IsRest
<1>. HIDE DEF l, k, t
<1>4. n \in Nat /\ Len(t) <= l /\ l - Len(t) = n + 1
  BY <1>1, <1>2
<1>5. Head(s) = items[n + 1]
  BY <1>1, <1>2, <1>3
<1>6. ASSUME NEW i \in 1 .. Len(t)
      PROVE  t[i] = items[n + 1 + i]
  <2>1. i \in 1 .. k - 1 /\ i + 1 \in 1 .. k /\ n + (i + 1) = n + 1 + i
    BY <1>1, <1>2, <1>4
  <2>. QED
    BY <1>2, <1>3, <2>1
<1>7. IsRest(t, items)
  BY <1>4, <1>6 DEF IsRest, l
<1>. QED
  BY <1>2, <1>4, <1>5, <1>7 DEF l, k, t, RestLeft

\* Steps outside of the loop over the addresses of a list.
LEMMA OthersKeepAddresses ==
    ASSUME RegistryInv, \A d \in 1 .. made : d \in SSHDialers, NEW r \in Requests, OwnInv(r),
           \/ Receive(r) \/ MakeSSHDialer(r) \/ NewSSHDialer(r) \/ ChooseName(r) \/ RegisterNew(r)
           \/ LoadSigners(r) \/ StoreSigners(r) \/ LoadAuth(r) \/ StoreAuth(r) \/ UseDialer(r)
    PROVE  OwnAddresses(r)' /\ AddressesStay
<1>. USE DEF Goto, Use, host, registry, locals
<1>1. sshDialer # 0 => /\ sshDialer' = sshDialer
                       /\ lists'[sshDialer].addresses = lists[sshDialer].addresses
  <2>1. CASE ~StoreSigners(r) /\ ~StoreAuth(r)
    <3>1. lists' = lists
      BY <2>1 DEF Receive, MakeSSHDialer, NewSSHDialer, ChooseName, RegisterNew, LoadSigners,
                  LoadAuth, UseDialer, Load
    <3>2. sshDialer # 0 => sshDialer' = sshDialer
      BY <2>1 DEF Receive, MakeSSHDialer, NewSSHDialer, ChooseName, RegisterNew, LoadSigners,
                  LoadAuth, UseDialer, Load, OwnInv
    <3>. QED
      BY <3>1, <3>2
  <2>2. CASE StoreSigners(r)
    BY <2>2 DEF StoreSigners, Store, RegistryInv, TypeInv, Lists
  <2>3. CASE StoreAuth(r)
    BY <2>3 DEF StoreAuth, Store, RegistryInv, TypeInv, Lists
  <2>. QED
    BY <2>1, <2>2, <2>3
<1>2. /\ pc'[r] \notin AddressSteps
      /\ pc'[r] \in {"register", "end"} => call'[r].kind # "dialer"
  <2>1. CASE Receive(r)
    BY <2>1 DEF Receive, RegistryInv, TypeInv
  <2>2. CASE MakeSSHDialer(r) \/ NewSSHDialer(r) \/ ChooseName(r) \/ RegisterNew(r)
    BY <2>2 DEF MakeSSHDialer, NewSSHDialer, ChooseName, RegisterNew, RegistryInv, TypeInv
  <2>3. CASE LoadSigners(r) \/ StoreSigners(r) \/ LoadAuth(r) \/ StoreAuth(r)
    BY <2>3 DEF LoadSigners, StoreSigners, LoadAuth, StoreAuth, Load, Store, RegistryInv, TypeInv,
                CallInv
  <2>4. CASE UseDialer(r)
    BY <2>4 DEF UseDialer, RegistryInv, TypeInv, CallInv
  <2>. QED
    BY <2>1, <2>2, <2>3, <2>4
<1>. QED
  BY <1>1, <1>2 DEF OwnAddresses, AddressesStay

\* A request comes to its list, and has dealt with none of it.
LEMMA ReturnKeepsAddresses ==
    ASSUME RegistryInv, \A d \in 1 .. made : d \in SSHDialers, NEW r \in Requests, ReturnDialer(r)
    PROVE  OwnAddresses(r)' /\ AddressesStay
<1>. USE DEF Goto, Use, host, registry, locals
<1>1. call[r].kind \in Kinds \ {"socks5"} /\ call[r].items \in Seq(Items) /\ todo[r] = call[r].items
  BY CallRecords DEF ReturnDialer, RegistryInv, CallInv
<1>2. /\ pc'[r] \in {"signers", "end", "list_keys", "connect", "addresses"}
      /\ pc'[r] = "end" => call[r].kind = "key"
      /\ UNCHANGED <<sshDialer, lists, call, todo>>
  BY <1>1, FirstSteps DEF ReturnDialer, RegistryInv, TypeInv
<1>3. Len(call[r].items) \in Nat /\ Dealt(r)' = 0
  BY <1>1, <1>2, LenProperties DEF Dealt
<1>4. sshDialer # 0 => RowAtEnd(call[r].items, 0, lists[sshDialer].addresses)
  <2>. SUFFICES ASSUME sshDialer # 0
                PROVE  RowAtEnd(call[r].items, 0, lists[sshDialer].addresses)
    OBVIOUS
  <2>1. lists[sshDialer] \in Lists
    BY DEF RegistryInv, TypeInv
  <2>2. PICK l \in Nat : l = Len(lists[sshDialer].addresses)
    BY <2>1, LenProperties DEF Lists
  <2>3. l + ValidUpTo(call[r].items, 0) = l
    BY CountValid
  <2>4. RowAt(call[r].items, 0, lists[sshDialer].addresses, l)
    BY DEF RowAt
  <2>. QED
    BY <2>2, <2>3, <2>4 DEF RowAtEnd
<1>5. ValidUpTo(call[r].items, 0) = 0
  BY CountValid
<1>6. IsRest(todo[r], call[r].items)
  BY <1>1, <1>3 DEF IsRest
<1>7. OwnAddresses(r)'
  BY <1>2, <1>3, <1>4, <1>5, <1>6 DEF OwnAddresses
<1>. QED
  BY <1>2, <1>7 DEF AddressesStay

\* An address is loaded, added or left out; the list comes to its end.
LEMMA LoopKeepsAddresses ==
    ASSUME RegistryInv, \A d \in 1 .. made : d \in SSHDialers, NEW r \in Requests, OwnAddresses(r),
           LoadAddresses(r) \/ StoreAddress(r) \/ SkipAddress(r) \/ AllAdded(r) \/ Register(r)
    PROVE  OwnAddresses(r)' /\ AddressesStay
<1>. USE DEF Goto, Use, host, registry, locals
<1>. DEFINE items == call[r].items
            all == lists[sshDialer].addresses
            n == Dealt(r)
            rest == Tail(todo[r])
<1>1. pc[r] # "idle"
  BY DEF LoadAddresses, Load, StoreAddress, Store, SkipAddress, AllAdded, Register
<1>2. call[r] \in Calls /\ items \in Seq(Items) /\ todo[r] \in Seq(Items)
  BY <1>1, CallRecords DEF RegistryInv, CallInv, TypeInv
<1>3. sshDialer # 0 => sshDialer \in SSHDialers /\ lists[sshDialer] \in Lists /\ all \in Seq(Items)
  BY DEF RegistryInv, TypeInv, Lists
<1>4. ASSUME pc[r] \in AddressSteps, todo[r] # <<>>
      PROVE  /\ n \in Nat /\ IsRest(rest, items) /\ Len(items) - Len(rest) = n + 1
             /\ Head(todo[r]) = items[n + 1] /\ items[n + 1] \in Items
  <2>1. IsRest(todo[r], items)
    BY <1>4 DEF OwnAddresses
  <2>2. RestLeft(todo[r], items)
    BY <1>2, <1>4, <2>1, TailLemma
  <2>. QED
    BY <2>2 DEF RestLeft, Dealt
<1>5. CASE LoadAddresses(r)
  <2>1. /\ pc[r] = "addresses" /\ todo[r] # <<>> /\ Head(todo[r]) \in Valid
        /\ UNCHANGED <<sshDialer, lists, call, todo>>
        /\ \/ pc'[r] = "panic"
           \/ /\ pc'[r] = "append_addresses" /\ sshDialer # 0 /\ dlr'[r] = sshDialer
              /\ buf'[r] = all
    BY <1>5 DEF LoadAddresses, Load, RegistryInv, TypeInv
  <2>. QED
    BY <2>1 DEF OwnAddresses, AddressesStay, Dealt
<1>6. CASE StoreAddress(r)
  <2>1. /\ pc[r] = "append_addresses" /\ pc'[r] = "addresses"
        /\ lists' = [lists EXCEPT ![dlr[r]]["addresses"] = Append(buf[r], Head(todo[r]))]
        /\ todo'[r] = rest
        /\ UNCHANGED <<sshDialer, call>>
    BY <1>6 DEF StoreAddress, Store, NextAddress, Rest, RegistryInv, TypeInv
  <2>2. /\ sshDialer # 0 /\ dlr[r] = sshDialer /\ buf[r] = all
        /\ todo[r] # <<>> /\ Head(todo[r]) \in Valid /\ RowAtEnd(items, n, all)
    BY <2>1 DEF OwnAddresses
  <2>3. lists'[sshDialer].addresses = Append(all, Head(todo[r]))
    <3>1. lists \in [SSHDialers -> Lists]
      BY DEF RegistryInv, TypeInv
    <3>. DEFINE e == Append(all, Head(todo[r]))
                new == [lists[sshDialer] EXCEPT !["addresses"] = e]
    <3>2. lists' = [lists EXCEPT ![sshDialer] = new]
      BY <2>1, <2>2
    <3>. HIDE DEF e
    <3>3. new.addresses = e
      BY <1>3, <2>2 DEF Lists
    <3>. HIDE DEF new
    <3>4. lists'[sshDialer] = new
      BY <1>3, <2>2, <3>1, <3>2
    <3>. QED
      BY <3>3, <3>4 DEF e
  <2>4. /\ Head(todo[r]) = items[n + 1] /\ items[n + 1] \in Items /\ n \in Nat
        /\ IsRest(rest, items) /\ Len(items) - Len(rest) = n + 1
    BY <1>4, <2>1, <2>2
  <2>5. RowAtEnd(items, n + 1, Append(all, items[n + 1]))
    BY <1>3, <2>2, <2>4, RowGrows
  <2>6. Dealt(r)' = n + 1
    BY <2>1, <2>4 DEF Dealt
  <2>. HIDE DEF n
  <2>7. OwnAddresses(r)'
    <3>1. IsRest(todo'[r], call'[r].items)
      BY <2>1, <2>4
    <3>2. sshDialer' # 0 /\ RowAtEnd(call'[r].items, Dealt(r)', lists'[sshDialer'].addresses)
      BY <2>1, <2>2, <2>3, <2>4, <2>5, <2>6
    <3>. QED
      BY <2>1, <3>1, <3>2 DEF OwnAddresses
  <2>8. AddressesStay
    BY <2>1, <2>3, <2>4 DEF AddressesStay
  <2>. QED
    BY <2>7, <2>8
<1>7. CASE SkipAddress(r)
  <2>1. /\ pc[r] = "addresses" /\ pc' = pc /\ todo[r] # <<>> /\ Head(todo[r]) \notin Valid
        /\ todo'[r] = rest
        /\ UNCHANGED <<sshDialer, lists, call>>
    BY <1>7 DEF SkipAddress, NextAddress, Rest, RegistryInv, TypeInv
  <2>2. /\ Head(todo[r]) = items[n + 1] /\ items[n + 1] \in Items /\ n \in Nat
        /\ IsRest(rest, items) /\ Len(items) - Len(rest) = n + 1
    BY <1>4, <2>1
  <2>3. IF sshDialer = 0 THEN ValidUpTo(items, n) = 0 ELSE RowAtEnd(items, n, all)
    BY <2>1 DEF OwnAddresses
  <2>4. IF sshDialer = 0 THEN ValidUpTo(items, n + 1) = 0 ELSE RowAtEnd(items, n + 1, all)
    BY <1>3, <2>1, <2>2, <2>3, RowGrows, CountValid
  <2>5. Dealt(r)' = n + 1
    BY <2>1, <2>2 DEF Dealt
  <2>. HIDE DEF n
  <2>6. IsRest(todo'[r], call'[r].items)
    BY <2>1, <2>2
  <2>7. OwnAddresses(r)'
    BY <2>1, <2>4, <2>5, <2>6 DEF OwnAddresses
  <2>. QED
    BY <2>1, <2>7 DEF AddressesStay
<1>8. CASE AllAdded(r)
  <2>1. /\ pc[r] = "addresses" /\ pc'[r] = "register" /\ todo[r] = <<>>
        /\ UNCHANGED <<sshDialer, lists, call, todo>>
    BY <1>8 DEF AllAdded, RegistryInv, TypeInv
  <2>2. n = Len(items) /\ Len(items) \in Nat
    BY <1>2, <2>1, LenProperties, EmptySeq DEF Dealt
  <2>3. IF sshDialer = 0 THEN ValidUpTo(items, Len(items)) = 0
        ELSE RowAtEnd(items, Len(items), all)
    BY <2>1, <2>2 DEF OwnAddresses
  <2>4. sshDialer # 0 => RowIn(items, Len(items), all)
    <3>1. sshDialer # 0 => Len(all) \in Nat
      BY <1>3, LenProperties
    <3>. QED
      BY <2>3, <3>1 DEF RowAtEnd, RowIn
  <2>5. OwnAddresses(r)'
    BY <2>1, <2>3, <2>4 DEF OwnAddresses
  <2>. QED
    BY <2>1, <2>5 DEF AddressesStay
<1>9. CASE Register(r)
  <2>1. /\ pc[r] = "register" /\ pc'[r] = "end"
        /\ UNCHANGED <<sshDialer, lists, call>>
    BY <1>9 DEF Register, RegistryInv, TypeInv
  <2>. QED
    BY <2>1 DEF OwnAddresses, AddressesStay
<1>. QED
  BY <1>5, <1>6, <1>7, <1>8, <1>9

\* Requests that follow one another do not disturb each other's lists.
LEMMA AddressesKeptInv ==
    ASSUME RegistryInv, CountInv, SerialInv, AddressInv, [Next]_vars
    PROVE  AddressInv'
<1>0. \A d \in 1 .. made : d \in SSHDialers
  BY MadeAreDialers DEF RegistryInv
<1>1. ASSUME NEW r \in Requests, RequestNext(r), OneAtATime
      PROVE  \A q \in Requests : OwnAddresses(q)'
  <2>1. OwnAddresses(r)' /\ AddressesStay
    <3>1. OwnInv(r) /\ OwnAddresses(r)
      BY <1>1 DEF SerialInv, AddressInv
    <3>. QED
      BY <1>0, <1>1, <3>1, OthersKeepAddresses, ReturnKeepsAddresses, LoopKeepsAddresses
         DEF RequestNext
  <2>2. \A q \in Requests \ {r} : pc'[q] = pc[q] /\ call'[q] = call[q]
    BY <1>1, StepOfOne
  <2>3. \A q \in Requests \ {r} : pc'[q] \in {"idle", "end", "panic"}
    BY <1>1, <2>2, OnlyOneAtWork DEF AtWork
  <2>4. ASSUME NEW q \in Requests \ {r}
        PROVE  OwnAddresses(q)'
    <3>. DEFINE items == call[q].items
    <3>. SUFFICES ASSUME pc[q] = "end", call[q].kind = "dialer", ValidUpTo(items, Len(items)) > 0
                  PROVE  /\ sshDialer' # 0
                         /\ RowIn(items, Len(items), lists'[sshDialer'].addresses)
      BY <2>2, <2>3 DEF OwnAddresses
    <3>. DEFINE all == lists[sshDialer].addresses
    <3>1. sshDialer # 0 /\ RowIn(items, Len(items), all)
      BY <1>1 DEF AddressInv, OwnAddresses
    <3>2. /\ sshDialer' = sshDialer
          /\ \/ lists'[sshDialer].addresses = all
             \/ \E e \in Items : lists'[sshDialer].addresses = Append(all, e)
      BY <2>1, <3>1 DEF AddressesStay
    <3>3. items \in Seq(Items) /\ Len(items) \in Nat
      BY CallRecords, LenProperties DEF RegistryInv, CallInv
    <3>4. all \in Seq(Items) /\ Len(all) \in Nat
      <4>1. lists[sshDialer] \in Lists
        BY <1>0, <3>1 DEF RegistryInv, TypeInv
      <4>. QED
        BY <4>1, LenProperties DEF Lists
    <3>5. ASSUME NEW e \in Items, lists'[sshDialer].addresses = Append(all, e)
          PROVE  RowIn(items, Len(items), Append(all, e))
      <4>1. PICK i \in Nat : /\ i + ValidUpTo(items, Len(items)) <= Len(all)
                             /\ RowAt(items, Len(items), all, i)
        BY <3>1 DEF RowIn
      <4>2. RowAt(items, Len(items), Append(all, e), i)
        BY <3>3, <3>4, <4>1, RowStays
      <4>3. Len(Append(all, e)) = Len(all) + 1
        BY <3>4, AppendProperties
      <4>4. ValidUpTo(items, Len(items)) \in Nat
        BY <3>3, CountValid
      <4>5. i + ValidUpTo(items, Len(items)) <= Len(Append(all, e))
        BY <3>4, <4>1, <4>3, <4>4
      <4>. QED
        BY <4>2, <4>5 DEF RowIn
    <3>. QED
      BY <3>1, <3>2, <3>5
  <2>. QED
    BY <2>1, <2>4
<1>2. ASSUME NEW r \in Requests, RequestNext(r)
      PROVE  AddressInv'
  BY <1>1, <1>2, StepOfOne DEF AddressInv, OneAtATime
<1>3. ASSUME NEW g \in Conns, Dial(g)
      PROVE  AddressInv'
  <2>1. \A q \in Requests : pc'[q] = pc[q] /\ dlr'[q] = dlr[q]
    BY <1>3 DEF Dial, Goto, Use, RegistryInv, TypeInv
  <2>2. UNCHANGED <<world, sshDialer, lists, call, buf, todo>>
    BY <1>3 DEF Dial, host, registry
  <2>. QED
    BY <2>1, <2>2 DEF AddressInv, OneAtATime, OwnAddresses, Dealt
<1>4. CASE CreateKnownHosts \/ UNCHANGED vars
  <2>1. UNCHANGED <<world, registry, lists, pc, call, locals>>
    BY <1>4 DEF CreateKnownHosts, vars, host
  <2>. QED
    BY <2>1 DEF registry, locals, AddressInv, OneAtATime, OwnAddresses, Dealt
<1>. QED
  BY <1>2, <1>3, <1>4 DEF Next

\* All addresses that were added are tried by the dialer that will connect, in the
\* order of their lists, if requests follow one another, for lists of any length.
THEOREM AddressesAlwaysKept == Spec => []AddressesKept
<1>1. Init => AddressInv
  BY DEF Init, AddressInv, OwnAddresses
<1>2. RegistryInv /\ CountInv /\ AddressInv => AddressesKept
  <2>. SUFFICES ASSUME RegistryInv, CountInv, AddressInv, OneAtATime, NEW r \in Requests, Done(r, "dialer"),
                       ValidUpTo(call[r].items, Len(call[r].items)) > 0
                PROVE  /\ sshDialer # 0
                       /\ \E i \in 0 .. Len(lists[sshDialer].addresses) :
                             /\ i + ValidUpTo(call[r].items, Len(call[r].items))
                                    <= Len(lists[sshDialer].addresses)
                             /\ \A n \in 1 .. Len(call[r].items) : call[r].items[n] \in Valid =>
                                   lists[sshDialer].addresses[i + ValidUpTo(call[r].items, n)]
                                       = call[r].items[n]
    BY DEF AddressesKept
  <2>. DEFINE items == call[r].items
              all == lists[sshDialer].addresses
              given == ValidUpTo(items, Len(items))
  <2>1. sshDialer # 0 /\ RowIn(items, Len(items), all)
    BY DEF AddressInv, OwnAddresses, Done
  <2>2. PICK i \in Nat : i + given <= Len(all) /\ RowAt(items, Len(items), all, i)
    BY <2>1 DEF RowIn
  <2>3. Len(items) \in Nat
    BY CallRecords, LenProperties DEF RegistryInv, CallInv, Done
  <2>4. given \in Nat
    BY <2>3, CountValid
  <2>5. i \in 0 .. Len(all)
    <3>1. \A d \in 1 .. made : d \in SSHDialers
      BY MadeAreDialers DEF RegistryInv
    <3>2. lists[sshDialer] \in Lists
      BY <2>1, <3>1 DEF RegistryInv, TypeInv
    <3>3. Len(all) \in Nat
      BY <3>2, LenProperties DEF Lists
    <3>. HIDE DEF given, all
    <3>. QED
      BY <2>2, <2>4, <3>3
  <2>. QED
    BY <2>1, <2>2, <2>5 DEF RowAt
<1>. QED
  BY <1>1, <1>2, AddressesKeptInv, RegistryInvariant, SerialInvariant, PTL DEF Spec
===============================================================================
