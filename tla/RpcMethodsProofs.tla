-------------------------- MODULE RpcMethodsProofs --------------------------
(***************************************************************************)
(* The way from a URI to the method that serves it, for any .proto files,  *)
(* any directives in any order and any number of reloads.                  *)
(***************************************************************************)
EXTENDS RpcMethods, FiniteSetTheorems, SequenceTheorems, WellFoundedInduction, TLAPS

Letters == DOMAIN LowerOf

Handled == UNION {{HandlerId(f, Service(f, k), Method(f, k)) : k \in MethodsOf(f)} : f \in Protos}
EntryRec == [uri : Names \cup {Lower(u) : u \in Names}, impl : Nat, proto : Seq(Words), handler : Handled]

\* An entry as method_array has it, or as the hash stores it.
Cased(e, low) == IF low THEN [e EXCEPT !.uri = Lower(@)] ELSE e

\* Every method of service s of f is in a, under both names, for instance n.
Whole(a, low, f, s, n) ==
    \A m \in DOMAIN f.services[s].methods : \A sep \in Separators :
        \E j \in DOMAIN a : a[j] = Cased(Entry(f, <<s, m>>, n, sep), low)

Known(e, low, f, k, sep) == e = Cased(Entry(f, k, e.impl, sep), low)

\* A table of entries: they come service by service, the instances in their order,
\* and each service as a whole.
Registered(a, low, files, count) ==
    /\ a \in Seq(EntryRec)
    /\ \A i \in DOMAIN a :
          /\ a[i].impl \in 1 .. count
          /\ \E f \in files : \E k \in MethodsOf(f) : \E sep \in Separators :
                Known(a[i], low, f, k, sep) /\ Whole(a, low, f, k[1], a[i].impl)
    /\ \A i, j \in DOMAIN a : i <= j => a[i].impl <= a[j].impl

\* The last request was answered by an entry with its URI.
Answered(ans, files) ==
    ans.method # NoMethod =>
        /\ ans.uri = ans.method.uri /\ ans.method.impl \in Nat
        /\ \E f \in files : \E k \in MethodsOf(f) : \E sep \in Separators :
              Known(ans.method, TRUE, f, k, sep)

BuiltInv == /\ built \in Seq(Protos) /\ \A f \in Range(built) : Builds(f)
            /\ left \subseteq Protos

MethodsInv ==
    /\ BuiltInv /\ instances \in Nat
    /\ Registered(method_array, FALSE, Range(built), instances)
    /\ Registered(table, TRUE, Range(built), instances)
    /\ Answered(answer, Range(built))

-----------------------------------------------------------------------------
(* Names *)

LEMMA LeastOf ==
    ASSUME NEW S \in SUBSET Nat, S # {}
    PROVE  \E i \in S : \A j \in S : i <= j
<1>1. PICK R : R = OpToRel(<, Nat)
  BY Zenon
<1>2. IsWellFoundedOn(R, Nat)
  BY <1>1, NatLessThanWellFounded, Zenon
<1>3. PICK x \in S : \A y \in S : ~(<<y, x>> \in R)
  BY <1>2, WFMin
<1>4. \A y \in Nat : y < x => <<y, x>> \in R
  BY <1>1 DEF OpToRel
<1>5. \A y \in S : y \in Nat /\ x \in Nat /\ ~(y < x)
  BY <1>3, <1>4
<1> QED BY <1>5

LEMMA RangeFacts ==
    ASSUME NEW S, NEW s \in Seq(S)
    PROVE  /\ Range(s) = {s[i] : i \in DOMAIN s} /\ Range(s) \subseteq S
           /\ DOMAIN s = 1 .. Len(s) /\ Len(s) \in Nat
  BY DEF Range

\* A sequence with one more element.
Adds(b, s, e, S) == b \in Seq(S) /\ \A x : x \in Range(b) <=> x \in Range(s) \/ x = e

LEMMA Appended ==
    ASSUME NEW S, NEW s \in Seq(S), NEW e \in S, NEW b, b = Append(s, e)
    PROVE  Adds(b, s, e, S)
<1>1. PICK n \in Nat : n = Len(s) /\ DOMAIN s = 1 .. n
  OBVIOUS
<1>2. /\ b \in Seq(S) /\ DOMAIN b = 1 .. n + 1
      /\ \A i \in 1 .. n : b[i] = s[i]
      /\ b[n + 1] = e
  BY <1>1
<1>3. /\ \A i \in 1 .. n + 1 : i \in 1 .. n \/ i = n + 1
      /\ \A i \in 1 .. n : i \in 1 .. n + 1
      /\ n + 1 \in 1 .. n + 1
  OBVIOUS
<1>4. \A x \in Range(b) : x \in Range(s) \/ x = e
  BY <1>1, <1>2, <1>3, Zenon DEF Range
<1>5. e \in Range(b) /\ \A x \in Range(s) : x \in Range(b)
  BY <1>1, <1>2, <1>3, Zenon DEF Range
<1> QED BY <1>2, <1>4, <1>5, Zenon DEF Adds

LEMMA PairFacts ==
    ASSUME NEW a, NEW b
    PROVE  <<a, b>>[1] = a /\ <<a, b>>[2] = b
  OBVIOUS

LEMMA InSeq ==
    ASSUME NEW S, NEW s \in Seq(S), NEW i \in DOMAIN s
    PROVE  s[i] \in S
  OBVIOUS

\* A sequence and another one behind it.
Joins(u, s, t, n, m) ==
    /\ Len(u) = n + m /\ DOMAIN u = 1 .. n + m
    /\ \A i \in 1 .. n : u[i] = s[i]
    /\ \A i \in 1 .. m : u[n + i] = t[i]

LEMMA Joined ==
    ASSUME NEW S, NEW s \in Seq(S), NEW t \in Seq(S), NEW n \in Nat, NEW m \in Nat,
           Len(s) = n, Len(t) = m, NEW u, u = s \o t
    PROVE  u \in Seq(S) /\ Joins(u, s, t, n, m)
<1>1. /\ u \in Seq(S) /\ Len(u) = n + m
      /\ \A i \in 1 .. n + m : u[i] = IF i <= n THEN s[i] ELSE t[i - n]
  BY ConcatProperties
<1>2. \A i \in 1 .. n : i \in 1 .. n + m /\ i <= n
  OBVIOUS
<1>3. \A i \in 1 .. m : n + i \in 1 .. n + m /\ ~(n + i <= n) /\ (n + i) - n = i
  OBVIOUS
<1>4. \A i \in 1 .. n : u[i] = s[i]
  BY <1>1, <1>2
<1>5. \A i \in 1 .. m : u[n + i] = t[i]
  BY <1>1, <1>3
<1>6. DOMAIN u = 1 .. n + m
  BY <1>1
<1> QED BY <1>1, <1>4, <1>5, <1>6 DEF Joins

\* A name in lower case.
InLower(l, u, n) == l \in Seq(Letters) /\ Len(l) = n /\ \A i \in 1 .. n : l[i] = LowerOf[u[i]]

LEMMA LowerFacts ==
    ASSUME NEW u \in Seq(Letters), NEW n \in Nat, Len(u) = n, NEW l, l = Lower(u)
    PROVE  InLower(l, u, n)
<1>1. DOMAIN u = 1 .. n
  OBVIOUS
<1>2. l = [i \in 1 .. n |-> LowerOf[u[i]]]
  BY <1>1 DEF Lower
<1>3. \A w \in Letters : LowerOf[w] \in Letters
  BY MethodsAssumption DEF Letters, Words
<1>4. l \in [1 .. n -> Letters]
  BY <1>1, <1>2, <1>3
<1> QED BY <1>2, <1>4 DEF InLower

LEMMA LowerWords ==
    ASSUME NEW u \in Seq(Words)
    PROVE  Lower(u) \in Seq(Words)
<1>1. PICK n \in Nat : n = Len(u) /\ DOMAIN u = 1 .. n
  OBVIOUS
<1>2. PICK l : l = [i \in 1 .. n |-> LowerOf[u[i]]]
  OBVIOUS
<1>3. l = Lower(u)
  BY <1>1, <1>2 DEF Lower
<1>4. \A w \in Words : LowerOf[w] \in Words
  BY MethodsAssumption
<1>5. l \in [1 .. n -> Words]
  BY <1>1, <1>2, <1>4
<1> QED BY <1>3, <1>5

LEMMA WordsLetters ==
    ASSUME NEW u \in Seq(Words)
    PROVE  u \in Seq(Letters)
<1>1. \A w \in Words : w \in Letters
  BY DEF Words, Letters
<1>2. u \in [1 .. Len(u) -> Letters] /\ Len(u) \in Nat
  BY <1>1
<1> QED BY <1>2

LEMMA ProtoFacts ==
    ASSUME NEW f \in Protos
    PROVE  /\ f.name \in Seq(Words) /\ f.package \in Seq(Words)
           /\ f.services \in Seq([name : Seq(Words), methods : Seq(Seq(Words))])
           /\ \A s \in DOMAIN f.services :
                 f.services[s].name \in Seq(Words) /\ f.services[s].methods \in Seq(Seq(Words))
<1>1. f \in [name : Seq(Words), package : Seq(Words), generic : BOOLEAN,
             services : Seq([name : Seq(Words), methods : Seq(Seq(Words))])]
  BY ProtosAssumption
<1>2. /\ f.name \in Seq(Words) /\ f.package \in Seq(Words)
      /\ f.services \in Seq([name : Seq(Words), methods : Seq(Seq(Words))])
  BY <1>1
<1>3. ASSUME NEW s \in DOMAIN f.services
      PROVE  f.services[s].name \in Seq(Words) /\ f.services[s].methods \in Seq(Seq(Words))
  <2>1. PICK N, M, R : N = Seq(Words) /\ M = Seq(Seq(Words)) /\ R = [name : N, methods : M]
    OBVIOUS
  <2>2. f.services \in Seq(R)
    BY <1>2, <2>1
  <2>3. PICK v : v = f.services[s] /\ v \in R
    BY <2>2, InSeq
  <2>4. v.name \in N /\ v.methods \in M
    BY <2>1, <2>3
  <2> QED BY <2>1, <2>3, <2>4
<1> QED BY <1>2, <1>3

LEMMA MethodFacts ==
    ASSUME NEW f \in Protos, NEW k \in MethodsOf(f)
    PROVE  /\ k[1] \in DOMAIN f.services /\ k[2] \in DOMAIN f.services[k[1]].methods
           /\ k = <<k[1], k[2]>>
           /\ Service(f, k) = f.services[k[1]] /\ Method(f, k) = f.services[k[1]].methods[k[2]]
           /\ Service(f, k).name \in Seq(Words) /\ Method(f, k) \in Seq(Words)
<1>1. PICK s \in DOMAIN f.services : k \in {<<s, m>> : m \in DOMAIN f.services[s].methods}
  BY DEF MethodsOf
<1>2. PICK m \in DOMAIN f.services[s].methods : k = <<s, m>>
  BY <1>1
<1>3. f.services[s].name \in Seq(Words) /\ f.services[s].methods[m] \in Seq(Words)
  BY ProtoFacts
<1> QED BY <1>2, <1>3 DEF Service, Method

LEMMA MethodOf ==
    ASSUME NEW f, NEW s \in DOMAIN f.services, NEW m \in DOMAIN f.services[s].methods
    PROVE  <<s, m>> \in MethodsOf(f)
  BY DEF MethodsOf

\* A name has its separators behind the package and behind the service, and nowhere else.
IsUri(u, x, y, z, sep, a) ==
    /\ u \in Seq(Letters) /\ Len(u) = x + 1 + y + 1 + z
    /\ u[x + 1] = sep /\ u[x + 1 + y + 1] = sep
    /\ \A i \in 1 .. y : u[x + 1 + i] = a[i]

LEMMA UriFacts ==
    ASSUME NEW p \in Seq(Words), NEW a \in Seq(Words), NEW b \in Seq(Words), NEW sep \in Separators,
           NEW x \in Nat, NEW y \in Nat, NEW z \in Nat, Len(p) = x, Len(a) = y, Len(b) = z,
           NEW u, u = p \o <<sep>> \o a \o <<sep>> \o b
    PROVE  IsUri(u, x, y, z, sep, a)
<1>1. p \in Seq(Letters) /\ a \in Seq(Letters) /\ b \in Seq(Letters)
  BY WordsLetters
<1>2. sep \in Letters
  BY MethodsAssumption DEF Letters
<1>0. PICK one \in Nat : one = 1
  OBVIOUS
<1>3. PICK q : q = <<sep>> /\ one = 1
  BY <1>0
<1>4. q \in Seq(Letters) /\ Len(q) = one /\ q[one] = sep
  BY <1>2, <1>3
<1>5. PICK u1, u2, u3 : u1 = p \o q /\ u2 = u1 \o a /\ u3 = u2 \o q
  OBVIOUS
<1>6. PICK n1 \in Nat, n2 \in Nat, n3 \in Nat : n1 = x + one /\ n2 = n1 + y /\ n3 = n2 + one
  OBVIOUS
<1>7. u1 \in Seq(Letters) /\ Joins(u1, p, q, x, one)
  BY <1>1, <1>4, <1>5, Joined
<1>8. Len(u1) = n1
  BY <1>6, <1>7 DEF Joins
<1>9. u2 \in Seq(Letters) /\ Joins(u2, u1, a, n1, y)
  BY <1>1, <1>5, <1>7, <1>8, Joined
<1>10. Len(u2) = n2
  BY <1>6, <1>9 DEF Joins
<1>11. u3 \in Seq(Letters) /\ Joins(u3, u2, q, n2, one)
  BY <1>4, <1>5, <1>9, <1>10, Joined
<1>12. Len(u3) = n3
  BY <1>6, <1>11 DEF Joins
<1>13. u = u3 \o b
  BY <1>3, <1>5
<1>14. u \in Seq(Letters) /\ Joins(u, u3, b, n3, z)
  BY <1>1, <1>11, <1>12, <1>13, Joined
<1>15. /\ x + 1 \in 1 .. n1 /\ x + 1 \in 1 .. n2 /\ x + 1 \in 1 .. n3
       /\ x + 1 = x + one /\ x + 1 + y + 1 = n2 + one /\ n2 + one \in 1 .. n3
       /\ one \in 1 .. one
  BY <1>3, <1>6
<1>16. u[x + 1] = sep
  BY <1>4, <1>7, <1>9, <1>11, <1>14, <1>15 DEF Joins
<1>17. u[x + 1 + y + 1] = sep
  BY <1>4, <1>11, <1>14, <1>15 DEF Joins
<1>18. \A i \in 1 .. y : u[x + 1 + i] = a[i]
  <2>1. \A i \in 1 .. y : n1 + i \in 1 .. n2 /\ n1 + i \in 1 .. n3 /\ x + 1 + i = n1 + i
    BY <1>3, <1>6
  <2>2. \A i \in 1 .. y : u2[n1 + i] = a[i]
    BY <1>9 DEF Joins
  <2>3. \A i \in 1 .. n2 : u3[i] = u2[i]
    BY <1>11 DEF Joins
  <2>4. \A i \in 1 .. n3 : u[i] = u3[i]
    BY <1>14 DEF Joins
  <2> QED BY <2>1, <2>2, <2>3, <2>4
<1>19. Len(u) = x + 1 + y + 1 + z
  BY <1>3, <1>6, <1>14 DEF Joins
<1> QED BY <1>14, <1>16, <1>17, <1>18, <1>19 DEF IsUri

\* Two names of one package that are equal up to case have services that are.
LEMMA SameService ==
    ASSUME NEW p \in Seq(Words), NEW a \in Seq(Words), NEW b \in Seq(Words), NEW s \in Separators,
           NEW c \in Seq(Words), NEW d \in Seq(Words), NEW t \in Separators,
           Lower(p \o <<s>> \o a \o <<s>> \o b) = Lower(p \o <<t>> \o c \o <<t>> \o d)
    PROVE  Lower(a) = Lower(c)
<1>1. PICK u : u = p \o <<s>> \o a \o <<s>> \o b
  OBVIOUS
<1>2. PICK v : v = p \o <<t>> \o c \o <<t>> \o d
  OBVIOUS
<1>3. PICK x \in Nat, y \in Nat, z \in Nat : Len(p) = x /\ Len(a) = y /\ Len(c) = z
  OBVIOUS
<1>4. PICK yy \in Nat, zz \in Nat : Len(b) = yy /\ Len(d) = zz
  OBVIOUS
<1>5. /\ u \in Seq(Letters) /\ Len(u) = x + 1 + y + 1 + yy /\ u[x + 1] = s /\ u[x + 1 + y + 1] = s
      /\ \A i \in 1 .. y : u[x + 1 + i] = a[i]
  <2>1. IsUri(u, x, y, yy, s, a)
    BY <1>1, <1>3, <1>4, UriFacts
  <2> QED BY <2>1 DEF IsUri
<1>6. /\ v \in Seq(Letters) /\ Len(v) = x + 1 + z + 1 + zz /\ v[x + 1] = t /\ v[x + 1 + z + 1] = t
      /\ \A i \in 1 .. z : v[x + 1 + i] = c[i]
  <2>1. IsUri(v, x, z, zz, t, c)
    BY <1>2, <1>3, <1>4, UriFacts
  <2> QED BY <2>1 DEF IsUri
<1>7. PICK l : l = Lower(u) /\ l = Lower(v)
  BY <1>1, <1>2
<1>8. \A i \in 1 .. x + 1 + y + 1 + yy : l[i] = LowerOf[u[i]]
  <2>1. PICK n \in Nat : n = x + 1 + y + 1 + yy
    OBVIOUS
  <2>2. InLower(l, u, n)
    BY <1>5, <1>7, <2>1, LowerFacts
  <2> QED BY <2>1, <2>2 DEF InLower
<1>9. \A i \in 1 .. x + 1 + z + 1 + zz : l[i] = LowerOf[v[i]]
  <2>1. PICK n \in Nat : n = x + 1 + z + 1 + zz
    OBVIOUS
  <2>2. InLower(l, v, n)
    BY <1>6, <1>7, <2>1, LowerFacts
  <2> QED BY <2>1, <2>2 DEF InLower
<1>10. /\ LowerOf[s] = s /\ LowerOf[t] = t
       /\ \A w \in Words : LowerOf[w] \in Words /\ LowerOf[w] \notin Separators
  BY MethodsAssumption DEF Words
<1>11. \A i \in 1 .. y : l[x + 1 + i] = LowerOf[a[i]] /\ a[i] \in Words
  <2>1. \A i \in 1 .. y : x + 1 + i \in 1 .. x + 1 + y + 1 + yy
    OBVIOUS
  <2> QED BY <1>3, <1>5, <1>8, <2>1
<1>12. \A i \in 1 .. z : l[x + 1 + i] = LowerOf[c[i]] /\ c[i] \in Words
  <2>1. \A i \in 1 .. z : x + 1 + i \in 1 .. x + 1 + z + 1 + zz
    OBVIOUS
  <2> QED BY <1>3, <1>6, <1>9, <2>1
<1>13. l[x + 1 + (y + 1)] = s
  <2>1. x + 1 + y + 1 \in 1 .. x + 1 + y + 1 + yy /\ x + 1 + (y + 1) = x + 1 + y + 1
    OBVIOUS
  <2> QED BY <1>5, <1>8, <1>10, <2>1
<1>14. l[x + 1 + (z + 1)] = t
  <2>1. x + 1 + z + 1 \in 1 .. x + 1 + z + 1 + zz /\ x + 1 + (z + 1) = x + 1 + z + 1
    OBVIOUS
  <2> QED BY <1>6, <1>9, <1>10, <2>1
<1>15. ~(y < z)
  <2>1. SUFFICES ASSUME y < z PROVE FALSE
    OBVIOUS
  <2>2. y + 1 \in 1 .. z
    BY <2>1
  <2>3. s \notin Separators
    BY <1>10, <1>12, <1>13, <2>2
  <2> QED BY <2>3
<1>16. ~(z < y)
  <2>1. SUFFICES ASSUME z < y PROVE FALSE
    OBVIOUS
  <2>2. z + 1 \in 1 .. y
    BY <2>1
  <2>3. t \notin Separators
    BY <1>10, <1>11, <1>14, <2>2
  <2> QED BY <2>3
<1>17. y = z
  BY <1>15, <1>16
<1>18. \A i \in 1 .. y : LowerOf[a[i]] = LowerOf[c[i]]
  BY <1>11, <1>12, <1>17
<1>19. DOMAIN a = 1 .. y /\ DOMAIN c = 1 .. y
  BY <1>3, <1>17
<1>20. Lower(a) = [i \in 1 .. y |-> LowerOf[a[i]]] /\ Lower(c) = [i \in 1 .. y |-> LowerOf[c[i]]]
  BY <1>19, Zenon DEF Lower
<1> QED BY <1>18, <1>20

-----------------------------------------------------------------------------
(* Entries and tables *)

\* An entry has the names of its method.
IsEntry(e, low, f, k, n, sep) ==
    /\ e \in EntryRec /\ e.impl = n /\ e.proto = f.name
    /\ e.handler = HandlerId(f, Service(f, k), Method(f, k))
    /\ low => e.uri = Lower(Uri(f, Service(f, k), Method(f, k), sep))
    /\ Known(e, low, f, k, sep)

LEMMA EntryFacts ==
    ASSUME NEW low \in BOOLEAN, NEW f \in Protos, NEW k \in MethodsOf(f), NEW n \in Nat,
           NEW sep \in Separators, NEW e, e = Cased(Entry(f, k, n, sep), low)
    PROVE  IsEntry(e, low, f, k, n, sep)
<1>1. PICK u : u = Uri(f, Service(f, k), Method(f, k), sep)
  OBVIOUS
<1>2. PICK h : h = HandlerId(f, Service(f, k), Method(f, k))
  OBVIOUS
<1>3. u \in Names
  BY <1>1 DEF Names
<1>4. h \in Handled
  BY <1>2 DEF Handled
<1>5. PICK U : U = Names \cup {Lower(w) : w \in Names}
  OBVIOUS
<1>6. u \in U /\ Lower(u) \in U
  BY <1>3, <1>5
<1>7. PICK N : N = Seq(Words)
  OBVIOUS
<1>8. f.name \in N
  BY <1>7, ProtoFacts
<1>9. Entry(f, k, n, sep) = [uri |-> u, impl |-> n, proto |-> f.name, handler |-> h]
  BY <1>1, <1>2, Zenon DEF Entry
<1>10. PICK w : w = IF low THEN Lower(u) ELSE u
  OBVIOUS
<1>11. w \in U /\ (low => w = Lower(u))
  BY <1>6, <1>10
<1>12. e = [uri |-> w, impl |-> n, proto |-> f.name, handler |-> h]
  BY <1>9, <1>10 DEF Cased
<1>13. EntryRec = [uri : U, impl : Nat, proto : N, handler : Handled]
  BY <1>5, <1>7 DEF EntryRec
<1>14. /\ e \in EntryRec
       /\ e.uri = w /\ e.impl = n /\ e.proto = f.name /\ e.handler = h
  BY <1>4, <1>8, <1>11, <1>12, <1>13
<1>15. Known(e, low, f, k, sep)
  BY <1>14 DEF Known
<1> QED BY <1>1, <1>2, <1>11, <1>14, <1>15, Zenon DEF IsEntry

\* The entries of a service are all for one instance, and every method has both its names.
LEMMA BlockFacts ==
    ASSUME NEW f \in Protos, NEW s \in DOMAIN f.services, NEW n \in Nat, NEW b, b = ServiceEntries(f, s, n)
    PROVE  /\ b \in Seq(EntryRec)
           /\ Whole(b, FALSE, f, s, n)
           /\ \A i \in DOMAIN b : \E m \in DOMAIN f.services[s].methods : \E sep \in Separators :
                 IsEntry(b[i], FALSE, f, <<s, m>>, n, sep)
<1>1. f.services[s].methods \in Seq(Seq(Words))
  BY ProtoFacts
<1>2. PICK x \in Nat : x = Len(f.services[s].methods) /\ DOMAIN f.services[s].methods = 1 .. x
  BY <1>1
<1>3. b = [i \in 1 .. 2 * x |-> Entry(f, <<s, (i + 1) \div 2>>, n, IF i % 2 = 1 THEN "/" ELSE ".")]
  BY <1>2, Zenon DEF ServiceEntries
<1>4. \A e : Cased(e, FALSE) = e
  BY DEF Cased
<1>5. DOMAIN b = 1 .. 2 * x
  BY <1>3
<1>6. ASSUME NEW i \in 1 .. 2 * x
      PROVE  \E m \in DOMAIN f.services[s].methods : \E sep \in Separators :
                IsEntry(b[i], FALSE, f, <<s, m>>, n, sep)
  <2>1. PICK m : m = (i + 1) \div 2
    OBVIOUS
  <2>2. m \in 1 .. x
    BY <2>1
  <2>3. PICK sep : sep = IF i % 2 = 1 THEN "/" ELSE "."
    OBVIOUS
  <2>4. sep \in Separators
    BY <2>3 DEF Separators
  <2>5. b[i] = Entry(f, <<s, m>>, n, sep)
    BY <1>3, <2>1, <2>3
  <2>6. b[i] = Cased(Entry(f, <<s, m>>, n, sep), FALSE)
    BY <1>4, <2>5
  <2>7. <<s, m>> \in MethodsOf(f)
    BY <1>2, <2>2, MethodOf
  <2>8. IsEntry(b[i], FALSE, f, <<s, m>>, n, sep)
    BY <2>4, <2>6, <2>7, EntryFacts
  <2> QED BY <1>2, <2>2, <2>4, <2>8
<1>7. b \in Seq(EntryRec)
  <2>1. \A i \in 1 .. 2 * x : b[i] \in EntryRec
    BY <1>6, Zenon DEF IsEntry
  <2>2. b \in [1 .. 2 * x -> EntryRec] /\ 2 * x \in Nat
    BY <1>3, <2>1
  <2> QED BY <2>2
<1>8. ASSUME NEW m \in DOMAIN f.services[s].methods, NEW sep \in Separators
      PROVE  \E j \in DOMAIN b : b[j] = Cased(Entry(f, <<s, m>>, n, sep), FALSE)
  <2>1. m \in 1 .. x
    BY <1>2
  <2>2. CASE sep = "/"
    <3>1. PICK j : j = 2 * m - 1
      OBVIOUS
    <3>2. j \in 1 .. 2 * x /\ (j + 1) \div 2 = m /\ j % 2 = 1
      BY <2>1, <3>1
    <3>3. b[j] = Entry(f, <<s, m>>, n, sep)
      BY <1>3, <2>2, <3>2
    <3> QED BY <1>4, <1>5, <3>2, <3>3
  <2>3. CASE sep = "."
    <3>1. PICK j : j = 2 * m
      OBVIOUS
    <3>2. j \in 1 .. 2 * x /\ (j + 1) \div 2 = m /\ j % 2 # 1
      BY <2>1, <3>1
    <3>3. b[j] = Entry(f, <<s, m>>, n, sep)
      BY <1>3, <2>3, <3>2
    <3> QED BY <1>4, <1>5, <3>2, <3>3
  <2> QED BY <2>2, <2>3 DEF Separators
<1>9. Whole(b, FALSE, f, s, n)
  BY <1>8, Zenon DEF Whole
<1> QED BY <1>5, <1>6, <1>7, <1>9

\* What Registered says of entry i.
Origin(a, i, low, files, count) ==
    /\ a[i].impl \in 1 .. count
    /\ \E f \in files : \E k \in MethodsOf(f) : \E sep \in Separators :
          Known(a[i], low, f, k, sep) /\ Whole(a, low, f, k[1], a[i].impl)

Ordered(a) == \A i, j \in DOMAIN a : i <= j => a[i].impl <= a[j].impl

LEMMA RegisteredParts ==
    ASSUME NEW a, NEW low \in BOOLEAN, NEW files, NEW count
    PROVE  Registered(a, low, files, count)
             <=> a \in Seq(EntryRec) /\ (\A i \in DOMAIN a : Origin(a, i, low, files, count)) /\ Ordered(a)
  BY Zenon DEF Registered, Origin, Ordered

LEMMA NoneRegistered ==
    ASSUME NEW low \in BOOLEAN, NEW files, NEW count
    PROVE  Registered(<<>>, low, files, count)
<1>1. <<>> \in Seq(EntryRec) /\ DOMAIN <<>> = {}
  OBVIOUS
<1> QED BY <1>1, Zenon DEF Registered

\* More files and more instances.
LEMMA RegisteredGrows ==
    ASSUME NEW a, NEW low \in BOOLEAN, NEW files, NEW more, files \subseteq more,
           NEW count \in Nat, NEW total \in Nat, count <= total,
           Registered(a, low, files, count)
    PROVE  Registered(a, low, more, total)
<1>1. \A i \in DOMAIN a : Origin(a, i, low, files, count)
  BY RegisteredParts, Zenon
<1>2. \A n \in 1 .. count : n \in 1 .. total
  OBVIOUS
<1>3. \A i \in DOMAIN a : Origin(a, i, low, more, total)
  BY <1>1, <1>2, Zenon DEF Origin
<1> QED BY <1>3, RegisteredParts, Zenon

LEMMA WholeIn ==
    ASSUME NEW a, NEW b, NEW low \in BOOLEAN, NEW f, NEW s, NEW n,
           \A j \in DOMAIN a : \E i \in DOMAIN b : b[i] = a[j],
           Whole(a, low, f, s, n)
    PROVE  Whole(b, low, f, s, n)
  BY Zenon DEF Whole

\* A directive puts all of a service behind what is there, for a new instance.
LEMMA Extended ==
    ASSUME NEW files \in SUBSET Protos, NEW count \in Nat, NEW total \in Nat, total = count + 1,
           NEW a, Registered(a, FALSE, files, count),
           NEW f \in files, NEW s \in DOMAIN f.services, NEW c, c = a \o ServiceEntries(f, s, total)
    PROVE  Registered(c, FALSE, files, total)
<1>1. PICK b : b = ServiceEntries(f, s, total)
  OBVIOUS
<1>2. /\ b \in Seq(EntryRec)
      /\ Whole(b, FALSE, f, s, total)
      /\ \A i \in DOMAIN b : \E m \in DOMAIN f.services[s].methods : \E sep \in Separators :
            IsEntry(b[i], FALSE, f, <<s, m>>, total, sep)
  BY <1>1, BlockFacts
<1>3. a \in Seq(EntryRec) /\ (\A i \in DOMAIN a : Origin(a, i, FALSE, files, count)) /\ Ordered(a)
  BY RegisteredParts, Zenon
<1>4. PICK x \in Nat, y \in Nat : Len(a) = x /\ Len(b) = y /\ DOMAIN a = 1 .. x /\ DOMAIN b = 1 .. y
  BY <1>2, <1>3
<1>5. c \in Seq(EntryRec) /\ Joins(c, a, b, x, y)
  BY <1>1, <1>2, <1>3, <1>4, Joined
<1>6. /\ DOMAIN c = 1 .. x + y
      /\ \A i \in 1 .. x : c[i] = a[i]
      /\ \A i \in 1 .. y : c[x + i] = b[i]
  BY <1>5 DEF Joins
<1>7. \A i \in 1 .. x : i \in 1 .. x + y
  OBVIOUS
<1>8. \A i \in 1 .. y : x + i \in 1 .. x + y
  OBVIOUS
<1>9. \A j \in DOMAIN a : \E i \in DOMAIN c : c[i] = a[j]
  BY <1>4, <1>6, <1>7
<1>10. \A j \in DOMAIN b : \E i \in DOMAIN c : c[i] = b[j]
  BY <1>4, <1>6, <1>8
<1>11. \A n \in 1 .. count : n \in 1 .. total /\ n <= total
  OBVIOUS
<1>12. \A i \in 1 .. x : Origin(c, i, FALSE, files, total) /\ c[i].impl \in 1 .. count
  <2>1. TAKE i \in 1 .. x
  <2>2. c[i] = a[i] /\ Origin(a, i, FALSE, files, count)
    BY <1>3, <1>4, <1>6
  <2>3. PICK g \in files : \E k \in MethodsOf(g) : \E sep \in Separators :
           Known(a[i], FALSE, g, k, sep) /\ Whole(a, FALSE, g, k[1], a[i].impl)
    BY <2>2 DEF Origin
  <2>4. PICK k \in MethodsOf(g), sep \in Separators :
           Known(a[i], FALSE, g, k, sep) /\ Whole(a, FALSE, g, k[1], a[i].impl)
    BY <2>3
  <2>5. Whole(c, FALSE, g, k[1], a[i].impl)
    BY <1>9, <2>4, WholeIn, ZenonT(40)
  <2>6. a[i].impl \in 1 .. count /\ a[i].impl \in 1 .. total
    BY <1>11, <2>2, Zenon DEF Origin
  <2> QED BY <2>2, <2>4, <2>5, <2>6, Zenon DEF Origin
<1>13. \A i \in 1 .. y : Origin(c, x + i, FALSE, files, total) /\ c[x + i].impl = total
  <2>1. TAKE i \in 1 .. y
  <2>2. PICK e : e = c[x + i] /\ e = b[i]
    BY <1>6
  <2>3. PICK m \in DOMAIN f.services[s].methods, sep \in Separators :
           IsEntry(e, FALSE, f, <<s, m>>, total, sep)
    BY <1>2, <1>4, <2>2
  <2>4. <<s, m>> \in MethodsOf(f) /\ <<s, m>>[1] = s
    BY MethodOf
  <2>5. Known(e, FALSE, f, <<s, m>>, sep) /\ e.impl = total
    BY <2>3 DEF IsEntry
  <2>6. Whole(c, FALSE, f, s, total)
    BY <1>2, <1>10, WholeIn
  <2>7. total \in 1 .. total
    OBVIOUS
  <2> QED BY <2>2, <2>4, <2>5, <2>6, <2>7, Zenon DEF Origin
<1>14. \A i \in 1 .. x + y : i \in 1 .. x \/ (i - x \in 1 .. y /\ x + (i - x) = i /\ i > x)
  OBVIOUS
<1>15. \A i \in DOMAIN c : Origin(c, i, FALSE, files, total)
  BY <1>6, <1>12, <1>13, <1>14
<1>16. Ordered(c)
  <2>1. SUFFICES ASSUME NEW i \in 1 .. x + y, NEW j \in 1 .. x + y, i <= j
                 PROVE  c[i].impl <= c[j].impl
    BY <1>6 DEF Ordered
  <2>2. CASE j \in 1 .. x
    <3>1. i \in 1 .. x
      BY <2>1, <2>2
    <3>2. a[i].impl <= a[j].impl
      BY <1>3, <1>4, <2>1, <2>2, <3>1 DEF Ordered
    <3> QED BY <1>6, <2>2, <3>1, <3>2
  <2>3. CASE j \notin 1 .. x
    <3>1. c[j].impl = total
      BY <1>13, <1>14, <2>3, ZenonT(40)
    <3>2. c[i].impl <= total
      <4>1. CASE i \in 1 .. x
        BY <1>11, <1>12, <4>1
      <4>2. CASE i \notin 1 .. x
        <5>1. c[i].impl = total
          BY <1>13, <1>14, <4>2, ZenonT(40)
        <5>2. total <= total
          OBVIOUS
        <5> QED BY <5>1, <5>2, Zenon
      <4> QED BY <4>1, <4>2
    <3> QED BY <3>1, <3>2
  <2> QED BY <2>2, <2>3
<1> QED BY <1>5, <1>15, <1>16, RegisteredParts, Zenon

\* The hash has the entries of the array in their order, the names in lower case.
LEMMA Lowered ==
    ASSUME NEW files \in SUBSET Protos, NEW count \in Nat,
           NEW a, Registered(a, FALSE, files, count), NEW c, c = Stored(a)
    PROVE  Registered(c, TRUE, files, count)
<1>1. a \in Seq(EntryRec) /\ (\A i \in DOMAIN a : Origin(a, i, FALSE, files, count)) /\ Ordered(a)
  BY RegisteredParts, Zenon
<1>2. PICK x \in Nat : DOMAIN a = 1 .. x
  BY <1>1
<1>3. DOMAIN c = 1 .. x /\ \A i \in 1 .. x : c[i] = Cased(a[i], TRUE)
  BY <1>2 DEF Stored, Cased
<1>4. \A e : Cased(e, FALSE) = e
  BY DEF Cased
<1>5. ASSUME NEW g, NEW s, NEW n, Whole(a, FALSE, g, s, n)
      PROVE  Whole(c, TRUE, g, s, n)
  <2>1. SUFFICES ASSUME NEW m \in DOMAIN g.services[s].methods, NEW sep \in Separators
                 PROVE  \E j \in DOMAIN c : c[j] = Cased(Entry(g, <<s, m>>, n, sep), TRUE)
    BY Zenon DEF Whole
  <2>2. PICK e : e = Entry(g, <<s, m>>, n, sep)
    OBVIOUS
  <2>3. PICK j \in DOMAIN a : a[j] = e
    BY <1>4, <1>5, <2>2, Zenon DEF Whole
  <2>4. j \in DOMAIN c /\ c[j] = Cased(e, TRUE)
    BY <1>2, <1>3, <2>3, Zenon
  <2> QED BY <2>2, <2>4, Zenon
<1>6. \A i \in 1 .. x : c[i] \in EntryRec /\ c[i].impl = a[i].impl /\ Origin(c, i, TRUE, files, count)
  <2>1. TAKE i \in 1 .. x
  <2>2. PICK e : e = a[i] /\ e.impl = a[i].impl
    OBVIOUS
  <2>3. PICK n : n = e.impl
    OBVIOUS
  <2>4. n \in 1 .. count
    BY <1>1, <1>2, <2>2, <2>3 DEF Origin
  <2>5. PICK g \in files : \E k \in MethodsOf(g) : \E sep \in Separators :
           Known(e, FALSE, g, k, sep) /\ Whole(a, FALSE, g, k[1], n)
    BY <1>1, <1>2, <2>2, <2>3 DEF Origin
  <2>6. PICK k \in MethodsOf(g), sep \in Separators :
           Known(e, FALSE, g, k, sep) /\ Whole(a, FALSE, g, k[1], n)
    BY <2>5
  <2>7. e = Entry(g, k, n, sep)
    BY <1>4, <2>3, <2>6 DEF Known
  <2>8. PICK d : d = c[i] /\ d = Cased(Entry(g, k, n, sep), TRUE)
    BY <1>3, <2>2, <2>7
  <2>9. g \in Protos /\ n \in Nat
    BY <2>4
  <2>10. IsEntry(d, TRUE, g, k, n, sep)
    BY <2>8, <2>9, EntryFacts
  <2>11. d \in EntryRec /\ d.impl = n /\ Known(d, TRUE, g, k, sep)
    BY <2>10, Zenon DEF IsEntry
  <2>12. Whole(c, TRUE, g, k[1], n)
    BY <1>5, <2>6, Zenon
  <2>13. Origin(c, i, TRUE, files, count)
    BY <2>4, <2>8, <2>11, <2>12, Zenon DEF Origin
  <2> QED BY <2>2, <2>3, <2>8, <2>11, <2>13
<1>7. c \in Seq(EntryRec)
  <2>1. c = [i \in 1 .. x |-> [a[i] EXCEPT !.uri = Lower(@)]]
    BY <1>2, Zenon DEF Stored
  <2>2. c \in [1 .. x -> EntryRec]
    BY <1>6, <2>1
  <2> QED BY <2>2
<1>8. Ordered(c)
  BY <1>1, <1>2, <1>3, <1>6, Zenon DEF Ordered
<1> QED BY <1>3, <1>6, <1>7, <1>8, RegisteredParts, Zenon

-----------------------------------------------------------------------------
(* Lookups *)

\* The directive of a configuration belongs to a module and a service.
LEMMA OwnerFacts ==
    ASSUME BuiltInv, NEW id \in DirectiveIds
    PROVE  /\ Owner(id)[1] \in DOMAIN built
           /\ Owner(id)[2] \in DOMAIN built[Owner(id)[1]].services
<1> DEFINE Has(p) == \E s \in DOMAIN built[p].services : SetHandlerId(built[p], built[p].services[s]) = id
           First(p) == /\ Has(p)
                       /\ \A q \in 1 .. p - 1 : \A s \in DOMAIN built[q].services :
                             SetHandlerId(built[q], built[q].services[s]) # id
<1>1. PICK n \in Nat : DOMAIN built = 1 .. n
  BY DEF BuiltInv
<1>2. PICK H : H = {p \in DOMAIN built : Has(p)}
  OBVIOUS
<1>3. H # {}
  BY <1>2 DEF DirectiveIds
<1>4. H \in SUBSET Nat
  BY <1>1, <1>2
<1>5. PICK p \in H : \A q \in H : p <= q
  BY <1>3, <1>4, LeastOf
<1>6. p \in 1 .. n /\ Has(p)
  BY <1>1, <1>2, <1>5
<1>7. \A q \in 1 .. p - 1 : q \in 1 .. n /\ ~(p <= q)
  BY <1>6
<1>8. \A q \in 1 .. p - 1 : ~Has(q)
  BY <1>1, <1>2, <1>5, <1>7
<1>9. First(p)
  BY <1>6, <1>8, Zenon
<1>10. PICK o : o = CHOOSE r \in DOMAIN built : First(r)
  OBVIOUS
<1>11. o \in DOMAIN built /\ First(o)
  BY <1>1, <1>6, <1>9, <1>10, Zenon
<1>12. PICK t : t = CHOOSE s \in DOMAIN built[o].services : SetHandlerId(built[o], built[o].services[s]) = id
  OBVIOUS
<1>13. t \in DOMAIN built[o].services
  BY <1>11, <1>12, Zenon
<1>14. Owner(id) = <<o, t>>
  BY <1>10, <1>12, Zenon DEF Owner
<1>15. Owner(id)[1] = o /\ Owner(id)[2] = t
  BY <1>14
<1> QED BY <1>11, <1>13, <1>15, Zenon

\* Entry i is the first one of the table with a name, so the one that is found.
FirstAt(i, uri) ==
    /\ i \in DOMAIN table /\ table[i].uri = uri /\ Find(uri) = table[i]
    /\ \A j \in DOMAIN table : table[j].uri = uri => i <= j

LEMMA FindFacts ==
    ASSUME NEW n \in Nat, DOMAIN table = 1 .. n, NEW uri
    PROVE  IF \E j \in DOMAIN table : table[j].uri = uri
           THEN \E i \in DOMAIN table : FirstAt(i, uri)
           ELSE Find(uri) = NoMethod
<1>1. PICK H : H = {i \in DOMAIN table : table[i].uri = uri}
  OBVIOUS
<1>2. Find(uri) = IF H = {} THEN NoMethod ELSE table[CHOOSE i \in H : \A j \in H : i <= j]
  <2>1. Find(uri) = FirstOf(H)
    BY <1>1, Zenon DEF Find
  <2>2. FirstOf(H) = IF H = {} THEN NoMethod ELSE table[CHOOSE i \in H : \A j \in H : i <= j]
    BY Zenon DEF FirstOf
  <2> QED BY <2>1, <2>2, Zenon
<1>3. H \in SUBSET Nat
  BY <1>1
<1>4. CASE H = {}
  BY <1>1, <1>2, <1>4
<1>5. CASE H # {}
  <2>1. \E i \in H : \A j \in H : i <= j
    BY <1>3, <1>5, LeastOf
  <2>2. PICK o : o = CHOOSE i \in H : \A j \in H : i <= j
    OBVIOUS
  <2>3. o \in H /\ \A j \in H : o <= j
    BY <2>1, <2>2, Zenon
  <2>4. Find(uri) = table[o]
    BY <1>2, <1>5, <2>2, Zenon
  <2>5. FirstAt(o, uri)
    BY <1>1, <2>3, <2>4, Zenon DEF FirstAt
  <2> QED BY <1>1, <2>3, <2>5, Zenon
<1> QED BY <1>4, <1>5

\* An entry of the table comes from a method of a module.
LEMMA TableFacts ==
    ASSUME MethodsInv, NEW i \in DOMAIN table
    PROVE  \E f \in Range(built) : \E k \in MethodsOf(f) : \E sep \in Separators : \E n \in Nat :
              /\ f \in Protos /\ Builds(f) /\ n # 0
              /\ IsEntry(table[i], TRUE, f, k, n, sep) /\ Whole(table, TRUE, f, k[1], n)
<1>1. Registered(table, TRUE, Range(built), instances) /\ instances \in Nat /\ built \in Seq(Protos)
  BY DEF MethodsInv, BuiltInv
<1>2. Origin(table, i, TRUE, Range(built), instances)
  BY <1>1, RegisteredParts, Zenon
<1>3. PICK e, n : e = table[i] /\ n = e.impl
  OBVIOUS
<1>4. n \in 1 .. instances
  BY <1>2, <1>3 DEF Origin
<1>5. PICK f \in Range(built) : \E k \in MethodsOf(f) : \E sep \in Separators :
         Known(e, TRUE, f, k, sep) /\ Whole(table, TRUE, f, k[1], n)
  BY <1>2, <1>3, Zenon DEF Origin
<1>6. PICK k \in MethodsOf(f), sep \in Separators :
         Known(e, TRUE, f, k, sep) /\ Whole(table, TRUE, f, k[1], n)
  BY <1>5
<1>7. f \in Protos /\ Builds(f)
  BY <1>1, RangeFacts DEF MethodsInv, BuiltInv
<1>8. n \in Nat /\ n # 0
  BY <1>1, <1>4
<1>9. e = Cased(Entry(f, k, n, sep), TRUE)
  BY <1>3, <1>6, Zenon DEF Known
<1>10. IsEntry(e, TRUE, f, k, n, sep)
  BY <1>7, <1>8, <1>9, EntryFacts
<1> QED BY <1>3, <1>6, <1>7, <1>8, <1>10, Zenon

-----------------------------------------------------------------------------
(* The invariant *)

LEMMA InitMethods ==
    ASSUME Init
    PROVE  MethodsInv
<1>1. built = <<>> /\ left = Protos /\ method_array = <<>> /\ instances = 0 /\ table = <<>>
  BY DEF Init
<1>2. Range(built) = {} /\ built \in Seq(Protos)
  BY <1>1 DEF Range
<1>3. BuiltInv
  BY <1>1, <1>2 DEF BuiltInv
<1>4. /\ Registered(method_array, FALSE, Range(built), instances)
      /\ Registered(table, TRUE, Range(built), instances)
  BY <1>1, NoneRegistered
<1>5. answer.method = NoMethod
  BY DEF Init
<1>6. Answered(answer, Range(built))
  BY <1>5 DEF Answered
<1> QED BY <1>1, <1>3, <1>4, <1>6 DEF MethodsInv

LEMMA AnsweredGrows ==
    ASSUME NEW ans, NEW files, NEW more, files \subseteq more, Answered(ans, files)
    PROVE  Answered(ans, more)
  BY Zenon DEF Answered

LEMMA BuildStep ==
    ASSUME MethodsInv, NEW f \in Protos, Build(f)
    PROVE  MethodsInv'
<1>1. /\ left' \subseteq left /\ built' = IF Builds(f) THEN Append(built, f) ELSE built
      /\ UNCHANGED <<method_array, instances, table, answer>>
  BY DEF Build
<1>2. BuiltInv /\ instances \in Nat
  BY DEF MethodsInv
<1>3. /\ built' \in Seq(Protos) /\ Range(built) \subseteq Range(built')
      /\ \A g \in Range(built') : Builds(g)
  <2>1. CASE ~Builds(f)
    BY <1>1, <1>2, <2>1 DEF BuiltInv
  <2>2. CASE Builds(f)
    <3>1. PICK b : b = Append(built, f) /\ b = built'
      BY <1>1, <2>2
    <3>2. PICK a : a = built /\ a \in Seq(Protos) /\ b = Append(a, f)
      BY <1>2, <3>1, Zenon DEF BuiltInv
    <3>3. b \in Seq(Protos) /\ \A x : x \in Range(b) <=> x \in Range(a) \/ x = f
      <4>1. Adds(b, a, f, Protos)
        BY <3>2, Appended
      <4> QED BY <4>1, Zenon DEF Adds
    <3> QED BY <1>2, <2>2, <3>1, <3>2, <3>3, Zenon DEF BuiltInv
  <2> QED BY <2>1, <2>2
<1>4. BuiltInv'
  BY <1>1, <1>2, <1>3 DEF BuiltInv
<1>5. PICK R, T : R = Range(built) /\ T = Range(built')
  OBVIOUS
<1>6. R \subseteq T /\ instances <= instances
  BY <1>2, <1>3, <1>5
<1>7. /\ Registered(method_array, FALSE, R, instances) /\ Registered(table, TRUE, R, instances)
      /\ Answered(answer, R)
  BY <1>5 DEF MethodsInv
<1>8. Registered(method_array, FALSE, T, instances) /\ Registered(table, TRUE, T, instances)
  BY <1>2, <1>6, <1>7, RegisteredGrows
<1>9. Answered(answer, T)
  BY <1>6, <1>7, AnsweredGrows
<1>10. /\ Registered(method_array', FALSE, Range(built'), instances')
       /\ Registered(table', TRUE, Range(built'), instances')
       /\ Answered(answer', Range(built'))
  BY <1>1, <1>5, <1>8, <1>9, Zenon
<1>11. instances' \in Nat
  BY <1>1, <1>2
<1> QED BY <1>4, <1>10, <1>11 DEF MethodsInv

LEMMA ReadConfStep ==
    ASSUME MethodsInv, ReadConf
    PROVE  MethodsInv'
<1>1. method_array' = <<>> /\ left' = {} /\ UNCHANGED <<built, instances, table, answer>>
  BY DEF ReadConf
<1>2. Registered(method_array', FALSE, Range(built'), instances')
  BY <1>1, NoneRegistered
<1>3. BuiltInv'
  BY <1>1 DEF MethodsInv, BuiltInv
<1>4. /\ instances' \in Nat
      /\ Registered(table', TRUE, Range(built'), instances')
      /\ Answered(answer', Range(built'))
  BY <1>1, Zenon DEF MethodsInv
<1> QED BY <1>2, <1>3, <1>4 DEF MethodsInv

LEMMA SetHandlerStep ==
    ASSUME MethodsInv, NEW id \in DirectiveIds, SetHandler(id)
    PROVE  MethodsInv'
<1>1. PICK p, s : p = Owner(id)[1] /\ s = Owner(id)[2]
  OBVIOUS
<1>2. /\ instances' = instances + 1
      /\ method_array' = method_array \o ServiceEntries(built[p], s, instances + 1)
      /\ UNCHANGED <<built, left, table, answer>>
  BY <1>1 DEF SetHandler
<1>3. BuiltInv /\ instances \in Nat
  BY DEF MethodsInv
<1>4. p \in DOMAIN built /\ s \in DOMAIN built[p].services
  BY <1>1, <1>3, OwnerFacts
<1>5. PICK R : R = Range(built)
  OBVIOUS
<1>6. R \in SUBSET Protos
  BY <1>3, <1>5, RangeFacts DEF BuiltInv
<1>7. PICK f \in R : f = built[p]
  BY <1>4, <1>5 DEF Range
<1>8. PICK n \in Nat : n = instances + 1
  BY <1>3
<1>9. PICK a, c : a = method_array /\ c = a \o ServiceEntries(f, s, n) /\ c = method_array'
  BY <1>2, <1>7, <1>8
<1>10. Registered(a, FALSE, R, instances)
  BY <1>5, <1>9 DEF MethodsInv
<1>11. Registered(c, FALSE, R, n)
  BY <1>3, <1>4, <1>6, <1>7, <1>8, <1>9, <1>10, Extended
<1>12. Registered(table, TRUE, R, n)
  <2>1. Registered(table, TRUE, R, instances)
    BY <1>5, Zenon DEF MethodsInv
  <2>2. R \subseteq R /\ instances <= n
    BY <1>3, <1>8
  <2> QED BY <1>3, <2>1, <2>2, RegisteredGrows
<1>13. BuiltInv'
  BY <1>2, <1>3 DEF BuiltInv
<1>14. /\ instances' \in Nat
       /\ Registered(method_array', FALSE, Range(built'), instances')
       /\ Registered(table', TRUE, Range(built'), instances')
  BY <1>2, <1>5, <1>8, <1>9, <1>11, <1>12, Zenon
<1>15. Answered(answer', Range(built'))
  BY <1>2, Zenon DEF MethodsInv
<1> QED BY <1>13, <1>14, <1>15 DEF MethodsInv

LEMMA PostConfigurationStep ==
    ASSUME MethodsInv, PostConfiguration
    PROVE  MethodsInv'
<1>1. table' = Stored(method_array) /\ UNCHANGED <<built, left, method_array, instances, answer>>
  BY DEF PostConfiguration
<1>2. BuiltInv /\ instances \in Nat
  BY DEF MethodsInv
<1>3. PICK R : R = Range(built)
  OBVIOUS
<1>4. R \in SUBSET Protos
  BY <1>2, <1>3, RangeFacts DEF BuiltInv
<1>5. Registered(method_array, FALSE, R, instances)
  BY <1>3 DEF MethodsInv
<1>6. PICK c : c = Stored(method_array)
  OBVIOUS
<1>7. Registered(c, TRUE, R, instances)
  BY <1>2, <1>4, <1>5, <1>6, Lowered
<1>8. BuiltInv'
  BY <1>1, <1>2 DEF BuiltInv
<1>9. /\ instances' \in Nat
      /\ Registered(method_array', FALSE, Range(built'), instances')
      /\ Answered(answer', Range(built'))
  BY <1>1, Zenon DEF MethodsInv
<1>10. Registered(table', TRUE, Range(built'), instances')
  BY <1>1, <1>3, <1>6, <1>7, Zenon
<1> QED BY <1>8, <1>9, <1>10 DEF MethodsInv

LEMMA RequestStep ==
    ASSUME MethodsInv, NEW uri, Request(uri)
    PROVE  MethodsInv'
<1>1. /\ answer' = [uri |-> uri, method |-> Find(uri)]
      /\ UNCHANGED <<built, left, method_array, instances, table>>
  BY DEF Request
<1>2. PICK ans, e : ans = answer' /\ e = Find(uri)
  OBVIOUS
<1>3. ans.uri = uri /\ ans.method = e
  BY <1>1, <1>2
<1>4. Answered(ans, Range(built))
  <2>1. SUFFICES ASSUME e # NoMethod
                 PROVE  /\ uri = e.uri /\ e.impl \in Nat
                        /\ \E f \in Range(built) : \E k \in MethodsOf(f) : \E sep \in Separators :
                              Known(e, TRUE, f, k, sep)
    BY <1>3, Zenon DEF Answered
  <2>2. table \in Seq(EntryRec)
    BY RegisteredParts, Zenon DEF MethodsInv
  <2>3. PICK n \in Nat : DOMAIN table = 1 .. n
    BY <2>2
  <2>4. PICK i \in DOMAIN table : FirstAt(i, uri)
    BY <1>2, <2>1, <2>3, FindFacts
  <2>5. table[i] = e /\ e.uri = uri
    BY <1>2, <2>4, Zenon DEF FirstAt
  <2>6. PICK f \in Range(built) : \E k \in MethodsOf(f) : \E sep \in Separators : \E m \in Nat :
           IsEntry(e, TRUE, f, k, m, sep)
    BY <2>5, TableFacts, Zenon
  <2> QED BY <2>5, <2>6, Zenon DEF IsEntry
<1>5. BuiltInv'
  BY <1>1 DEF MethodsInv, BuiltInv
<1>6. /\ instances' \in Nat
      /\ Registered(method_array', FALSE, Range(built'), instances')
      /\ Registered(table', TRUE, Range(built'), instances')
      /\ Answered(answer', Range(built'))
  BY <1>1, <1>2, <1>4, Zenon DEF MethodsInv
<1> QED BY <1>5, <1>6 DEF MethodsInv

(* What the configurations register is there service by service, so that   *)
(* every name of the table belongs to a method that was compiled, in the   *)
(* order of the instances (ngx_http_rpc_postconfiguration).                *)
THEOREM MethodsInvariant == Spec => []MethodsInv
<1>1. Init => MethodsInv
  BY InitMethods
<1>2. MethodsInv /\ [Next]_vars => MethodsInv'
  <2>1. SUFFICES ASSUME MethodsInv, [Next]_vars
                 PROVE  MethodsInv'
    OBVIOUS
  <2>2. ASSUME NEW f \in Protos, Build(f)
        PROVE  MethodsInv'
    BY <2>1, <2>2, BuildStep
  <2>3. CASE ReadConf
    BY <2>1, <2>3, ReadConfStep
  <2>4. ASSUME NEW id \in DirectiveIds, SetHandler(id)
        PROVE  MethodsInv'
    BY <2>1, <2>4, SetHandlerStep
  <2>5. CASE PostConfiguration
    BY <2>1, <2>5, PostConfigurationStep
  <2>6. CASE Refuse
    BY <2>1, <2>6, Zenon DEF Refuse, MethodsInv, BuiltInv
  <2>7. ASSUME NEW uri \in Names \cup {Lower(u) : u \in Names}, Request(uri)
        PROVE  MethodsInv'
    BY <2>1, <2>7, RequestStep
  <2>8. CASE UNCHANGED vars
    BY <2>1, <2>8, Zenon DEF vars, MethodsInv, BuiltInv
  <2> QED BY <2>1, <2>2, <2>3, <2>4, <2>5, <2>6, <2>7, <2>8, Zenon DEF Next
<1> QED BY <1>1, <1>2, PTL DEF Spec

-----------------------------------------------------------------------------
(* The properties *)

\* The identifiers of one module are those of one method, and a module has one name.
LEMMA OneCompiled ==
    ASSUME BuiltInv, NEW f \in Range(built), NEW k \in MethodsOf(f), NEW e,
           e.proto = f.name, e.handler = HandlerId(f, Service(f, k), Method(f, k))
    PROVE  Handlers(e) = {<<f, k>>}
<1>1. f \in Protos /\ Builds(f)
  BY RangeFacts DEF BuiltInv
<1>2. PICK x : x = <<f, k>> /\ x[1] = f /\ x[2] = k
  <2>1. <<f, k>>[1] = f /\ <<f, k>>[2] = k
    BY PairFacts
  <2> QED BY <2>1, Zenon
<1>3. x \in Compiled(e)
  BY <1>2 DEF Compiled
<1>4. x \in Handlers(e)
  BY <1>2, <1>3 DEF Handlers
<1>5. ASSUME NEW y \in Handlers(e)
      PROVE  y = x
  <2>1. y \in Compiled(e) /\ HandlerId(y[1], Service(y[1], y[2]), Method(y[1], y[2])) = e.handler
    BY DEF Handlers
  <2>2. PICK g \in Range(built) : g.name = e.proto /\ y \in {<<g, j>> : j \in MethodsOf(g)}
    BY <2>1 DEF Compiled
  <2>3. PICK j \in MethodsOf(g) : y = <<g, j>> /\ y[1] = g /\ y[2] = j
    BY <2>2
  <2>4. g \in Protos /\ Builds(g)
    BY RangeFacts DEF BuiltInv
  <2>5. g = f
    BY <1>1, <2>2, <2>4, ProtosAssumption DEF Builds
  <2>6. HandlerId(f, Service(f, j), Method(f, j)) = HandlerId(f, Service(f, k), Method(f, k))
    BY <2>1, <2>3, <2>5
  <2>7. j = k
    BY <1>1, <2>3, <2>5, <2>6 DEF Builds
  <2> QED BY <1>2, <2>3, <2>5, <2>7
<1> QED BY <1>2, <1>4, <1>5

\* The lookup that ngx_http_rpc_http_handler makes finds one compiled method.
LEMMA OneMethod ==
    ASSUME MethodsInv
    PROVE  CaseOnly
<1>1. PICK e : e = answer.method
  OBVIOUS
<1>2. SUFFICES ASSUME e # NoMethod
               PROVE  /\ Cardinality(Handlers(e)) = 1
                      /\ \A x \in Handlers(e) : \E sep \in Separators :
                            answer.uri = Lower(Uri(x[1], Service(x[1], x[2]), Method(x[1], x[2]), sep))
  BY <1>1, Zenon DEF CaseOnly
<1>3. answer.uri = e.uri /\ e.impl \in Nat
  BY <1>1, <1>2 DEF MethodsInv, Answered
<1>4. PICK f \in Range(built) : \E k \in MethodsOf(f) : \E sep \in Separators : Known(e, TRUE, f, k, sep)
  BY <1>1, <1>2, Zenon DEF MethodsInv, Answered
<1>5. PICK k \in MethodsOf(f), sep \in Separators : Known(e, TRUE, f, k, sep)
  BY <1>4
<1>6. BuiltInv /\ f \in Protos
  BY RangeFacts DEF MethodsInv, BuiltInv
<1>7. PICK n \in Nat : n = e.impl /\ e = Cased(Entry(f, k, n, sep), TRUE)
  BY <1>3, <1>5 DEF Known
<1>8. IsEntry(e, TRUE, f, k, n, sep)
  BY <1>6, <1>7, EntryFacts
<1>9. /\ e.proto = f.name /\ e.handler = HandlerId(f, Service(f, k), Method(f, k))
      /\ e.uri = Lower(Uri(f, Service(f, k), Method(f, k), sep))
  BY <1>8, Zenon DEF IsEntry
<1>10. Handlers(e) = {<<f, k>>}
  BY <1>6, <1>9, OneCompiled
<1>11. Cardinality({<<f, k>>}) = 1
  BY FS_Singleton
<1>12. PICK x : x = <<f, k>> /\ x[1] = f /\ x[2] = k
  <2>1. <<f, k>>[1] = f /\ <<f, k>>[2] = k
    BY PairFacts
  <2> QED BY <2>1, Zenon
<1>13. \A y \in Handlers(e) : y = x
  BY <1>10, <1>12
<1>14. answer.uri = Lower(Uri(x[1], Service(x[1], x[2]), Method(x[1], x[2]), sep))
  BY <1>3, <1>9, <1>12, Zenon
<1> QED BY <1>10, <1>11, <1>13, <1>14, Zenon

(* A request is served by one compiled method whose name, in lower case,   *)
(* is the URI that was sent, for every set of .proto files, every order of *)
(* the directives and over reloads (ngx_http_rpc_http_handler).            *)
THEOREM MethodsCaseOnly == Spec => []CaseOnly
  BY MethodsInvariant, OneMethod, PTL

LEMMA ForwardFound ==
    ASSUME MethodsInv
    PROVE  ForwardReaches
<1>1. SUFFICES ASSUME NEW uri \in Forwarding, Find(uri) # NoMethod
               PROVE  /\ Find(ForwardPath) # NoMethod
                      /\ \/ Find(ForwardPath).impl = Find(uri).impl
                         \/ Find(ForwardPath).proto # Find(uri).proto
  BY Zenon DEF ForwardReaches
<1>2. PICK e, t : e = Find(uri) /\ t = Find(ForwardPath)
  OBVIOUS
<1>3. table \in Seq(EntryRec) /\ Ordered(table)
  BY RegisteredParts, Zenon DEF MethodsInv
<1>4. PICK len \in Nat : DOMAIN table = 1 .. len
  BY <1>3
<1>5. PICK i \in DOMAIN table : FirstAt(i, uri)
  BY <1>1, <1>4, FindFacts
<1>6. table[i] = e /\ e.uri = uri
  BY <1>2, <1>5, Zenon DEF FirstAt
<1>7. PICK f \in Range(built) : \E k \in MethodsOf(f) : \E sep \in Separators : \E n \in Nat :
         /\ f \in Protos /\ Builds(f) /\ n # 0
         /\ IsEntry(e, TRUE, f, k, n, sep) /\ Whole(table, TRUE, f, k[1], n)
  BY <1>6, TableFacts, Zenon
<1>8. PICK k \in MethodsOf(f), sep \in Separators, n \in Nat :
         /\ f \in Protos /\ Builds(f) /\ n # 0
         /\ IsEntry(e, TRUE, f, k, n, sep) /\ Whole(table, TRUE, f, k[1], n)
  BY <1>7
<1>9. PICK s : s = k[1]
  OBVIOUS
<1>10. s \in DOMAIN f.services /\ Service(f, k) = f.services[s]
  BY <1>8, <1>9, MethodFacts
<1>11. PICK m \in DOMAIN f.services[s].methods :
          Lower(Uri(f, f.services[s], f.services[s].methods[m], "/")) = ForwardPath
  <2>1. Lower(Uri(f, Service(f, k), Method(f, k), sep)) = uri
    BY <1>6, <1>8, Zenon DEF IsEntry
  <2>2. \E w \in Range(Service(f, k).methods) : Lower(Uri(f, Service(f, k), w, "/")) = ForwardPath
    BY <1>8, <2>1, ForwardAssumption
  <2> QED BY <1>10, <2>2 DEF Range
<1>12. PICK l : /\ l = <<s, m>> /\ l \in MethodsOf(f)
                /\ Service(f, l) = f.services[s] /\ Method(f, l) = f.services[s].methods[m]
  <2>1. PICK l : l = <<s, m>> /\ l[1] = s /\ l[2] = m
    <3>1. <<s, m>>[1] = s /\ <<s, m>>[2] = m
      BY PairFacts
    <3> QED BY <3>1, Zenon
  <2>2. l \in MethodsOf(f)
    BY <1>10, <2>1, MethodOf
  <2> QED BY <2>1, <2>2, Zenon DEF Service, Method
<1>13. "/" \in Separators
  BY DEF Separators
<1>14. PICK j \in DOMAIN table : table[j] = Cased(Entry(f, l, n, "/"), TRUE)
  BY <1>8, <1>9, <1>11, <1>12, <1>13, Zenon DEF Whole
<1>15. IsEntry(table[j], TRUE, f, l, n, "/")
  BY <1>8, <1>12, <1>13, <1>14, EntryFacts
<1>16. table[j].uri = ForwardPath /\ table[j].impl = n
  BY <1>11, <1>12, <1>15, Zenon DEF IsEntry
<1>17. PICK h \in DOMAIN table : FirstAt(h, ForwardPath)
  BY <1>4, <1>16, FindFacts
<1>18. table[h] = t /\ t.uri = ForwardPath /\ h <= j
  BY <1>2, <1>16, <1>17, Zenon DEF FirstAt
<1>19. PICK g \in Range(built) : \E q \in MethodsOf(g) : \E mark \in Separators : \E v \in Nat :
         /\ g \in Protos /\ Builds(g) /\ v # 0
         /\ IsEntry(t, TRUE, g, q, v, mark) /\ Whole(table, TRUE, g, q[1], v)
  BY <1>18, TableFacts, Zenon
<1>20. PICK q \in MethodsOf(g), mark \in Separators, v \in Nat :
         /\ g \in Protos /\ Builds(g) /\ v # 0
         /\ IsEntry(t, TRUE, g, q, v, mark) /\ Whole(table, TRUE, g, q[1], v)
  BY <1>19
<1>21. t.impl = v /\ e.impl = n /\ t.proto = g.name /\ e.proto = f.name
  BY <1>8, <1>20, Zenon DEF IsEntry
<1>22. t # NoMethod
  BY <1>20, <1>21 DEF NoMethod
<1>23. SUFFICES ASSUME g.name = f.name
                PROVE  v = n
  BY <1>2, <1>21, <1>22, Zenon
<1>24. g = f
  BY <1>8, <1>20, <1>23, ProtosAssumption DEF Builds
<1>25. v <= n
  BY <1>3, <1>16, <1>18, <1>21, Zenon DEF Ordered
<1>26. q[1] = s
  <2>1. PICK r : /\ r = q[1] /\ r \in DOMAIN f.services
                 /\ Service(f, q) = f.services[r] /\ Method(f, q) \in Seq(Words)
    BY <1>20, <1>24, MethodFacts
  <2>2. Lower(Uri(f, f.services[r], Method(f, q), mark)) = Lower(Uri(f, f.services[s], Method(f, l), "/"))
    <3>1. t.uri = Lower(Uri(f, Service(f, q), Method(f, q), mark))
      BY <1>20, <1>24, Zenon DEF IsEntry
    <3> QED BY <1>11, <1>12, <1>18, <2>1, <3>1, Zenon
  <2>3. PICK p, a, b, c, d : /\ p = f.package /\ a = f.services[r].name /\ b = Method(f, q)
                             /\ c = f.services[s].name /\ d = Method(f, l)
    OBVIOUS
  <2>4. p \in Seq(Words) /\ a \in Seq(Words) /\ b \in Seq(Words) /\ c \in Seq(Words) /\ d \in Seq(Words)
    <3>1. d \in Seq(Words)
      BY <1>8, <1>12, <2>3, MethodFacts
    <3>2. p \in Seq(Words) /\ a \in Seq(Words) /\ c \in Seq(Words)
      BY <1>8, <1>10, <2>1, <2>3, ProtoFacts
    <3> QED BY <2>1, <2>3, <3>1, <3>2
  <2>5. Lower(p \o <<mark>> \o a \o <<mark>> \o b) = Lower(p \o <<"/">> \o c \o <<"/">> \o d)
    BY <2>2, <2>3, Zenon DEF Uri
  <2>6. Lower(a) = Lower(c)
    BY <1>13, <2>4, <2>5, SameService
  <2>7. SetHandlerId(f, f.services[r]) = SetHandlerId(f, f.services[s])
    BY <2>3, <2>6, Zenon DEF SetHandlerId, ServiceLower
  <2> QED BY <1>8, <1>10, <2>1, <2>7 DEF Builds
<1>27. n <= v
  <2>1. PICK m2 : m2 = k[2] /\ m2 \in DOMAIN f.services[s].methods /\ k = <<s, m2>>
    BY <1>8, <1>9, MethodFacts
  <2>2. PICK d \in DOMAIN table : table[d] = Cased(Entry(f, k, v, sep), TRUE)
    BY <1>20, <1>24, <1>26, <2>1, Zenon DEF Whole
  <2>3. IsEntry(table[d], TRUE, f, k, v, sep)
    BY <1>8, <2>2, EntryFacts
  <2>4. table[d].uri = uri /\ table[d].impl = v
    BY <1>6, <1>8, <2>3, Zenon DEF IsEntry
  <2>5. i <= d
    BY <1>5, <2>4, Zenon DEF FirstAt
  <2> QED BY <1>3, <1>6, <1>21, <2>4, <2>5, Zenon DEF Ordered
<1> QED BY <1>25, <1>27

(* While the method that forwards is served, so is the one it forwards to, *)
(* and by the same instance unless another module has the name too         *)
(* (inspect_impl.h, requeststatus).                                        *)
THEOREM MethodsForwardReaches == Spec => []ForwardReaches
  BY MethodsInvariant, ForwardFound, PTL
=============================================================================
