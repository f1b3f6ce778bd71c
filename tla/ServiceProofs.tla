----------------------------- MODULE ServiceProofs -----------------------------
(***************************************************************************)
(* Proofs about the services of the host beside the scheduler: the         *)
(* registry of what plugins offer, the capture manager, error messages and *)
(* the Python runtime, for all plugins, codes, locales and bounds.         *)
(***************************************************************************)
EXTENDS MCHost, EndpointProofs, SettingsProofs, FiniteSetTheorems, WellFoundedInduction

-------------------------------------------------------------------------------
\* std::find_if and a search for the last one stop somewhere: a set of numbers
\* that is not empty has a least one.
LEMMA LeastNat ==
    ASSUME NEW T, T \subseteq Nat, T # {}
    PROVE  \E m \in T : \A k \in T : m <= k
<1>1. PICK R : R = {ss \in Nat \X Nat : ss[1] < ss[2]}
  OBVIOUS
<1>2. IsWellFoundedOn(R, Nat)
  BY <1>1, NatLessThanWellFounded DEF OpToRel
<1>3. PICK x \in T : \A y \in T : ~ (<<y, x>> \in R)
  BY <1>2, WFMin
<1>4. ASSUME NEW k \in T PROVE x <= k
  <2>1. x \in Nat /\ k \in Nat /\ ~(k < x)
    BY <1>1, <1>3
  <2>2. QED
    BY <2>1
<1>5. QED
  BY <1>4

-------------------------------------------------------------------------------
(***************************************************************************)
(* Registry.  The component factories stand in the order of their offers,  *)
(* and all of them are there.                                              *)
(***************************************************************************)
Replies == [from : Managers \cup {"none", "refused", "view", "resource"},
            iid : Guids \cup {NoGuid}, what : Numbers]

RegistryTypes ==
    /\ offered \in Seq(Offer) /\ Len(offered) <= MaxOffers
    /\ storage \in [Guids -> 0 .. Len(offered)]
    /\ tasks \in [Guids -> 0 .. Len(offered)] /\ lenses \in [Guids -> 0 .. Len(offered)]
    /\ captures \in Seq(1 .. Len(offered)) /\ inputs \in Seq(1 .. Len(offered))
    /\ components \in Seq(1 .. Len(offered))
    /\ views \in Seq(Seq(1 .. Len(offered)))
    /\ reply \in Replies /\ fallen \in BOOLEAN

ComponentsInOrder ==
    /\ \A i, j \in 1 .. Len(components) : i < j => components[i] < components[j]
    /\ \A n \in 1 .. Len(offered) :
         offered[n].kind = "component" <=> \E i \in 1 .. Len(components) : components[i] = n

Supporter(n, iid) == offered[n].kind = "component" /\ iid \in offered[n].iids
RightReply ==
    reply.from = "component" =>
        /\ reply.what \in 1 .. Len(offered)
        /\ Supporter(reply.what, reply.iid) \/ offered[reply.what].errs
        /\ \A n \in 1 .. reply.what - 1 : ~Supporter(n, reply.iid)

RegistryInv == RegistryTypes /\ ComponentsInOrder /\ RightReply

LEMMA RegistryInitInv == RegistryInit => RegistryInv
<1> SUFFICES ASSUME RegistryInit PROVE RegistryInv
  OBVIOUS
<1>1. /\ offered \in Seq(Offer) /\ Len(offered) = 0
      /\ captures \in Seq(1 .. Len(offered)) /\ inputs \in Seq(1 .. Len(offered))
      /\ components \in Seq(1 .. Len(offered)) /\ Len(components) = 0
      /\ views \in Seq(Seq(1 .. Len(offered)))
  BY DEF RegistryInit
<1>2. 0 <= MaxOffers /\ 0 \in 0 .. Len(offered) /\ 0 \in Numbers
  BY <1>1, RegistryAssumption DEF Numbers
<1>3. /\ storage \in [Guids -> 0 .. Len(offered)]
      /\ tasks \in [Guids -> 0 .. Len(offered)] /\ lenses \in [Guids -> 0 .. Len(offered)]
      /\ reply \in Replies /\ fallen \in BOOLEAN /\ reply.from = "none"
  BY <1>2 DEF RegistryInit, NoReply, Replies
<1>4. RegistryTypes
  BY <1>1, <1>2, <1>3 DEF RegistryTypes
<1>5. ComponentsInOrder /\ RightReply
  BY <1>1, <1>3 DEF ComponentsInOrder, RightReply
<1>6. QED
  BY <1>4, <1>5 DEF RegistryInv

\* The first one std::find_if comes to.
LEMMA FirstIs ==
    ASSUME NEW N \in Nat, NEW v \in Seq(1 .. N), NEW good
    PROVE  \/ FirstOf(v, good) = 0 /\ \A i \in 1 .. Len(v) : v[i] \notin good
           \/ \E i \in 1 .. Len(v) :
                /\ FirstOf(v, good) = v[i] /\ v[i] \in good /\ v[i] \in 1 .. N
                /\ \A j \in 1 .. Len(v) : v[j] \in good => i <= j
<1> DEFINE found == {i \in DOMAIN v : v[i] \in good}
<1>1. DOMAIN v = 1 .. Len(v) /\ Len(v) \in Nat /\ \A i \in 1 .. Len(v) : v[i] \in 1 .. N
  BY LenProperties, ElementOfSeq
<1>2. CASE found = {}
  BY <1>1, <1>2 DEF FirstOf
<1>3. CASE found # {}
  <2>1. found \subseteq Nat
    BY <1>1
  <2>2. \E i \in found : \A j \in found : i <= j
    BY <1>3, <2>1, LeastNat
  <2> DEFINE first == CHOOSE i \in found : \A j \in found : i <= j
  <2>3. first \in found /\ \A j \in found : first <= j
    BY <2>2
  <2>4. FirstOf(v, good) = v[first]
    BY <1>3 DEF FirstOf
  <2> HIDE DEF first
  <2>5. QED
    BY <1>1, <2>3, <2>4
<1>4. QED
  BY <1>2, <1>3

\* A look-up changes the answer only.
LEMMA LookUpKeeps ==
    ASSUME RegistryInv, UNCHANGED <<offered, maps, vectors, views>>,
           reply' \in Replies, fallen' \in BOOLEAN, RightReply'
    PROVE  RegistryInv'
  BY DEF RegistryInv, RegistryTypes, ComponentsInOrder, maps, vectors

LEMMA AnswerIs ==
    ASSUME NEW from \in Managers \cup {"view", "resource"}, NEW iid \in Guids,
           NEW what \in Numbers, Answer(from, iid, what)
    PROVE  /\ reply' \in Replies /\ reply'.iid = iid /\ reply'.what = what
           /\ reply'.from = IF what = 0 THEN "refused" ELSE from
  BY DEF Answer, Replies

LEMMA FindIsNumber ==
    ASSUME RegistryTypes, NEW v \in Seq(1 .. Len(offered)), NEW good
    PROVE  FirstOf(v, good) \in Numbers
<1>1. Len(offered) \in Nat /\ Len(offered) <= MaxOffers /\ MaxOffers \in Nat
  BY LenProperties, RegistryAssumption DEF RegistryTypes
<1>2. FirstOf(v, good) \in 0 .. Len(offered)
  BY <1>1, FirstIs
<1>3. QED
  BY <1>1, <1>2 DEF Numbers

LEMMA CreateKeepsRegistry ==
    ASSUME RegistryInv, NEW iid \in Guids, CreateComponent(iid) PROVE RegistryInv'
<1> DEFINE good == {n \in DOMAIN offered : IsSupported(n, iid) # "false"}
           what == FirstOf(components, good)
<1>1. /\ UNCHANGED <<offered, maps, vectors, views, fallen>>
      /\ Answer("component", iid, what) /\ what \in Numbers
  BY FindIsNumber DEF CreateComponent, FindSupportedFactory, RegistryInv, RegistryTypes
<1>2. DOMAIN offered = 1 .. Len(offered) /\ Len(offered) \in Nat
  BY LenProperties DEF RegistryInv, RegistryTypes
<1>3. components \in Seq(1 .. Len(offered)) /\ Len(components) \in Nat
  BY LenProperties DEF RegistryInv, RegistryTypes
<1>4. /\ reply' \in Replies /\ reply'.iid = iid /\ reply'.what = what
      /\ reply'.from = IF what = 0 THEN "refused" ELSE "component"
  BY <1>1, AnswerIs DEF Managers
<1>5. ASSUME what # 0
      PROVE  /\ what \in 1 .. Len(offered)
             /\ Supporter(what, iid) \/ offered[what].errs
             /\ \A n \in 1 .. what - 1 : ~Supporter(n, iid)
  <2>1. PICK i \in 1 .. Len(components) :
            /\ what = components[i] /\ components[i] \in good
            /\ components[i] \in 1 .. Len(offered)
            /\ \A j \in 1 .. Len(components) : components[j] \in good => i <= j
    BY <1>2, <1>3, <1>5, FirstIs
  <2>2. offered[what].kind = "component"
    BY <2>1 DEF RegistryInv, ComponentsInOrder
  <2>3. iid \in offered[what].iids \/ offered[what].errs
    BY <2>1 DEF IsSupported
  <2>4. ASSUME NEW n \in 1 .. what - 1, Supporter(n, iid) PROVE FALSE
    <3>1. n \in 1 .. Len(offered) /\ n < what
      BY <1>2, <2>1
    <3>2. PICK j \in 1 .. Len(components) : components[j] = n
      BY <2>4, <3>1 DEF RegistryInv, ComponentsInOrder, Supporter
    <3>3. n \in good
      BY <1>2, <2>4, <3>1 DEF IsSupported, Supporter
    <3>4. i <= j
      BY <2>1, <3>2, <3>3
    <3>5. i = j \/ components[i] < components[j]
      BY <1>3, <3>4 DEF RegistryInv, ComponentsInOrder
    <3>6. QED
      BY <1>2, <2>1, <3>1, <3>2, <3>5
  <2>5. QED
    BY <2>1, <2>2, <2>3, <2>4 DEF Supporter
<1> HIDE DEF what
<1>6. RightReply'
  BY <1>1, <1>4, <1>5 DEF RightReply, Supporter
<1>7. QED
  BY <1>1, <1>4, <1>6, LookUpKeeps DEF RegistryInv, RegistryTypes

\* The other look-ups do not answer from the components.
LEMMA OtherAnswer ==
    ASSUME NEW from \in {"capture", "lens", "input", "view", "resource"},
           NEW iid \in Guids, NEW what \in Numbers, Answer(from, iid, what)
    PROVE  reply' \in Replies /\ RightReply'
<1>1. reply' \in Replies /\ reply'.from \in {"refused", from}
  BY AnswerIs DEF Managers
<1>2. QED
  BY <1>1 DEF RightReply

LEMMA FindKeepsRegistry ==
    ASSUME RegistryInv, NEW iid \in Guids,
           FindInterface(iid) \/ DasPluginLoadImageFromResource(iid)
             \/ \E i \in 1 .. MaxViews : FindInView(i, iid)
    PROVE  RegistryInv'
<1>1. /\ tasks \in [Guids -> 0 .. Len(offered)] /\ lenses \in [Guids -> 0 .. Len(offered)]
      /\ captures \in Seq(1 .. Len(offered)) /\ inputs \in Seq(1 .. Len(offered))
      /\ views \in Seq(Seq(1 .. Len(offered))) /\ Len(offered) \in Nat
      /\ Len(offered) <= MaxOffers /\ MaxOffers \in Nat /\ RegistryTypes /\ fallen \in BOOLEAN
  BY LenProperties, RegistryAssumption DEF RegistryInv, RegistryTypes
<1>2. 0 \in Numbers /\ lenses[iid] \in Numbers
  BY <1>1 DEF Numbers
<1>3. CASE FindInterface(iid)
  <2>1. UNCHANGED <<offered, maps, vectors, views>> /\ fallen' \in BOOLEAN
    BY <1>3 DEF FindInterface
  <2>2. Find(captures, iid) \in Numbers /\ Find(inputs, iid) \in Numbers
    BY <1>1, FindIsNumber DEF Find
  <2>3. \/ reply' = NoReply
        \/ Answer("capture", iid, Find(captures, iid))
        \/ Answer("lens", iid, lenses[iid])
        \/ Answer("input", iid, Find(inputs, iid))
    BY <1>3 DEF FindInterface
  <2>4. reply' = NoReply => reply' \in Replies /\ RightReply'
    BY <1>2 DEF NoReply, Replies, RightReply
  <2>5. reply' \in Replies /\ RightReply'
    BY <1>2, <2>2, <2>3, <2>4, OtherAnswer
  <2>6. QED
    BY <2>1, <2>5, LookUpKeeps
<1>4. CASE DasPluginLoadImageFromResource(iid)
  <2>1. UNCHANGED <<offered, maps, vectors, views>> /\ fallen' \in BOOLEAN
    BY <1>4 DEF DasPluginLoadImageFromResource, GetInterfaceStaticStorage, NoStorage
  <2>2. Answer("resource", iid, 0)
    BY <1>4 DEF DasPluginLoadImageFromResource, ReadFromFile
  <2>3. QED
    BY <1>2, <2>1, <2>2, OtherAnswer, LookUpKeeps
<1>5. ASSUME NEW i \in 1 .. MaxViews, FindInView(i, iid) PROVE RegistryInv'
  <2>1. i \in 1 .. Len(views) /\ UNCHANGED <<offered, maps, vectors, views, fallen>>
    BY <1>1, <1>5, LenProperties, RegistryAssumption DEF FindInView
  <2>2. views[i] \in Seq(1 .. Len(offered))
    BY <1>1, <2>1, ElementOfSeq
  <2>3. Answer("view", iid, Find(views[i], iid)) /\ Find(views[i], iid) \in Numbers
    BY <1>1, <1>5, <2>2, FindIsNumber DEF FindInView, Find
  <2>4. QED
    BY <1>1, <2>1, <2>3, OtherAnswer, LookUpKeeps
<1>6. QED
  BY <1>3, <1>4, <1>5

LEMMA TakeKeepsRegistry ==
    ASSUME RegistryInv, TakeInputVector PROVE RegistryInv'
<1>1. /\ views' = Append(views, inputs)
      /\ UNCHANGED <<offered, maps, vectors, reply, fallen>>
  BY DEF TakeInputVector
<1>2. views' \in Seq(Seq(1 .. Len(offered)))
  BY <1>1, AppendProperties DEF RegistryInv, RegistryTypes
<1>3. RegistryTypes'
  BY <1>1, <1>2 DEF RegistryInv, RegistryTypes, maps, vectors
<1>4. ComponentsInOrder' /\ RightReply'
  BY <1>1 DEF RegistryInv, ComponentsInOrder, RightReply, Supporter, vectors
<1>5. QED
  BY <1>3, <1>4 DEF RegistryInv

\* One interface more.
LEMMA AddKeepsRegistry ==
    ASSUME RegistryInv, NEW o \in Offers, AddInterface(o) PROVE RegistryInv'
<1> DEFINE n == Len(offered) + 1
<1>1. /\ Len(offered) \in Nat /\ DOMAIN offered = 1 .. Len(offered) /\ o \in Offer
      /\ Len(components) \in Nat
      /\ RegistryTypes
  BY LenProperties, RegistryAssumption DEF RegistryInv, RegistryTypes
<1>2. /\ n <= MaxOffers /\ offered' = Append(offered, o)
      /\ UNCHANGED <<views, reply, fallen>>
  BY DEF AddInterface
<1>3. /\ offered' \in Seq(Offer) /\ Len(offered') = n /\ n \in Nat
      /\ \A k \in 1 .. Len(offered) : offered'[k] = offered[k]
      /\ offered'[n] = o
  BY <1>1, <1>2, AppendProperties DEF RegistryTypes
<1>4. /\ 0 .. Len(offered) \subseteq 0 .. n /\ n \in 0 .. n /\ n \in 1 .. n
      /\ 1 .. Len(offered) \subseteq 1 .. n
  BY <1>1
<1>5. storage' \in [Guids -> 0 .. n]
  <2>1. storage \in [Guids -> 0 .. n]
    BY <1>1, <1>4 DEF RegistryTypes
  <2>2. \/ storage' = storage
        \/ \E g : storage' = [h \in Guids |-> IF h = g THEN n ELSE storage[h]]
    BY DEF AddInterface, RegisterInterfaceStaticStorage
  <2>3. QED
    BY <1>4, <2>1, <2>2
<1>6. tasks' \in [Guids -> 0 .. n] /\ lenses' \in [Guids -> 0 .. n]
  <2>1. tasks \in [Guids -> 0 .. n] /\ lenses \in [Guids -> 0 .. n]
    BY <1>1, <1>4 DEF RegistryTypes
  <2>2. \/ tasks' = tasks
        \/ tasks' = [g \in Guids |-> IF g = o.guid /\ tasks[g] = 0 THEN n ELSE tasks[g]]
    BY DEF AddInterface, RegisterErrorLensFromPlugin, RegisterErrorLens, RegisterTask,
           RegisterCaptureFactory, RegisterInputFactory, RegisterComponentFactory
  <2>3. \/ lenses' = lenses
        \/ lenses' = [g \in Guids |-> IF g \in o.iids \cap Official THEN n ELSE lenses[g]]
    BY DEF AddInterface, RegisterErrorLensFromPlugin, RegisterErrorLens, RegisterTask,
           RegisterCaptureFactory, RegisterInputFactory, RegisterComponentFactory
  <2>4. QED
    BY <1>4, <2>1, <2>2, <2>3
<1>7. /\ captures \in Seq(1 .. n) /\ inputs \in Seq(1 .. n) /\ components \in Seq(1 .. n)
      /\ views \in Seq(Seq(1 .. n))
  <2>1. /\ captures \in Seq(1 .. n) /\ inputs \in Seq(1 .. n) /\ components \in Seq(1 .. n)
        /\ Seq(1 .. Len(offered)) \subseteq Seq(1 .. n)
    BY <1>1, <1>4, SeqMonotonic DEF RegistryTypes
  <2>2. QED
    BY <1>1, <2>1, SeqMonotonic DEF RegistryTypes
<1>8. /\ captures' \in {captures, Append(captures, n)}
      /\ inputs' \in {inputs, Append(inputs, n)}
      /\ IF o.kind = "component" THEN components' = Append(components, n)
         ELSE components' = components
  BY DEF AddInterface, RegisterErrorLensFromPlugin, RegisterErrorLens, RegisterTask,
         RegisterCaptureFactory, RegisterInputFactory, RegisterComponentFactory, vectors
<1>9. /\ captures' \in Seq(1 .. n) /\ inputs' \in Seq(1 .. n) /\ components' \in Seq(1 .. n)
      /\ views' \in Seq(Seq(1 .. n))
  <2>1. /\ Append(captures, n) \in Seq(1 .. n) /\ Append(inputs, n) \in Seq(1 .. n)
        /\ Append(components, n) \in Seq(1 .. n)
    BY <1>4, <1>7, AppendProperties
  <2>2. QED
    BY <1>2, <1>7, <1>8, <2>1
<1> HIDE DEF n
<1>10. RegistryTypes'
  BY <1>1, <1>2, <1>3, <1>5, <1>6, <1>9 DEF RegistryTypes
<1>11. ComponentsInOrder'
  <2>1. /\ \A i \in 1 .. Len(components) : components[i] \in 1 .. Len(offered)
        /\ \A i, j \in 1 .. Len(components) : i < j => components[i] < components[j]
        /\ \A k \in 1 .. Len(offered) : offered[k].kind = "component"
             <=> \E i \in 1 .. Len(components) : components[i] = k
    BY <1>1, ElementOfSeq DEF RegistryInv, RegistryTypes, ComponentsInOrder
  <2>2. n = Len(offered) + 1
    BY DEF n
  <2>3. CASE o.kind = "component"
    <3>1. /\ Len(components') = Len(components) + 1
          /\ components'[Len(components) + 1] = n
          /\ \A i \in 1 .. Len(components) : components'[i] = components[i]
      <4>1. components' = Append(components, n)
        BY <1>8, <2>3
      <4>2. QED
        BY <1>4, <1>7, <4>1, AppendProperties
    <3>2. ASSUME NEW i \in 1 .. Len(components'), NEW j \in 1 .. Len(components'), i < j
          PROVE  components'[i] < components'[j]
      <4>1. i \in 1 .. Len(components)
        BY <1>1, <3>1, <3>2
      <4>2. CASE j \in 1 .. Len(components)
        BY <2>1, <3>1, <3>2, <4>1, <4>2
      <4>3. CASE j = Len(components) + 1
        BY <1>1, <2>1, <2>2, <3>1, <4>1, <4>3
      <4>4. QED
        BY <1>1, <3>1, <4>2, <4>3
    <3>3. ASSUME NEW k \in 1 .. Len(offered')
          PROVE  offered'[k].kind = "component"
                   <=> \E i \in 1 .. Len(components') : components'[i] = k
      <4>1. CASE k = n
        BY <1>1, <1>3, <2>3, <3>1, <4>1
      <4>2. CASE k \in 1 .. Len(offered)
        <5>1. k # n /\ offered'[k] = offered[k]
          BY <1>1, <1>3, <2>2, <4>2
        <5>2. (\E i \in 1 .. Len(components') : components'[i] = k)
                <=> \E i \in 1 .. Len(components) : components[i] = k
          BY <1>1, <3>1, <5>1
        <5>3. QED
          BY <2>1, <4>2, <5>1, <5>2
      <4>3. QED
        BY <1>1, <1>3, <2>2, <4>1, <4>2
    <3>4. QED
      BY <3>2, <3>3 DEF ComponentsInOrder
  <2>4. CASE o.kind # "component"
    <3>1. components' = components
      BY <1>8, <2>4
    <3>2. ASSUME NEW k \in 1 .. Len(offered')
          PROVE  offered'[k].kind = "component"
                   <=> \E i \in 1 .. Len(components) : components[i] = k
      <4>1. CASE k = n
        BY <1>1, <1>3, <2>1, <2>2, <2>4, <4>1
      <4>2. CASE k \in 1 .. Len(offered)
        BY <1>3, <2>1, <4>2
      <4>3. QED
        BY <1>1, <1>3, <2>2, <4>1, <4>2
    <3>3. QED
      BY <2>1, <3>1, <3>2 DEF ComponentsInOrder
  <2>5. QED
    BY <2>3, <2>4
<1>12. RightReply'
  <2>1. reply' = reply
    BY <1>2
  <2>2. ASSUME reply.from = "component"
        PROVE  /\ reply.what \in 1 .. Len(offered) /\ reply.what \in 1 .. Len(offered')
               /\ offered'[reply.what] = offered[reply.what]
               /\ \A k \in 1 .. reply.what - 1 : offered'[k] = offered[k]
    BY <1>1, <1>3, <1>4, <2>2 DEF RegistryInv, RightReply
  <2>3. QED
    BY <2>1, <2>2 DEF RegistryInv, RightReply, Supporter
<1>13. QED
  BY <1>10, <1>11, <1>12 DEF RegistryInv

LEMMA RegistryStep == RegistryInv /\ [RegistryNext]_registryVars => RegistryInv'
<1> SUFFICES ASSUME RegistryInv, [RegistryNext]_registryVars PROVE RegistryInv'
  OBVIOUS
<1>1. CASE UNCHANGED registryVars
  BY <1>1 DEF registryVars, maps, vectors, RegistryInv, RegistryTypes, ComponentsInOrder,
     RightReply, Supporter
<1>2. CASE \E o \in Offers : AddInterface(o)
  BY <1>2, AddKeepsRegistry
<1>3. ASSUME NEW iid \in Guids,
             \/ FindInterface(iid) \/ CreateComponent(iid)
             \/ DasPluginLoadImageFromResource(iid)
             \/ \E i \in 1 .. MaxViews : FindInView(i, iid)
      PROVE  RegistryInv'
  BY <1>3, FindKeepsRegistry, CreateKeepsRegistry
<1>4. CASE TakeInputVector
  BY <1>4, TakeKeepsRegistry
<1>5. QED
  BY <1>1, <1>2, <1>3, <1>4 DEF RegistryNext

LEMMA RegistryIs == RegistryInv => RegistryTypeOK /\ SupporterIsAsked
<1> SUFFICES ASSUME RegistryInv PROVE RegistryTypeOK /\ SupporterIsAsked
  OBVIOUS
<1>1. \A i \in 1 .. Len(views) : views[i] \in Seq(1 .. Len(offered))
  BY ElementOfSeq DEF RegistryInv, RegistryTypes
<1>2. RegistryTypeOK
  BY <1>1 DEF RegistryInv, RegistryTypes, RegistryTypeOK, Replies
<1>3. SupporterIsAsked
  BY DEF RegistryInv, RightReply, Supporter, SupporterIsAsked
<1>4. QED
  BY <1>2, <1>3

\* The maps, vectors and look-ups of the registry keep their types, for all offers.
THEOREM RegistryTypeCorrect == RegistrySpec => []RegistryTypeOK
<1>1. RegistrySpec => []RegistryInv
  BY RegistryInitInv, RegistryStep, PTL DEF RegistrySpec
<1>2. QED
  BY <1>1, RegistryIs, PTL

\* CreateComponent never passes over a factory that supports the guid but for an
\* earlier one, for all packages in any order (ComponentFactoryManager.cpp).
THEOREM SupportersAreAsked == RegistrySpec => []SupporterIsAsked
<1>1. RegistrySpec => []RegistryInv
  BY RegistryInitInv, RegistryStep, PTL DEF RegistrySpec
<1>2. QED
  BY <1>1, RegistryIs, PTL

-------------------------------------------------------------------------------
(***************************************************************************)
(* ErrorMessages.  What a step answers follows from the entries there are. *)
(***************************************************************************)
\* What may be answered: an explanation or none, and how it went.
Outcome == [result : {"ok", "range", "thread", "guid", "none"}, text : Said]
Answers == [by : {"nobody", "lens", "swig", "table", "exception"},
            code : Codes \cup {Nothing}, text : Said,
            result : Codes \cup {"ok", "range", "thread", "guid", "none"}]

LEMMA LensOutcomes ==
    ASSUME MessagesTypeOK, NEW c \in Codes, NEW guid \in BOOLEAN, NEW has \in BOOLEAN,
           NEW vm \in BOOLEAN
    PROVE  /\ GetErrorMessage(c, guid, has, vm) \subseteq Outcome
           /\ {[result |-> "guid", text |-> Nothing]} \subseteq Outcome
<1>1. \A l \in Locales : lens[l][c] # NoEntry => lens[l][c] \in Said
  BY DEF MessagesTypeOK, Said
<1>2. (~NoLocale => locale \in Locales) /\ Nothing \in Said
  BY DEF MessagesTypeOK, Said, NoLocale
<1>3. \A t \in Said : Found(t) \in Outcome
  BY DEF Found, Outcome
<1>4. \A r \in {"range", "thread", "guid"} : [result |-> r, text |-> Nothing] \in Outcome
  BY <1>2 DEF Outcome
<1>5. ~NoLocale => LensMessages(c) \subseteq Outcome
  BY <1>1, <1>2, <1>3, <1>4 DEF LensMessages
<1>6. QED
  BY <1>2, <1>3, <1>4, <1>5 DEF GetErrorMessage, AskLens

LEMMA PredefinedOutcome ==
    ASSUME NEW c \in Codes PROVE Predefined(c) \in Outcome
<1>1. Nothing \in Said /\ "failed" \in Said
  BY DEF Said
<1>2. Predefined(c) \in {[result |-> "range", text |-> Nothing], Found(Nothing), Found("failed")}
  BY DEF Predefined, GetErrorMessageAndAutoFallBack, TranslateError
<1>3. QED
  BY <1>1, <1>2 DEF Found, Outcome

LEMMA AnsweredTypes ==
    ASSUME NEW c \in Codes, NEW by \in {"lens", "swig", "table", "exception"},
           NEW r \in Codes \cup {"ok", "range", "thread", "guid", "none"}, NEW t \in Said,
           Answered(by, c, r, t)
    PROVE  answer' \in Answers
  BY DEF Answered, Answers

LEMMA ThrownTypes ==
    ASSUME NEW c \in Codes, NEW o \in Outcome, Thrown(c, o) PROVE answer' \in Answers
<1>1. o.result \in {"ok", "range", "thread", "guid", "none"} /\ o.text \in Said /\ "failed" \in Said
  BY DEF Outcome, Said
<1>2. PICK r, t : /\ r = IF o.result = "ok" THEN c ELSE o.result
                  /\ t = IF o.result = "ok" THEN o.text ELSE "failed"
  OBVIOUS
<1>3. Answered("exception", c, r, t)
  BY <1>2 DEF Thrown
<1>4. QED
  BY <1>1, <1>2, <1>3, AnsweredTypes

LEMMA MessagesInitTypes == MessagesInit => MessagesTypeOK
<1> SUFFICES ASSUME MessagesInit PROVE MessagesTypeOK
  OBVIOUS
<1>1. locale \in Locales
  BY ErrorMessagesAssumption DEF MessagesInit
<1>2. lens \in [Locales -> [Codes -> Texts \cup {Nothing, NoEntry}]]
  BY DEF MessagesInit
<1>3. answer \in Answers
  BY DEF MessagesInit, NoAnswer, Answers, Said
<1>4. QED
  BY <1>1, <1>2, <1>3 DEF MessagesInit, MessagesTypeOK, Answers

LEMMA MessagesStep == MessagesTypeOK /\ [MessagesNext]_messageVars => MessagesTypeOK'
<1> SUFFICES ASSUME MessagesTypeOK, [MessagesNext]_messageVars PROVE MessagesTypeOK'
  OBVIOUS
<1>1. CASE UNCHANGED messageVars
  BY <1>1 DEF messageVars, MessagesTypeOK
<1>2. ASSUME answer' \in Answers, down' \in BOOLEAN, UNCHANGED <<locale, lens>>
      PROVE  MessagesTypeOK'
  BY <1>2 DEF MessagesTypeOK, Answers
<1>3. ASSUME NEW l \in Locales \cup {Nothing}, SetDefaultLocale(l) PROVE MessagesTypeOK'
  BY <1>3 DEF SetDefaultLocale, MessagesTypeOK
<1>4. ASSUME NEW l \in Locales, NEW c \in Codes, NEW t \in Texts \cup {Nothing},
             RegisterErrorMessage(l, c, t)
      PROVE  MessagesTypeOK'
  <2>1. lens' \in [Locales -> [Codes -> Texts \cup {Nothing, NoEntry}]]
    BY <1>4 DEF RegisterErrorMessage, MessagesTypeOK
  <2>2. QED
    BY <1>4, <2>1 DEF RegisterErrorMessage, MessagesTypeOK
<1>5. ASSUME NEW c \in Codes, DasGetPredefinedErrorMessage(c) PROVE MessagesTypeOK'
  <2>1. PICK o \in Outcome : o = Predefined(c)
    BY PredefinedOutcome
  <2>2. o.result \in {"ok", "range", "thread", "guid", "none"} /\ o.text \in Said
    BY DEF Outcome
  <2>3. Answered("table", c, o.result, o.text)
    BY <1>5, <2>1 DEF DasGetPredefinedErrorMessage
  <2>4. answer' \in Answers
    BY <2>2, <2>3, AnsweredTypes
  <2>5. QED
    BY <1>2, <1>5, <2>4 DEF DasGetPredefinedErrorMessage, NoLocale
<1>6. ASSUME NEW c \in Codes, Throw(c) PROVE MessagesTypeOK'
  <2>1. answer' \in Answers
    BY <1>6, PredefinedOutcome, ThrownTypes DEF Throw
  <2>2. QED
    BY <1>2, <1>6, <2>1 DEF Throw, NoLocale
<1>7. ASSUME NEW c \in Codes, NEW guid \in BOOLEAN, NEW has \in BOOLEAN, NEW vm \in BOOLEAN,
             \/ DasGetErrorMessage(c, guid, has, vm)
             \/ DasGetErrorMessageSwig(c, guid, has, vm)
             \/ ThrowFor(c, guid, has, vm)
      PROVE  MessagesTypeOK'
  <2>1. PICK o \in Outcome :
            /\ \/ Answered("lens", c, o.result, o.text)
               \/ Answered("swig", c, o.result, Nothing)
               \/ Thrown(c, o)
            /\ down' = NullSuccess(o)
    <3>1. CASE DasGetErrorMessage(c, guid, has, vm)
      BY <3>1, LensOutcomes DEF DasGetErrorMessage
    <3>2. CASE DasGetErrorMessageSwig(c, guid, has, vm)
      BY <3>2, LensOutcomes DEF DasGetErrorMessageSwig
    <3>3. CASE ThrowFor(c, guid, has, vm)
      BY <3>3, LensOutcomes DEF ThrowFor
    <3>4. QED
      BY <1>7, <3>1, <3>2, <3>3
  <2>2. /\ o.result \in {"ok", "range", "thread", "guid", "none"}
        /\ o.text \in Said /\ Nothing \in Said
    BY DEF Outcome, Said
  <2>3. answer' \in Answers
    BY <2>1, <2>2, AnsweredTypes, ThrownTypes
  <2>4. down' \in BOOLEAN
    BY <2>1 DEF NullSuccess
  <2>5. UNCHANGED <<locale, lens>>
    BY <1>7 DEF DasGetErrorMessage, DasGetErrorMessageSwig, ThrowFor
  <2>6. QED
    BY <1>2, <2>3, <2>4, <2>5
<1>8. QED
  BY <1>1, <1>3, <1>4, <1>5, <1>6, <1>7 DEF MessagesNext

\* The default locale, the lens and the answers keep their types, for all locales,
\* codes and texts.
THEOREM MessagesTypeCorrect == MessagesSpec => []MessagesTypeOK
  BY MessagesInitTypes, MessagesStep, PTL DEF MessagesSpec

\* Where the null string comes from.
ComesFromNull(c) ==
    \/ NoLocale
    \/ Nothing \in Registered(c)
    \/ Registered(c) = {} /\ ~HasEntry(locale)

LEMMA NullIsUnexplained ==
    ASSUME MessagesTypeOK, NEW c \in Codes, NEW has, NEW o \in AskLens(c, has), NullSuccess(o)
    PROVE  ComesFromNull(c)
<1>1. o \in LensMessages(c)
  BY DEF AskLens, NullSuccess
<1>2. CASE Nothing \in Registered(c) \/ NoLocale
  BY <1>2 DEF ComesFromNull
<1>3. CASE Nothing \notin Registered(c) /\ ~NoLocale
  <2>1. locale \in Locales /\ Nothing # NoEntry
    BY <1>3, ErrorMessagesAssumption DEF NoLocale, MessagesTypeOK
  <2>2. \A l \in Locales : lens[l][c] # Nothing
    BY <1>3, <2>1 DEF Registered
  <2>3. ~HasEntry(locale)
    BY <1>1, <2>1, <2>2 DEF LensMessages, NullSuccess, Found
  <2>4. {l \in Locales : lens[l][c] # NoEntry} = {}
    BY <1>1, <2>2, <2>3 DEF LensMessages, NullSuccess, Found
  <2>5. QED
    BY <2>3, <2>4 DEF Registered, ComesFromNull
<1>4. QED
  BY <1>2, <1>3

LEMMA NullAnswer ==
    ASSUME MessagesTypeOK, NEW c \in Codes, NEW guid, NEW has, NEW vm,
           NEW o \in GetErrorMessage(c, guid, has, vm), NullSuccess(o)
    PROVE  ComesFromNull(c)
<1>1. CASE NoLocale
  BY <1>1 DEF ComesFromNull
<1>2. CASE ~NoLocale
  <2>1. o \in AskLens(c, guid /\ has)
    BY <1>2 DEF GetErrorMessage, NullSuccess
  <2>2. QED
    BY <2>1, NullIsUnexplained
<1>3. QED
  BY <1>1, <1>2

\* Without null strings, a lens that explains a code in any locale does not bring
\* the host down when the default locale has no entries, for all locales, codes
\* and texts.
THEOREM CrashIsUnexplained == MessagesSpec => CrashNeedsUnexplained
<1>1. ASSUME MessagesTypeOK, [MessagesNext]_messageVars, down', ~down, ~NoLocale
      PROVE  ComesFromNull(answer'.code)
  <2>1. PICK c \in Codes, guid, has, vm \in BOOLEAN :
            \/ DasGetErrorMessage(c, guid, has, vm)
            \/ DasGetErrorMessageSwig(c, guid, has, vm)
            \/ ThrowFor(c, guid, has, vm)
    BY <1>1 DEF MessagesNext, messageVars, SetDefaultLocale, RegisterErrorMessage,
       DasGetPredefinedErrorMessage, Throw
  <2>2. PICK o : /\ NullSuccess(o) /\ answer'.code = c
                 /\ o \in GetErrorMessage(c, guid, has, vm)
    <3>1. CASE DasGetErrorMessage(c, guid, has, vm)
      <4>1. PICK o : /\ o \in IF guid THEN GetErrorMessage(c, guid, has, vm)
                            ELSE {[result |-> "guid", text |-> Nothing]}
                     /\ answer'.code = c /\ down' = NullSuccess(o)
        BY <3>1 DEF DasGetErrorMessage, Answered
      <4>2. NullSuccess(o)
        BY <1>1, <4>1
      <4>3. QED
        BY <4>1, <4>2 DEF NullSuccess
    <3>2. CASE DasGetErrorMessageSwig(c, guid, has, vm)
      <4>1. PICK o : /\ o \in GetErrorMessage(c, guid, has, vm)
                     /\ answer'.code = c /\ down' = NullSuccess(o)
        BY <3>2 DEF DasGetErrorMessageSwig, Answered
      <4>2. NullSuccess(o)
        BY <1>1, <4>1
      <4>3. QED
        BY <4>1, <4>2 DEF NullSuccess
    <3>3. CASE ThrowFor(c, guid, has, vm)
      <4>1. PICK o : /\ o \in IF guid THEN GetErrorMessage(c, guid, has, vm)
                            ELSE {[result |-> "guid", text |-> Nothing]}
                     /\ answer'.code = c /\ down' = NullSuccess(o)
        BY <3>3 DEF ThrowFor, Thrown, Answered
      <4>2. NullSuccess(o)
        BY <1>1, <4>1
      <4>3. QED
        BY <4>1, <4>2 DEF NullSuccess
    <3>4. QED
      BY <2>1, <3>1, <3>2, <3>3
  <2>3. ComesFromNull(c)
    BY <1>1, <2>2, NullAnswer
  <2>4. QED
    BY <2>2, <2>3 DEF ComesFromNull, Registered
<1>2. MessagesTypeOK /\ [MessagesNext]_messageVars =>
          [down' /\ ~down =>
              \/ NoLocale
              \/ Nothing \in Registered(answer'.code)
              \/ Registered(answer'.code) = {} /\ ~HasEntry(locale)]_messageVars
  BY <1>1 DEF ComesFromNull
<1>3. QED
  BY <1>2, MessagesTypeCorrect, PTL DEF MessagesSpec, CrashNeedsUnexplained

-------------------------------------------------------------------------------
(***************************************************************************)
(* CaptureManager.  The function that Ascending computes by recursion is   *)
(* there for every n, by induction.                                        *)
(***************************************************************************)
Passes(f, n, s) ==
    f = [k \in 0 .. n |-> IF k = 0 THEN <<>>
                          ELSE IF k \in s THEN Append(f[k - 1], k) ELSE f[k - 1]]

LEMMA PassesExist ==
    ASSUME NEW s PROVE \A n \in Nat : \E f : Passes(f, n, s)
<1> DEFINE bad == {n \in Nat : ~\E f : Passes(f, n, s)}
<1> SUFFICES ASSUME bad # {} PROVE FALSE
  OBVIOUS
<1>1. PICK m \in bad : \A k \in bad : m <= k
  BY LeastNat
<1>2. m \in Nat /\ ~\E f : Passes(f, m, s)
  OBVIOUS
<1>3. m # 0
  <2>1. ASSUME m = 0 PROVE FALSE
    <3>1. PICK f : f = [k \in 0 .. 0 |-> <<>>]
      OBVIOUS
    <3>2. Passes(f, 0, s)
      BY <3>1 DEF Passes
    <3>3. QED
      BY <1>2, <2>1, <3>2
  <2>2. QED
    BY <2>1
<1>4. PICK n \in Nat : m = n + 1 /\ n < m
  <2>1. m - 1 \in Nat /\ m = (m - 1) + 1 /\ m - 1 < m
    BY <1>2, <1>3
  <2>2. QED
    BY <2>1
<1>5. PICK f : Passes(f, n, s)
  BY <1>1, <1>2, <1>4
<1>6. PICK g : g = [k \in 0 .. m |-> IF k \in 0 .. n THEN f[k]
                                     ELSE IF m \in s THEN Append(f[n], m) ELSE f[n]]
  OBVIOUS
<1>7. ASSUME NEW k \in 0 .. m
      PROVE  g[k] = IF k = 0 THEN <<>>
                    ELSE IF k \in s THEN Append(g[k - 1], k) ELSE g[k - 1]
  <2>1. CASE k \in 0 .. n
    <3>1. f[k] = IF k = 0 THEN <<>>
                 ELSE IF k \in s THEN Append(f[k - 1], k) ELSE f[k - 1]
      BY <1>5, <2>1 DEF Passes
    <3>2. g[k] = f[k] /\ (k # 0 => k - 1 \in 0 .. n /\ k - 1 \in 0 .. m)
      BY <1>4, <1>6, <2>1
    <3>3. QED
      BY <1>6, <3>1, <3>2
  <2>2. CASE k = m
    <3>1. /\ m \notin 0 .. n /\ m - 1 = n /\ n \in 0 .. n /\ n \in 0 .. m /\ m # 0
      BY <1>4
    <3>2. g[m] = IF m \in s THEN Append(f[n], m) ELSE f[n]
      BY <1>6, <2>2, <3>1
    <3>3. g[n] = f[n]
      BY <1>6, <3>1
    <3>4. QED
      BY <2>2, <3>1, <3>2, <3>3
  <2>3. QED
    BY <1>4, <2>1, <2>2
<1>8. Passes(g, m, s)
  BY <1>6, <1>7 DEF Passes
<1>9. QED
  BY <1>2, <1>8

\* What Ascending comes to: numbers of s up to n.
LEMMA AscendingIs ==
    ASSUME NEW n \in Nat, NEW s
    PROVE  /\ Ascending(n, s) \in Seq(1 .. n) /\ Len(Ascending(n, s)) \in Nat
           /\ \A i \in 1 .. Len(Ascending(n, s)) : Ascending(n, s)[i] \in s \cap 1 .. n
<1> DEFINE f == CHOOSE g : Passes(g, n, s)
<1>1. Ascending(n, s) = f[n]
  BY DEF Ascending, Passes
<1>2. Passes(f, n, s)
  BY PassesExist
<1> HIDE DEF f
<1> DEFINE bad == {k \in 0 .. n : f[k] \notin Seq(s \cap 1 .. n)}
<1>3. ASSUME bad # {} PROVE FALSE
  <2> bad \subseteq Nat
    OBVIOUS
  <2>1. PICK m \in bad : \A k \in bad : m <= k
    BY <1>3, LeastNat
  <2>2. m \in 0 .. n /\ f[m] \notin Seq(s \cap 1 .. n)
    OBVIOUS
  <2>3. f[m] = IF m = 0 THEN <<>> ELSE IF m \in s THEN Append(f[m - 1], m) ELSE f[m - 1]
    BY <1>2, <2>2 DEF Passes
  <2>4. m # 0
    BY <2>2, <2>3
  <2>5. m - 1 \in 0 .. n /\ ~(m <= m - 1) /\ m \in 1 .. n
    BY <2>2, <2>4
  <2>6. f[m - 1] \in Seq(s \cap 1 .. n)
    BY <2>1, <2>5
  <2>7. m \in s => Append(f[m - 1], m) \in Seq(s \cap 1 .. n)
    BY <2>5, <2>6, AppendProperties
  <2>8. QED
    BY <2>2, <2>3, <2>4, <2>6, <2>7
<1>4. f[n] \in Seq(s \cap 1 .. n)
  BY <1>3
<1>5. /\ f[n] \in Seq(1 .. n) /\ Len(f[n]) \in Nat
      /\ \A i \in 1 .. Len(f[n]) : f[n][i] \in s \cap 1 .. n
  BY <1>4, SeqMonotonic, LenProperties, ElementOfSeq
<1>6. QED
  BY <1>1, <1>5

-------------------------------------------------------------------------------
(***************************************************************************)
(* CaptureManager.  Nothing is enumerated before there is a manager, and   *)
(* the results follow the captures that were made.                         *)
(***************************************************************************)
CaptureTypes ==
    /\ instances \in Seq(Instance) /\ results \in Seq(Result)
    /\ answered \in {"none", "S_OK", "S_FALSE", "thread"}
    /\ tests \in 0 .. MaxTests
    /\ made \in BOOLEAN /\ aborted \in BOOLEAN /\ broken \in BOOLEAN

EmptyUntilMade == ~made => instances = <<>> /\ results = <<>> /\ tests = 0

CaptureInv == RegistryInv /\ CaptureTypes /\ EmptyUntilMade /\ ResultsFollowCaptures

LEMMA LoadedIs ==
    ASSUME CaptureTypes
    PROVE  /\ Loaded \in Seq(1 .. Len(instances))
           /\ Len(Loaded) \in Nat
           /\ \A k \in 1 .. Len(Loaded) : Loaded[k] \in 1 .. Len(instances)
<1>1. Len(instances) \in Nat
  BY LenProperties DEF CaptureTypes
<1>2. QED
  BY <1>1, AscendingIs DEF Loaded

LEMMA CaptureInitInv == CaptureInit => CaptureInv
<1> SUFFICES ASSUME CaptureInit PROVE CaptureInv
  OBVIOUS
<1>1. RegistryInv
  BY RegistryInitInv DEF CaptureInit
<1>2. CaptureTypes /\ EmptyUntilMade /\ results = <<>> /\ tests = 0
  <2>1. 0 \in 0 .. MaxTests
    BY CaptureAssumption
  <2>2. instances \in Seq(Instance) /\ results \in Seq(Result)
    BY DEF CaptureInit
  <2>3. CaptureTypes
    BY <2>1, <2>2 DEF CaptureInit, CaptureTypes
  <2>4. QED
    BY <2>3 DEF CaptureInit, EmptyUntilMade
<1>3. Len(results) = 0 /\ Len(Loaded) \in Nat
  BY <1>2, LoadedIs
<1>4. ResultsFollowCaptures
  BY <1>2, <1>3 DEF ResultsFollowCaptures
<1>5. QED
  BY <1>1, <1>2, <1>4 DEF CaptureInv

\* What CreateCaptureManager keeps is an instance or a failure for each factory
\* whose package has a storage.
LEMMA InstancesAre ==
    ASSUME RegistryInv, NEW o \in [1 .. Len(captures) -> Outcomes],
           NEW g \in Guids \cup {NoGuid}, NEW vm \in BOOLEAN
    PROVE  Instances(o, g, vm) \in Seq(Instance)
<1> DEFINE s == {i \in 1 .. Len(captures) : StorageOf(offered[captures[i]].guid) # 0}
           kept == Ascending(Len(captures), s)
<1>1. /\ Len(captures) \in Nat /\ Len(offered) \in Nat /\ Len(offered) <= MaxOffers
      /\ MaxOffers \in Nat
      /\ \A i \in 1 .. Len(captures) : captures[i] \in 1 .. Len(offered)
  BY LenProperties, ElementOfSeq, RegistryAssumption DEF RegistryInv, RegistryTypes
<1>2. Len(kept) \in Nat /\ \A i \in 1 .. Len(kept) : kept[i] \in s \cap 1 .. Len(captures)
  BY <1>1, AscendingIs
<1>3. Instances(o, g, vm) = [k \in 1 .. Len(kept) |-> Record(captures[kept[k]], o[kept[k]], g, vm)]
  BY DEF Instances
<1> HIDE DEF kept
<1>4. ASSUME NEW k \in 1 .. Len(kept)
      PROVE  Record(captures[kept[k]], o[kept[k]], g, vm) \in Instance
  <2>1. captures[kept[k]] \in 1 .. MaxOffers
    BY <1>1, <1>2
  <2>2. PICK e \in BOOLEAN : e = Explained(offered[captures[kept[k]]].guid, vm)
    BY DEF Explained
  <2>3. PICK l \in BOOLEAN : l = (o[kept[k]] # "fails")
    OBVIOUS
  <2>4. PICK n \in BOOLEAN : n = (o[kept[k]] # "nameless")
    OBVIOUS
  <2>5. Record(captures[kept[k]], o[kept[k]], g, vm)
          = [factory |-> captures[kept[k]], loaded |-> l, named |-> n, guid |-> g, explained |-> e]
    BY <2>2, <2>3, <2>4 DEF Record
  <2>6. QED
    BY <2>1, <2>5 DEF Instance
<1>5. QED
  BY <1>2, <1>3, <1>4

LEMMA CreateKeepsCapture ==
    ASSUME CaptureInv, NEW vm \in BOOLEAN, NEW swig \in BOOLEAN,
           CreateCaptureManager(vm, swig)
    PROVE  CaptureInv'
<1>1. ~made /\ UNCHANGED registryVars /\ UNCHANGED <<results, tests, aborted, broken>>
  BY DEF CreateCaptureManager, CreateDasCaptureManagerImpl, Working, Untouched
<1>2. RegistryInv'
  BY <1>1, RegistryStep DEF CaptureInv
<1>3. /\ instances' \in Seq(Instance) /\ made' \in BOOLEAN
      /\ answered' \in {"none", "S_OK", "S_FALSE", "thread"}
      /\ ~made' => instances' = instances
  <2>1. CASE vm \/ swig
    <3>1. PICK o \in [1 .. Len(captures) -> Outcomes], g \in Guids \cup {NoGuid} :
              /\ made' = TRUE /\ instances' = Instances(o, g, vm)
              /\ answered' = LastAssigned(o)
      BY <2>1 DEF CreateCaptureManager, CreateDasCaptureManagerImpl
    <3>2. instances' \in Seq(Instance)
      BY <3>1, InstancesAre DEF CaptureInv
    <3>3. answered' \in {"S_OK", "S_FALSE"}
      BY <3>1 DEF LastAssigned
    <3>4. QED
      BY <3>1, <3>2, <3>3
  <2>2. CASE ~(vm \/ swig)
    BY <2>2 DEF CreateCaptureManager, CaptureInv, CaptureTypes
  <2>3. QED
    BY <2>1, <2>2
<1>4. CaptureTypes' /\ EmptyUntilMade'
  BY <1>1, <1>3 DEF CaptureInv, CaptureTypes, EmptyUntilMade
<1>5. Len(results') = 0 /\ tests' = 0
  BY <1>1 DEF CaptureInv, EmptyUntilMade
<1>6. Len(Loaded') \in Nat
  <2>1. Len(instances') \in Nat
    BY <1>3, LenProperties
  <2>2. QED
    BY <2>1, AscendingIs DEF Loaded
<1>7. ResultsFollowCaptures'
  BY <1>5, <1>6 DEF ResultsFollowCaptures
<1>8. QED
  BY <1>2, <1>4, <1>7 DEF CaptureInv

LEMMA TestKeepsCapture ==
    ASSUME CaptureInv, NEW vm \in BOOLEAN, RunCapturePerformanceTest(vm)
    PROVE  CaptureInv'
<1>1. /\ made /\ UNCHANGED registryVars /\ tests < MaxTests /\ tests' = tests + 1
      /\ UNCHANGED <<made, instances, answered, broken>>
  BY DEF RunCapturePerformanceTest, Working, Untouched
<1>2. RegistryInv'
  BY <1>1, RegistryStep DEF CaptureInv
<1>3. PICK ok \in [1 .. Len(instances) -> BOOLEAN] :
          LET bad == {k \in 1 .. Len(Loaded) : Aborts(Loaded[k], ok)}
              upTo == IF bad = {} THEN Len(Loaded)
                      ELSE (CHOOSE k \in bad : \A j \in bad : k <= j) - 1
          IN  results' = ResultsOf(upTo, ok, vm) /\ aborted' = (bad # {})
  BY DEF RunCapturePerformanceTest
<1> DEFINE bad == {k \in 1 .. Len(Loaded) : Aborts(Loaded[k], ok)}
           upTo == IF bad = {} THEN Len(Loaded)
                   ELSE (CHOOSE k \in bad : \A j \in bad : k <= j) - 1
<1>4. results' = ResultsOf(upTo, ok, vm) /\ aborted' = (bad # {})
  BY <1>3
<1>5. /\ Len(Loaded) \in Nat
      /\ \A k \in 1 .. Len(Loaded) : Loaded[k] \in 1 .. Len(instances)
  BY LoadedIs DEF CaptureInv
<1>6. upTo \in Nat /\ upTo <= Len(Loaded) /\ (bad = {} => upTo = Len(Loaded))
  <2>1. CASE bad = {}
    BY <1>5, <2>1
  <2>2. CASE bad # {}
    <3>1. bad \subseteq Nat /\ bad \subseteq 1 .. Len(Loaded)
      BY <1>5
    <3>2. \E k \in bad : \A j \in bad : k <= j
      BY <2>2, <3>1, LeastNat
    <3> DEFINE m == CHOOSE k \in bad : \A j \in bad : k <= j
    <3>3. m \in bad
      BY <3>2
    <3>4. upTo = m - 1
      BY <2>2
    <3> HIDE DEF m, bad, upTo
    <3>5. m \in 1 .. Len(Loaded)
      BY <3>1, <3>3
    <3>6. QED
      BY <1>5, <2>2, <3>4, <3>5
  <2>3. QED
    BY <2>1, <2>2
<1>7. aborted' \in BOOLEAN /\ (~aborted' => bad = {})
  BY <1>4
<1> HIDE DEF upTo, bad
<1>8. ASSUME NEW k \in 1 .. upTo
      PROVE  [capture |-> Loaded[k], ok |-> ok[Loaded[k]],
              explained |-> ok[Loaded[k]] \/ Explained(instances[Loaded[k]].guid, vm)]
                 \in Result
  <2>1. Loaded[k] \in 1 .. Len(instances) /\ Len(instances) \in Nat
    BY <1>5, <1>6, LenProperties DEF CaptureInv, CaptureTypes
  <2>2. Loaded[k] \in Nat /\ ok[Loaded[k]] \in BOOLEAN
    BY <2>1
  <2>3. PICK e \in BOOLEAN :
            e = (ok[Loaded[k]] \/ Explained(instances[Loaded[k]].guid, vm))
    OBVIOUS
  <2>4. [capture |-> Loaded[k], ok |-> ok[Loaded[k]], explained |-> e] \in Result
    BY <2>2 DEF Result
  <2>5. QED
    BY <2>3, <2>4
<1>9. /\ results' \in Seq(Result) /\ Len(results') = upTo
      /\ \A k \in 1 .. upTo : results'[k].capture = Loaded[k]
  BY <1>4, <1>6, <1>8 DEF ResultsOf
<1>10. CaptureTypes' /\ EmptyUntilMade'
  BY <1>1, <1>7, <1>9, CaptureAssumption DEF CaptureInv, CaptureTypes, EmptyUntilMade
<1>11. Loaded' = Loaded
  BY <1>1 DEF Loaded
<1>12. ResultsFollowCaptures'
  BY <1>6, <1>7, <1>9, <1>11 DEF ResultsFollowCaptures
<1>13. QED
  BY <1>2, <1>10, <1>12 DEF CaptureInv

LEMMA CaptureStep == CaptureInv /\ [CaptureNext]_<<registryVars, captureVars>> => CaptureInv'
<1> SUFFICES ASSUME CaptureInv, [CaptureNext]_<<registryVars, captureVars>>
             PROVE  CaptureInv'
  OBVIOUS
<1>1. ASSUME RegistryInv', UNCHANGED <<made, instances, results, answered, tests, aborted>>,
             broken' \in BOOLEAN
      PROVE  CaptureInv'
  BY <1>1 DEF CaptureInv, CaptureTypes, EmptyUntilMade, ResultsFollowCaptures, Loaded
<1>2. CASE UNCHANGED <<registryVars, captureVars>>
  <2>1. RegistryInv'
    BY <1>2, RegistryStep DEF CaptureInv
  <2>2. QED
    BY <1>1, <1>2, <2>1 DEF captureVars, CaptureInv, CaptureTypes
<1>3. CASE Working(~made) /\ RegistryNext /\ UNCHANGED captureVars
  <2>1. RegistryInv'
    BY <1>3, RegistryStep DEF CaptureInv
  <2>2. QED
    BY <1>1, <1>3, <2>1 DEF captureVars, CaptureInv, CaptureTypes
<1>4. ASSUME NEW vm \in BOOLEAN, NEW swig \in BOOLEAN, CreateCaptureManager(vm, swig)
      PROVE  CaptureInv'
  BY <1>4, CreateKeepsCapture
<1>5. ASSUME NEW vm \in BOOLEAN, RunCapturePerformanceTest(vm) PROVE CaptureInv'
  BY <1>5, TestKeepsCapture
<1>6. ASSUME NEW index \in 1 .. MaxOffers,
             EnumCaptureLoadErrorState(index) \/ EnumCapturePerformanceTestResult(index)
      PROVE  CaptureInv'
  <2>1. /\ UNCHANGED registryVars /\ broken' \in BOOLEAN
        /\ UNCHANGED <<made, instances, results, answered, tests, aborted>>
    <3>1. CASE EnumCaptureLoadErrorState(index)
      BY <3>1 DEF EnumCaptureLoadErrorState, Untouched
    <3>2. CASE EnumCapturePerformanceTestResult(index)
      BY <3>2 DEF EnumCapturePerformanceTestResult, Untouched
    <3>3. QED
      BY <1>6, <3>1, <3>2
  <2>2. RegistryInv'
    BY <2>1, RegistryStep DEF CaptureInv
  <2>3. QED
    BY <1>1, <2>1, <2>2
<1>7. QED
  BY <1>2, <1>3, <1>4, <1>5, <1>6 DEF CaptureNext

LEMMA CaptureIs == CaptureInv => CaptureTypeOK /\ ResultsFollowCaptures
  BY RegistryIs DEF CaptureInv, CaptureTypes, CaptureTypeOK

\* The capture manager keeps instances, failures and results that are such, for
\* all factories, outcomes and numbers of tests.
THEOREM CaptureTypeCorrect == CaptureSpec => []CaptureTypeOK
<1>1. CaptureSpec => []CaptureInv
  BY CaptureInitInv, CaptureStep, PTL DEF CaptureSpec
<1>2. QED
  BY <1>1, CaptureIs, PTL

\* The results are those of the last test, one for each capture made, in their
\* order and up to the first exception (IDasCaptureManagerImpl.cpp:362).
THEOREM ResultsAreOfCaptures == CaptureSpec => []ResultsFollowCaptures
<1>1. CaptureSpec => []CaptureInv
  BY CaptureInitInv, CaptureStep, PTL DEF CaptureSpec
<1>2. QED
  BY <1>1, CaptureIs, PTL

-------------------------------------------------------------------------------
(***************************************************************************)
(* PythonHost.  At each point of LoadPlugin the pointers that will give a  *)
(* reference back are known, and each has one.                             *)
(***************************************************************************)
Heaps == [refs : [PyObjects -> Int], ends : [PyObjects -> Int]]

\* Pointers to the object: those of LoadPlugin, and the one the host keeps.
PointersAt(o) ==
    CASE o = "module" ->
           IF pcP \in {"imported", "ready", "calling"} THEN {2}
           ELSE IF pyThread = "none" \/ pcP = "importing" \/ (pyThread = "held" /\ pcP = "begin")
           THEN {0} ELSE {0, 1}
      [] o = "initializer" -> IF pcP \in {"ready", "calling"} THEN {1} ELSE {0}
      [] o = "tuple" -> IF pcP = "calling" THEN {1} ELSE {0}
      [] o \in {"text", "returned"} -> {0}

HeapInv ==
    /\ heap \in Heaps
    /\ \A o \in PyObjects : heap.ends[o] \in PointersAt(o) /\ heap.refs[o] >= heap.ends[o]

ThreadInv ==
    /\ pyThread = "none" => pcP = "idle"
    /\ pyThread = "released" => pcP \in {"idle", "begin"}
    /\ pyThread = "held" => pcP # "idle"

Counts(i) == (IF storedPackage = i THEN 1 ELSE 0) + (IF loadedPackage = i THEN 1 ELSE 0)
PackageInv ==
    /\ packageCounters \in [PackageIds -> Int]
    /\ \A i \in PackageIds : packageCounters[i] >= Counts(i)
    /\ storedPackage \in PackageIds \cup {NoPackage}
    /\ loadedPackage \in PackageIds \cup {NoPackage}

PythonTypes ==
    /\ pyThread \in {"none", "held", "released"}
    /\ errorSet \in BOOLEAN /\ mutexHeld \in BOOLEAN /\ processEnded \in BOOLEAN
    /\ pcP \in {"idle", "begin", "importing", "imported", "ready", "calling", "return"}
    /\ loadAnswer \in {"none", "ok", "no_package", "bad_path", "python_error",
                       "no_implementation", "no_symbol", "plugin_error"}
    /\ loads \in 0 .. MaxLoads

PythonInv == PythonTypes /\ ThreadInv /\ HeapInv /\ PackageInv

LEMMA PythonInitInv == PythonInit => PythonInv
<1> SUFFICES ASSUME PythonInit PROVE PythonInv
  OBVIOUS
<1>1. 0 \in 0 .. MaxLoads
  BY PythonAssumption
<1>2. PythonTypes /\ ThreadInv
  BY <1>1 DEF PythonInit, PythonTypes, ThreadInv
<1>3. heap \in Heaps /\ \A o \in PyObjects : heap.ends[o] = 0 /\ heap.refs[o] = 0
  BY DEF PythonInit, Heaps
<1>4. \A o \in PyObjects : 0 \in PointersAt(o)
  BY DEF PythonInit, PointersAt, PyObjects
<1>5. 0 \notin PackageIds
  BY DEF PackageIds
<1>6. QED
  BY <1>2, <1>3, <1>4, <1>5 DEF PythonInit, PythonInv, HeapInv, PackageInv, Counts, NoPackage

\* A pointer that is attached or destroyed moves both counts, a forgotten one only
\* the pointers.
LEMMA AttachedMoves ==
    ASSUME NEW h \in Heaps, NEW o \in PyObjects
    PROVE  /\ Attached(h, o) \in Heaps
           /\ \A p \in PyObjects :
                /\ Attached(h, o).refs[p] = IF p = o THEN h.refs[p] + 1 ELSE h.refs[p]
                /\ Attached(h, o).ends[p] = IF p = o THEN h.ends[p] + 1 ELSE h.ends[p]
<1>1. h.refs \in [PyObjects -> Int] /\ h.ends \in [PyObjects -> Int]
  BY DEF Heaps
<1>2. /\ [h.refs EXCEPT ![o] = @ + 1] \in [PyObjects -> Int]
      /\ [h.ends EXCEPT ![o] = @ + 1] \in [PyObjects -> Int]
  BY <1>1
<1>3. Attached(h, o).refs = [h.refs EXCEPT ![o] = @ + 1]
  BY DEF Heaps, Attached
<1>4. Attached(h, o).ends = [h.ends EXCEPT ![o] = @ + 1]
  BY DEF Heaps, Attached
<1>5. Attached(h, o) \in Heaps
  BY <1>1, <1>2, <1>3, <1>4 DEF Heaps, Attached
<1>6. QED
  BY <1>1, <1>3, <1>4, <1>5

LEMMA DestroyedMoves ==
    ASSUME NEW h \in Heaps, NEW o \in PyObjects
    PROVE  /\ Destroyed(h, o) \in Heaps
           /\ \A p \in PyObjects :
                /\ Destroyed(h, o).refs[p] = IF p = o THEN h.refs[p] - 1 ELSE h.refs[p]
                /\ Destroyed(h, o).ends[p] = IF p = o THEN h.ends[p] - 1 ELSE h.ends[p]
<1>1. h.refs \in [PyObjects -> Int] /\ h.ends \in [PyObjects -> Int]
  BY DEF Heaps
<1>2. /\ [h.refs EXCEPT ![o] = @ - 1] \in [PyObjects -> Int]
      /\ [h.ends EXCEPT ![o] = @ - 1] \in [PyObjects -> Int]
  BY <1>1
<1>3. Destroyed(h, o).refs = [h.refs EXCEPT ![o] = @ - 1]
  BY DEF Heaps, Destroyed
<1>4. Destroyed(h, o).ends = [h.ends EXCEPT ![o] = @ - 1]
  BY DEF Heaps, Destroyed
<1>5. Destroyed(h, o) \in Heaps
  BY <1>1, <1>2, <1>3, <1>4 DEF Heaps, Destroyed
<1>6. QED
  BY <1>1, <1>3, <1>4, <1>5

LEMMA ForgottenMoves ==
    ASSUME NEW h \in Heaps, NEW o \in PyObjects
    PROVE  /\ Forgotten(h, o) \in Heaps
           /\ \A p \in PyObjects :
                /\ Forgotten(h, o).refs[p] = h.refs[p]
                /\ Forgotten(h, o).ends[p] = IF p = o THEN h.ends[p] - 1 ELSE h.ends[p]
<1>1. h.refs \in [PyObjects -> Int] /\ h.ends \in [PyObjects -> Int]
  BY DEF Heaps
<1>2. /\ [h.refs EXCEPT ![o] = @ - 1] \in [PyObjects -> Int]
      /\ [h.ends EXCEPT ![o] = @ - 1] \in [PyObjects -> Int]
  BY <1>1
<1>3. Forgotten(h, o).refs = h.refs
  BY DEF Heaps, Forgotten
<1>4. Forgotten(h, o).ends = [h.ends EXCEPT ![o] = @ - 1]
  BY DEF Heaps, Forgotten
<1>5. Forgotten(h, o) \in Heaps
  BY <1>1, <1>2, <1>3, <1>4 DEF Heaps, Forgotten
<1>6. QED
  BY <1>1, <1>3, <1>4, <1>5

\* PythonResult::then ends with a reference to the new object and a pointer for it;
\* the old object keeps the reference its pointer had.
LEMMA ThenMoves ==
    ASSUME NEW h \in Heaps, NEW old \in PyObjects, NEW new \in PyObjects, old # new
    PROVE  /\ Then(h, old, new) \in Heaps
           /\ \A p \in PyObjects :
                /\ Then(h, old, new).refs[p] = h.refs[p] + (IF p = new THEN 1 ELSE 0)
                /\ Then(h, old, new).ends[p] =
                     h.ends[p] + (IF p = new THEN 1 ELSE IF p = old THEN -1 ELSE 0)
<1>1. PICK h1 : h1 = Attached(h, new)
  OBVIOUS
<1>2. PICK h2 : h2 = Forgotten(h1, old)
  OBVIOUS
<1>3. PICK h3 : h3 = Attached(h2, new)
  OBVIOUS
<1>4. PICK h4 : h4 = Destroyed(h3, new)
  OBVIOUS
<1>5. /\ h1 \in Heaps
      /\ \A p \in PyObjects :
           /\ h1.refs[p] = IF p = new THEN h.refs[p] + 1 ELSE h.refs[p]
           /\ h1.ends[p] = IF p = new THEN h.ends[p] + 1 ELSE h.ends[p]
  BY <1>1, AttachedMoves
<1>6. /\ h2 \in Heaps
      /\ \A p \in PyObjects :
           /\ h2.refs[p] = h1.refs[p]
           /\ h2.ends[p] = IF p = old THEN h1.ends[p] - 1 ELSE h1.ends[p]
  BY <1>2, <1>5, ForgottenMoves
<1>7. /\ h3 \in Heaps
      /\ \A p \in PyObjects :
           /\ h3.refs[p] = IF p = new THEN h2.refs[p] + 1 ELSE h2.refs[p]
           /\ h3.ends[p] = IF p = new THEN h2.ends[p] + 1 ELSE h2.ends[p]
  BY <1>3, <1>6, AttachedMoves
<1>8. /\ h4 \in Heaps
      /\ \A p \in PyObjects :
           /\ h4.refs[p] = IF p = new THEN h3.refs[p] - 1 ELSE h3.refs[p]
           /\ h4.ends[p] = IF p = new THEN h3.ends[p] - 1 ELSE h3.ends[p]
  BY <1>4, <1>7, DestroyedMoves
<1>9. Then(h, old, new) = h4
  BY <1>1, <1>2, <1>3, <1>4 DEF Then, Assigned
<1>10. ASSUME NEW p \in PyObjects
       PROVE  /\ h4.refs[p] = h.refs[p] + (IF p = new THEN 1 ELSE 0)
              /\ h4.ends[p] = h.ends[p] + (IF p = new THEN 1 ELSE IF p = old THEN -1 ELSE 0)
  <2>1. /\ h.refs[p] \in Int /\ h.ends[p] \in Int /\ h1.refs[p] \in Int /\ h1.ends[p] \in Int
        /\ h2.refs[p] \in Int /\ h2.ends[p] \in Int /\ h3.refs[p] \in Int /\ h3.ends[p] \in Int
    BY <1>5, <1>6, <1>7 DEF Heaps
  <2>2. QED
    BY <1>5, <1>6, <1>7, <1>8, <2>1
<1>11. QED
  BY <1>8, <1>9, <1>10

LEMMA CopyMoves ==
    ASSUME NEW h \in Heaps, NEW o \in PyObjects
    PROVE  /\ CheckAndGet(h, o) \in Heaps
           /\ \A p \in PyObjects : /\ CheckAndGet(h, o).refs[p] = h.refs[p]
                                   /\ CheckAndGet(h, o).ends[p] = h.ends[p]
<1>1. PICK h1 : h1 = Attached(h, o)
  OBVIOUS
<1>2. h1 \in Heaps /\ CheckAndGet(h, o) = Destroyed(h1, o)
  BY <1>1, AttachedMoves DEF CheckAndGet
<1>3. ASSUME NEW p \in PyObjects
      PROVE  /\ Destroyed(h1, o).refs[p] = h.refs[p]
             /\ Destroyed(h1, o).ends[p] = h.ends[p]
  <2>1. h.refs[p] \in Int /\ h.ends[p] \in Int
    BY DEF Heaps
  <2>2. /\ h1.refs[p] = IF p = o THEN h.refs[p] + 1 ELSE h.refs[p]
        /\ h1.ends[p] = IF p = o THEN h.ends[p] + 1 ELSE h.ends[p]
    BY <1>1, AttachedMoves
  <2>3. /\ Destroyed(h1, o).refs[p] = IF p = o THEN h1.refs[p] - 1 ELSE h1.refs[p]
        /\ Destroyed(h1, o).ends[p] = IF p = o THEN h1.ends[p] - 1 ELSE h1.ends[p]
    BY <1>2, DestroyedMoves
  <2>4. QED
    BY <2>1, <2>2, <2>3
<1>4. QED
  BY <1>2, <1>3, DestroyedMoves

\* A step that leaves the heap alone and allows the pointers there are.
LEMMA HeapStays ==
    ASSUME HeapInv, UNCHANGED heap, \A o \in PyObjects : PointersAt(o) \subseteq PointersAt(o)'
    PROVE  HeapInv'
  BY DEF HeapInv

LEMMA ImportKeepsHeap == PythonInv /\ (ImportPluginModule \/ ImportFails) => HeapInv'
<1> SUFFICES ASSUME PythonInv, ImportPluginModule \/ ImportFails PROVE HeapInv'
  OBVIOUS
<1>1. pcP = "importing" /\ pyThread = "held" /\ UNCHANGED pyThread
  BY DEF ImportPluginModule, ImportFails, At
<1>2. /\ heap \in Heaps
      /\ \A o \in PyObjects : heap.ends[o] = 0 /\ heap.refs[o] \in Int /\ heap.refs[o] >= 0
  BY <1>1 DEF PythonInv, HeapInv, Heaps, PointersAt, PyObjects
<1>3. PICK h1 : h1 = Attached(heap, "text")
  OBVIOUS
<1>4. /\ h1 \in Heaps
      /\ \A o \in PyObjects : /\ h1.refs[o] = heap.refs[o] + (IF o = "text" THEN 1 ELSE 0)
                              /\ h1.ends[o] = IF o = "text" THEN 1 ELSE 0
  BY <1>2, <1>3, AttachedMoves DEF PyObjects
<1>5. CASE ImportPluginModule
  <2>1. PICK h2 : h2 = Then(h1, "text", "module")
    OBVIOUS
  <2>2. PICK h3 : h3 = CheckAndGet(h2, "module")
    OBVIOUS
  <2>3. heap' = Attached(h3, "module") /\ pcP' = "imported"
    BY <1>3, <1>5, <2>1, <2>2 DEF ImportPluginModule, Assigned
  <2>4. /\ h2 \in Heaps
        /\ \A o \in PyObjects :
             /\ h2.refs[o] = h1.refs[o] + (IF o = "module" THEN 1 ELSE 0)
             /\ h2.ends[o] = h1.ends[o] + (IF o = "module" THEN 1 ELSE IF o = "text" THEN -1 ELSE 0)
    BY <1>4, <2>1, ThenMoves DEF PyObjects
  <2>5. h3 \in Heaps /\ \A o \in PyObjects : h3.refs[o] = h2.refs[o] /\ h3.ends[o] = h2.ends[o]
    BY <2>2, <2>4, CopyMoves DEF PyObjects
  <2>6. /\ heap' \in Heaps
        /\ \A o \in PyObjects :
             /\ heap'.refs[o] = IF o = "module" THEN h3.refs[o] + 1 ELSE h3.refs[o]
             /\ heap'.ends[o] = IF o = "module" THEN h3.ends[o] + 1 ELSE h3.ends[o]
    BY <2>3, <2>5, AttachedMoves DEF PyObjects
  <2>7. ASSUME NEW o \in PyObjects
        PROVE  heap'.ends[o] \in PointersAt(o)' /\ heap'.refs[o] >= heap'.ends[o]
    BY <1>1, <1>2, <1>4, <2>3, <2>4, <2>5, <2>6 DEF PointersAt, PyObjects
  <2>8. QED
    BY <2>6, <2>7 DEF HeapInv
<1>6. CASE ImportFails
  <2>1. heap' = Forgotten(h1, "text") /\ pcP' = "return"
    BY <1>3, <1>6 DEF ImportFails, ThenNull, Finished
  <2>2. /\ heap' \in Heaps
        /\ \A o \in PyObjects : /\ heap'.refs[o] = h1.refs[o]
                                /\ heap'.ends[o] = h1.ends[o] - (IF o = "text" THEN 1 ELSE 0)
    BY <1>4, <2>1, ForgottenMoves DEF PyObjects
  <2>3. ASSUME NEW o \in PyObjects
        PROVE  heap'.ends[o] \in PointersAt(o)' /\ heap'.refs[o] >= heap'.ends[o]
    BY <1>1, <1>2, <1>4, <2>1, <2>2 DEF PointersAt, PyObjects
  <2>4. QED
    BY <2>2, <2>3 DEF HeapInv
<1>7. QED
  BY <1>5, <1>6

LEMMA PrepareKeepsHeap ==
    PythonInv /\ (GetPluginInitializer \/ NoInitializer \/ CallInitializer) => HeapInv'
<1> SUFFICES ASSUME PythonInv, GetPluginInitializer \/ NoInitializer \/ CallInitializer
             PROVE  HeapInv'
  OBVIOUS
<1>1. /\ heap \in Heaps
      /\ \A o \in PyObjects : /\ heap.ends[o] \in Int /\ heap.refs[o] \in Int
                              /\ heap.ends[o] \in PointersAt(o) /\ heap.refs[o] >= heap.ends[o]
  BY DEF PythonInv, HeapInv, Heaps
<1>2. pyThread = "held" /\ UNCHANGED pyThread
  BY DEF GetPluginInitializer, NoInitializer, CallInitializer, At
<1>3. CASE GetPluginInitializer
  <2>1. PICK h1 : h1 = Attached(heap, "initializer")
    OBVIOUS
  <2>2. heap' = CheckAndGet(h1, "initializer") /\ pcP = "imported" /\ pcP' = "ready"
    BY <1>3, <2>1 DEF GetPluginInitializer, At
  <2>3. /\ h1 \in Heaps
        /\ \A o \in PyObjects :
             /\ h1.refs[o] = IF o = "initializer" THEN heap.refs[o] + 1 ELSE heap.refs[o]
             /\ h1.ends[o] = IF o = "initializer" THEN heap.ends[o] + 1 ELSE heap.ends[o]
    BY <1>1, <2>1, AttachedMoves DEF PyObjects
  <2>4. /\ heap' \in Heaps
        /\ \A o \in PyObjects : heap'.refs[o] = h1.refs[o] /\ heap'.ends[o] = h1.ends[o]
    BY <2>2, <2>3, CopyMoves DEF PyObjects
  <2>5. ASSUME NEW o \in PyObjects
        PROVE  heap'.ends[o] \in PointersAt(o)' /\ heap'.refs[o] >= heap'.ends[o]
    BY <1>1, <1>2, <2>2, <2>3, <2>4 DEF PointersAt, PyObjects
  <2>6. QED
    BY <2>4, <2>5 DEF HeapInv
<1>4. CASE NoInitializer
  <2>1. heap' = Destroyed(heap, "module") /\ pcP = "imported" /\ pcP' = "return"
    BY <1>4 DEF NoInitializer, At, Finished
  <2>2. /\ heap' \in Heaps
        /\ \A o \in PyObjects :
             /\ heap'.refs[o] = IF o = "module" THEN heap.refs[o] - 1 ELSE heap.refs[o]
             /\ heap'.ends[o] = IF o = "module" THEN heap.ends[o] - 1 ELSE heap.ends[o]
    BY <1>1, <2>1, DestroyedMoves DEF PyObjects
  <2>3. ASSUME NEW o \in PyObjects
        PROVE  heap'.ends[o] \in PointersAt(o)' /\ heap'.refs[o] >= heap'.ends[o]
    BY <1>1, <1>2, <2>1, <2>2 DEF PointersAt, PyObjects
  <2>4. QED
    BY <2>2, <2>3 DEF HeapInv
<1>5. CASE CallInitializer
  <2>1. heap' = Attached(heap, "tuple") /\ pcP = "ready" /\ pcP' = "calling"
    BY <1>5 DEF CallInitializer, At
  <2>2. /\ heap' \in Heaps
        /\ \A o \in PyObjects :
             /\ heap'.refs[o] = IF o = "tuple" THEN heap.refs[o] + 1 ELSE heap.refs[o]
             /\ heap'.ends[o] = IF o = "tuple" THEN heap.ends[o] + 1 ELSE heap.ends[o]
    BY <1>1, <2>1, AttachedMoves DEF PyObjects
  <2>3. ASSUME NEW o \in PyObjects
        PROVE  heap'.ends[o] \in PointersAt(o)' /\ heap'.refs[o] >= heap'.ends[o]
    BY <1>1, <1>2, <2>1, <2>2 DEF PointersAt, PyObjects
  <2>4. QED
    BY <2>2, <2>3 DEF HeapInv
<1>6. QED
  BY <1>3, <1>4, <1>5

\* The old tuple, the initializer's pointer and the copy of the module end here.
LEMMA ReturnKeepsHeap ==
    PythonInv /\ (InitializerReturns \/ InitializerThrows) => HeapInv'
<1> SUFFICES ASSUME PythonInv, InitializerReturns \/ InitializerThrows PROVE HeapInv'
  OBVIOUS
<1>1. /\ heap \in Heaps
      /\ \A o \in PyObjects : /\ heap.ends[o] \in Int /\ heap.refs[o] \in Int
                              /\ heap.ends[o] \in PointersAt(o) /\ heap.refs[o] >= heap.ends[o]
  BY DEF PythonInv, HeapInv, Heaps
<1>2. /\ pyThread = "held" /\ UNCHANGED pyThread /\ pcP = "calling" /\ pcP' = "return"
  BY DEF InitializerReturns, InitializerThrows, At, Finished
<1>3. /\ heap.ends["text"] = 0 /\ heap.ends["returned"] = 0 /\ heap.ends["tuple"] = 1
      /\ heap.ends["initializer"] = 1 /\ heap.ends["module"] = 2
  BY <1>1, <1>2 DEF PointersAt, PyObjects
<1>4. CASE InitializerReturns
  <2>1. PICK h1 : h1 = Then(heap, "tuple", "returned")
    OBVIOUS
  <2>2. PICK h2 : h2 = Destroyed(h1, "returned")
    OBVIOUS
  <2>3. PICK h3 : h3 = Destroyed(h2, "initializer")
    OBVIOUS
  <2>4. PICK h4 : h4 = Forgotten(h3, "module")
    OBVIOUS
  <2>5. PICK h5 : h5 = Attached(h4, "module")
    OBVIOUS
  <2>6. heap' = Destroyed(h5, "module")
    BY <1>4, <2>1, <2>2, <2>3, <2>4, <2>5 DEF InitializerReturns, Assigned
  <2>7. /\ h1 \in Heaps
        /\ \A p \in PyObjects :
             /\ h1.refs[p] = heap.refs[p] + (IF p = "returned" THEN 1 ELSE 0)
             /\ h1.ends[p] =
                  heap.ends[p] + (IF p = "returned" THEN 1 ELSE IF p = "tuple" THEN -1 ELSE 0)
    BY <1>1, <2>1, ThenMoves DEF PyObjects
  <2>8. /\ h2 \in Heaps
        /\ \A p \in PyObjects :
             /\ h2.refs[p] = IF p = "returned" THEN h1.refs[p] - 1 ELSE h1.refs[p]
             /\ h2.ends[p] = IF p = "returned" THEN h1.ends[p] - 1 ELSE h1.ends[p]
    BY <2>2, <2>7, DestroyedMoves DEF PyObjects
  <2>9. /\ h3 \in Heaps
        /\ \A p \in PyObjects :
             /\ h3.refs[p] = IF p = "initializer" THEN h2.refs[p] - 1 ELSE h2.refs[p]
             /\ h3.ends[p] = IF p = "initializer" THEN h2.ends[p] - 1 ELSE h2.ends[p]
    BY <2>3, <2>8, DestroyedMoves DEF PyObjects
  <2>10. /\ h4 \in Heaps
         /\ \A p \in PyObjects :
              /\ h4.refs[p] = h3.refs[p]
              /\ h4.ends[p] = IF p = "module" THEN h3.ends[p] - 1 ELSE h3.ends[p]
    BY <2>4, <2>9, ForgottenMoves DEF PyObjects
  <2>11. /\ h5 \in Heaps
         /\ \A p \in PyObjects :
              /\ h5.refs[p] = IF p = "module" THEN h4.refs[p] + 1 ELSE h4.refs[p]
              /\ h5.ends[p] = IF p = "module" THEN h4.ends[p] + 1 ELSE h4.ends[p]
    BY <2>5, <2>10, AttachedMoves DEF PyObjects
  <2>12. /\ heap' \in Heaps
         /\ \A p \in PyObjects :
              /\ heap'.refs[p] = IF p = "module" THEN h5.refs[p] - 1 ELSE h5.refs[p]
              /\ heap'.ends[p] = IF p = "module" THEN h5.ends[p] - 1 ELSE h5.ends[p]
    BY <2>6, <2>11, DestroyedMoves DEF PyObjects
  <2>13. ASSUME NEW o \in PyObjects
         PROVE  heap'.ends[o] \in PointersAt(o)' /\ heap'.refs[o] >= heap'.ends[o]
    <3>1. heap.refs[o] \in Int /\ heap.refs[o] >= heap.ends[o]
      BY <1>1
    <3>2. /\ h1.refs[o] \in Int /\ h1.ends[o] \in Int /\ h2.refs[o] \in Int /\ h2.ends[o] \in Int
          /\ h3.refs[o] \in Int /\ h3.ends[o] \in Int /\ h4.refs[o] \in Int /\ h4.ends[o] \in Int
      BY <2>7, <2>8, <2>9, <2>10 DEF Heaps
    <3>3. CASE o = "text"
      BY <1>2, <1>3, <2>7, <2>8, <2>9, <2>10, <2>11, <2>12, <3>1, <3>2, <3>3 DEF PointersAt
    <3>4. CASE o = "module"
      <4>1. /\ h1.ends[o] = 2 /\ h1.refs[o] = heap.refs[o]
            /\ h2.ends[o] = 2 /\ h2.refs[o] = heap.refs[o]
            /\ h3.ends[o] = 2 /\ h3.refs[o] = heap.refs[o]
        BY <1>3, <2>7, <2>8, <2>9, <3>1, <3>4
      <4>2. heap'.ends[o] = 1 /\ heap'.refs[o] = heap.refs[o]
        BY <2>10, <2>11, <2>12, <3>1, <3>4, <4>1
      <4>3. QED
        BY <1>2, <1>3, <3>1, <3>4, <4>2 DEF PointersAt
    <3>5. CASE o = "initializer"
      BY <1>2, <1>3, <2>7, <2>8, <2>9, <2>10, <2>11, <2>12, <3>1, <3>2, <3>5 DEF PointersAt
    <3>6. CASE o = "tuple"
      BY <1>2, <1>3, <2>7, <2>8, <2>9, <2>10, <2>11, <2>12, <3>1, <3>2, <3>6 DEF PointersAt
    <3>7. CASE o = "returned"
      BY <1>2, <1>3, <2>7, <2>8, <2>9, <2>10, <2>11, <2>12, <3>1, <3>2, <3>7 DEF PointersAt
    <3>8. QED
      BY <3>3, <3>4, <3>5, <3>6, <3>7 DEF PyObjects
  <2>14. QED
    BY <2>12, <2>13 DEF HeapInv
<1>5. CASE InitializerThrows
  <2>1. PICK h1 : h1 = Forgotten(heap, "tuple")
    OBVIOUS
  <2>2. PICK h2 : h2 = Destroyed(h1, "initializer")
    OBVIOUS
  <2>3. heap' = Destroyed(h2, "module")
    BY <1>5, <2>1, <2>2 DEF InitializerThrows, ThenNull
  <2>4. /\ h1 \in Heaps
        /\ \A p \in PyObjects :
             /\ h1.refs[p] = heap.refs[p]
             /\ h1.ends[p] = IF p = "tuple" THEN heap.ends[p] - 1 ELSE heap.ends[p]
    BY <1>1, <2>1, ForgottenMoves DEF PyObjects
  <2>5. /\ h2 \in Heaps
        /\ \A p \in PyObjects :
             /\ h2.refs[p] = IF p = "initializer" THEN h1.refs[p] - 1 ELSE h1.refs[p]
             /\ h2.ends[p] = IF p = "initializer" THEN h1.ends[p] - 1 ELSE h1.ends[p]
    BY <2>2, <2>4, DestroyedMoves DEF PyObjects
  <2>6. /\ heap' \in Heaps
        /\ \A p \in PyObjects :
             /\ heap'.refs[p] = IF p = "module" THEN h2.refs[p] - 1 ELSE h2.refs[p]
             /\ heap'.ends[p] = IF p = "module" THEN h2.ends[p] - 1 ELSE h2.ends[p]
    BY <2>3, <2>5, DestroyedMoves DEF PyObjects
  <2>7. ASSUME NEW o \in PyObjects
        PROVE  heap'.ends[o] \in PointersAt(o)' /\ heap'.refs[o] >= heap'.ends[o]
    <3>1. heap.refs[o] \in Int /\ heap.refs[o] >= heap.ends[o]
      BY <1>1
    <3>2. CASE o = "text"
      BY <1>2, <1>3, <2>4, <2>5, <2>6, <3>1, <3>2 DEF PointersAt
    <3>3. CASE o = "module"
      BY <1>2, <1>3, <2>4, <2>5, <2>6, <3>1, <3>3 DEF PointersAt
    <3>4. CASE o = "initializer"
      BY <1>2, <1>3, <2>4, <2>5, <2>6, <3>1, <3>4 DEF PointersAt
    <3>5. CASE o = "tuple"
      BY <1>2, <1>3, <2>4, <2>5, <2>6, <3>1, <3>5 DEF PointersAt
    <3>6. CASE o = "returned"
      BY <1>2, <1>3, <2>4, <2>5, <2>6, <3>1, <3>6 DEF PointersAt
    <3>7. QED
      BY <3>2, <3>3, <3>4, <3>5, <3>6 DEF PyObjects
  <2>8. QED
    BY <2>6, <2>7 DEF HeapInv
<1>6. QED
  BY <1>4, <1>5

LEMMA HeapStep == PythonInv /\ [PythonNext]_pythonVars => HeapInv'
<1> SUFFICES ASSUME PythonInv, [PythonNext]_pythonVars PROVE HeapInv'
  OBVIOUS
<1>1. CASE UNCHANGED pythonVars
  BY <1>1, HeapStays DEF PythonInv, pythonVars, PointersAt
<1>2. CASE NoRuntime \/ LoadCppPlugin
  BY <1>2, HeapStays DEF PythonInv, NoRuntime, LoadCppPlugin, PointersAt
<1>3. CASE CreatePythonRuntime
  <2>1. /\ UNCHANGED heap /\ pcP = "idle" /\ pcP' = "begin" /\ pyThread # "held"
        /\ IF pyThread = "none" THEN pyThread' = "held" ELSE pyThread' = pyThread
    BY <1>3 DEF CreatePythonRuntime, BeginLoad, PythonInv, ThreadInv
  <2>2. ASSUME NEW o \in PyObjects PROVE PointersAt(o) \subseteq PointersAt(o)'
    BY <2>1 DEF PointersAt, PyObjects, PythonInv, PythonTypes
  <2>3. QED
    BY <2>1, <2>2, HeapStays DEF PythonInv
<1>4. CASE AbortWithoutThread
  <2>1. /\ UNCHANGED heap /\ pcP = "begin" /\ pcP' = "idle"
        /\ pyThread = "released" /\ pyThread' = pyThread
    BY <1>4 DEF AbortWithoutThread, PythonInv, ThreadInv, PythonTypes
  <2>2. ASSUME NEW o \in PyObjects PROVE PointersAt(o) \subseteq PointersAt(o)'
    BY <2>1 DEF PointersAt, PyObjects
  <2>3. QED
    BY <2>1, <2>2, HeapStays DEF PythonInv
<1>5. CASE RejectPath \/ ResolveClassName
  <2>1. /\ UNCHANGED heap /\ pcP = "begin" /\ pcP' \in {"importing", "return"}
        /\ pyThread = "held" /\ pyThread' = pyThread
    BY <1>5 DEF RejectPath, ResolveClassName, At, Finished
  <2>2. ASSUME NEW o \in PyObjects PROVE PointersAt(o) \subseteq PointersAt(o)'
    BY <2>1 DEF PointersAt, PyObjects
  <2>3. QED
    BY <2>1, <2>2, HeapStays DEF PythonInv
<1>6. ASSUME NEW i \in PackageIds, NEW got \in 1 .. 3, RegisterPackage(i, got)
      PROVE  HeapInv'
  BY <1>6, HeapStays DEF PythonInv, RegisterPackage, PointersAt
<1>7. CASE LeaveLoadPlugin
  <2>1. /\ UNCHANGED heap /\ pcP = "return" /\ pcP' = "idle"
        /\ pyThread = "held" /\ pyThread' = "released"
    BY <1>7 DEF LeaveLoadPlugin
  <2>2. ASSUME NEW o \in PyObjects PROVE PointersAt(o) \subseteq PointersAt(o)'
    BY <2>1 DEF PointersAt, PyObjects
  <2>3. QED
    BY <2>1, <2>2, HeapStays DEF PythonInv
<1>8. QED
  BY <1>1, <1>2, <1>3, <1>4, <1>5, <1>6, <1>7, ImportKeepsHeap, PrepareKeepsHeap,
     ReturnKeepsHeap DEF PythonNext

LEMMA ThreadStep ==
    PythonInv /\ [PythonNext]_pythonVars => PythonTypes' /\ ThreadInv'
<1> SUFFICES ASSUME PythonInv, [PythonNext]_pythonVars PROVE PythonTypes' /\ ThreadInv'
  OBVIOUS
<1> USE DEF PythonInv, PythonTypes, ThreadInv
<1>1. CASE UNCHANGED pythonVars
  BY <1>1 DEF pythonVars, packageVars
<1>2. CASE NoRuntime \/ LoadCppPlugin \/ CreatePythonRuntime
  <2>1. loads' \in 0 .. MaxLoads
    BY <1>2, PythonAssumption DEF NoRuntime, LoadCppPlugin, CreatePythonRuntime, BeginLoad
  <2>2. QED
    BY <1>2, <2>1
       DEF NoRuntime, LoadCppPlugin, CreatePythonRuntime, BeginLoad, packageVars
<1>3. CASE AbortWithoutThread \/ RejectPath \/ ResolveClassName
  BY <1>3 DEF AbortWithoutThread, RejectPath, ResolveClassName, At, Finished, RestOfLoad,
              packageVars
<1>4. CASE ImportPluginModule \/ ImportFails \/ GetPluginInitializer \/ NoInitializer
  BY <1>4 DEF ImportPluginModule, ImportFails, GetPluginInitializer, NoInitializer, At,
              Finished, RestOfLoad, RaiseIfError, packageVars
<1>5. CASE CallInitializer \/ InitializerReturns \/ InitializerThrows
  BY <1>5 DEF CallInitializer, InitializerReturns, InitializerThrows, At, Finished,
              ReleaseOwnership, RaiseIfError
<1>6. ASSUME NEW i \in PackageIds, NEW got \in 1 .. 3, RegisterPackage(i, got)
      PROVE  PythonTypes' /\ ThreadInv'
  BY <1>6 DEF RegisterPackage
<1>7. CASE LeaveLoadPlugin
  BY <1>7 DEF LeaveLoadPlugin, AsksNoPackage, packageVars
<1>8. QED
  BY <1>1, <1>2, <1>3, <1>4, <1>5, <1>6, <1>7 DEF PythonNext

\* A package is let go only by a pointer that counted it.
LEMMA PackageStep == PythonInv /\ [PythonNext]_pythonVars => PackageInv'
<1> SUFFICES ASSUME PythonInv, [PythonNext]_pythonVars PROVE PackageInv'
  OBVIOUS
<1>1. /\ packageCounters \in [PackageIds -> Int]
      /\ \A i \in PackageIds : packageCounters[i] >= Counts(i)
      /\ storedPackage \in PackageIds \cup {NoPackage}
      /\ loadedPackage \in PackageIds \cup {NoPackage} /\ NoPackage \notin PackageIds
  BY DEF PythonInv, PackageInv, PackageIds, NoPackage
<1>2. ASSUME UNCHANGED <<packageCounters, storedPackage, loadedPackage>> PROVE PackageInv'
  BY <1>1, <1>2 DEF PackageInv, Counts
<1>3. CASE InitializerReturns
  <2>1. /\ loadedPackage' = storedPackage /\ storedPackage' = NoPackage
        /\ packageCounters' = Dropped(NoPackage)
    BY <1>3 DEF InitializerReturns, ReleaseOwnership
  <2>2. packageCounters' = packageCounters
    BY <1>1, <2>1 DEF Dropped
  <2>3. QED
    BY <1>1, <2>1, <2>2 DEF PackageInv, Counts
<1>4. CASE InitializerThrows
  <2>1. /\ loadedPackage' = loadedPackage /\ storedPackage' = NoPackage
        /\ packageCounters' = Dropped(storedPackage)
    BY <1>4 DEF InitializerThrows, ReleaseOwnership
  <2>2. QED
    BY <1>1, <2>1 DEF PackageInv, Counts, Dropped
<1>5. ASSUME NEW i \in PackageIds, NEW got \in 1 .. 3, RegisterPackage(i, got)
      PROVE  PackageInv'
  <2>1. /\ packageCounters[i] = 0 /\ i # loadedPackage
        /\ packageCounters' = [Dropped(storedPackage) EXCEPT ![i] = CounterAfter(got)]
        /\ storedPackage' = i /\ loadedPackage' = loadedPackage
    BY <1>5 DEF RegisterPackage
  <2>2. CounterAfter(got) \in Int /\ CounterAfter(got) >= 1
    BY DEF CounterAfter
  <2>3. /\ packageCounters' \in [PackageIds -> Int] /\ packageCounters'[i] >= 1
        /\ \A k \in PackageIds : k # i =>
             packageCounters'[k] = IF k = storedPackage THEN packageCounters[k] - 1
                                   ELSE packageCounters[k]
    BY <1>1, <2>1, <2>2 DEF Dropped
  <2>4. ASSUME NEW k \in PackageIds PROVE packageCounters'[k] >= Counts(k)'
    BY <1>1, <2>1, <2>3 DEF Counts
  <2>5. QED
    BY <1>1, <2>1, <2>3, <2>4 DEF PackageInv
<1>6. QED
  BY <1>2, <1>3, <1>4, <1>5
     DEF PythonNext, pythonVars, packageVars, NoRuntime, LoadCppPlugin, CreatePythonRuntime,
         AbortWithoutThread, RejectPath, ResolveClassName, ImportPluginModule, ImportFails,
         GetPluginInitializer, NoInitializer, CallInitializer, LeaveLoadPlugin, RestOfLoad

LEMMA PythonIs == PythonInv => PythonTypeOK /\ PointersCounted
<1> SUFFICES ASSUME PythonInv PROVE PythonTypeOK /\ PointersCounted
  OBVIOUS
<1>1. PythonTypeOK
  BY DEF PythonInv, PythonTypes, HeapInv, Heaps, PackageInv, PythonTypeOK
<1>2. ASSUME NEW o \in PyObjects PROVE heap.ends[o] \in 0 .. heap.refs[o]
  BY DEF PythonInv, HeapInv, Heaps, PointersAt, PyObjects
<1>3. ASSUME NEW i \in PackageIds PROVE packageCounters[i] >= Holders(i)
  <2>1. ASSUME NEW x, NEW b \in BOOLEAN
        PROVE  Cardinality({p \in {x} : b}) = IF b THEN 1 ELSE 0
    <3>1. {p \in {x} : b} = IF b THEN {x} ELSE {}
      OBVIOUS
    <3>2. QED
      BY <3>1, FS_EmptySet, FS_Singleton
  <2>2. /\ Cardinality({p \in {"stored"} : storedPackage = i}) = IF storedPackage = i THEN 1 ELSE 0
        /\ Cardinality({p \in {"loaded"} : loadedPackage = i}) = IF loadedPackage = i THEN 1 ELSE 0
    BY <2>1
  <2>3. QED
    BY <2>2 DEF PythonInv, PackageInv, Counts, Holders
<1>4. QED
  BY <1>1, <1>2, <1>3 DEF PointersCounted

\* The runtimes keep their types, for all loads, languages and packages.
THEOREM PythonTypeCorrect == PythonSpec => []PythonTypeOK
<1>1. PythonSpec => []PythonInv
  BY PythonInitInv, HeapStep, ThreadStep, PackageStep, PTL DEF PythonSpec, PythonInv
<1>2. QED
  BY <1>1, PythonIs, PTL

\* Wherever a load succeeds or fails, each pointer that will give a reference back has
\* one that was counted, to the interpreter's objects and to the registered package.
THEOREM PointersAreCounted == PythonSpec => []PointersCounted
<1>1. PythonSpec => []PythonInv
  BY PythonInitInv, HeapStep, ThreadStep, PackageStep, PTL DEF PythonSpec, PythonInv
<1>2. QED
  BY <1>1, PythonIs, PTL

-------------------------------------------------------------------------------
(***************************************************************************)
(* The services together.  Every behaviour of MCHost is one of each of the *)
(* modules, so that what was proved of them holds of the host, whatever    *)
(* part an initial state lets move.                                        *)
(***************************************************************************)
LEMMA HostStep ==
    [Next]_vars => /\ [ControllerNext]_logVars
                   /\ [SettingsNext \/ ExtraNext]_settingsVars
                   /\ [CaptureNext]_<<registryVars, captureVars>>
                   /\ [MessagesNext]_messageVars
                   /\ [ProfileNext]_profileVars
                   /\ [PythonNext]_pythonVars
<1> SUFFICES ASSUME [Next]_vars
             PROVE  /\ [ControllerNext]_logVars
                    /\ [SettingsNext \/ ExtraNext]_settingsVars
                    /\ [CaptureNext]_<<registryVars, captureVars>>
                    /\ [MessagesNext]_messageVars
                    /\ [ProfileNext]_profileVars
                    /\ [PythonNext]_pythonVars
  OBVIOUS
<1>1. CASE Next
  BY <1>1 DEF Next
<1>2. CASE UNCHANGED vars
  BY <1>2 DEF vars
<1>3. QED
  BY <1>1, <1>2

LEMMA PartsBehave ==
    Spec => /\ ControllerSpec /\ SettingsSpec /\ CaptureSpec
            /\ MessagesSpec /\ ProfileSpec /\ PythonSpec
<1>1. Init => /\ ControllerInit /\ SettingsInit /\ CaptureInit
              /\ MessagesInit /\ ProfileInit /\ PythonInit
  BY DEF Init
<1>2. QED
  BY <1>1, HostStep, PTL
     DEF Spec, ControllerSpec, SettingsSpec, CaptureSpec, MessagesSpec, ProfileSpec, PythonSpec

\* Every capture manager works on a registry that behaves as one.
LEMMA CaptureUsesRegistry == CaptureSpec => RegistrySpec
<1>1. CaptureInit => RegistryInit
  BY DEF CaptureInit
<1>2. [CaptureNext]_<<registryVars, captureVars>> => [RegistryNext]_registryVars
  BY DEF CaptureNext, CreateCaptureManager, RunCapturePerformanceTest, Untouched,
         EnumCaptureLoadErrorState, EnumCapturePerformanceTestResult
<1>3. QED
  BY <1>1, <1>2, PTL DEF CaptureSpec, RegistrySpec

\* The host's services keep their types, for all values of the constants.
THEOREM HostTypeCorrect == Spec => []HostTypeOK
<1>1. ControllerTypeOK /\ SettingsTypeOK /\ CaptureTypeOK /\ MessagesTypeOK
        /\ ProfileTypeOK /\ PythonTypeOK => HostTypeOK
  BY DEF HostTypeOK
<1>2. QED
  BY <1>1, PartsBehave, ControllerTypeCorrect, SettingsTypeCorrect, CaptureTypeCorrect,
     MessagesTypeCorrect, ProfileTypeCorrect, PythonTypeCorrect, PTL

\* In the host, as the run has it: what each part promises holds of all behaviours.
THEOREM HostIsSafe ==
    Spec => [](/\ OnlyOldLinesLost /\ ServedAsDelivered /\ QuietFileIsADocument
               /\ SupporterIsAsked /\ ResultsFollowCaptures /\ ListedTogether
               /\ PointersCounted)
  BY PartsBehave, CaptureUsesRegistry, LostLinesAreOld, NothingServedTwice, QuietFilesAreWhole,
     SupportersAreAsked, ResultsAreOfCaptures, EnumeratedTogether, PointersAreCounted, PTL

\* Nor does the host crash over a code that somebody explained.
THEOREM HostCrashIsUnexplained == Spec => CrashNeedsUnexplained
  BY PartsBehave, CrashIsUnexplained, PTL
===============================================================================
