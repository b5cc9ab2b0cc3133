---------------------------- MODULE CatalogProofs -----------------------------
(***************************************************************************)
(* Proofs about the catalogue, the styles of personal layers and the uploaded*)
(* QGIS projects, for any number of layers, requests and projects.         *)
(***************************************************************************)
EXTENDS Services, SequenceTheorems, TLAPS

-----------------------------------------------------------------------------
(* The catalogue *)

IndexStep == [at : {"index", "unindex"}, layer : Layer, name : 0..MaxName]
StyleStep == [at : {"style", "script", "write", "resync"}, layer : Layer, style : Style,
              file : [Layer -> Style]]
ReindexStep == [at : {"reindex"}, todo : SUBSET Layer, read : [Layer -> 0..MaxName]]

\* The layers a step is about
Targets(x) == IF x = None THEN {} ELSE IF x.at = "reindex" THEN x.todo ELSE {x.layer}

\* What is promised of a layer in the hands of one request, by what that is about to do
Promise(x, l) ==
  /\ x.at = "index" /\ l \notin missed => rows[l] # None /\ x.name = rows[l].name
  /\ x.at = "unindex" => rows[l] = None
  /\ x.at = "reindex" /\ l \notin missed => rows[l] # None /\ x.read[l] = rows[l].name
  /\ x.at = "resync" /\ rows[l] # None => x.style = rows[l].style
  /\ x.at = "write" /\ l \notin torn => x.style = drawn[l]

\* The search has the layer under its name, or is about to be told.
Searched(l) ==
  \/ \E h \in Request : l \in Targets(editing[h]) /\ editing[h].at \in {"index", "unindex"}
  \/ index[l] = IF rows[l] # None THEN rows[l].name ELSE None

\* The project draws the style of the row, or the row is about to be told.
Agreed(l) ==
  \/ \E h \in Request : l \in Targets(editing[h]) /\ editing[h].at = "write"
  \/ rows[l] # None => rows[l].style = drawn[l]

LayerInv(l) ==
  /\ l \notin layers => /\ rows[l] = None /\ \A h \in Request : l \notin Targets(editing[h])
                        /\ l \notin overlapped => drawn[l] = Plain
  /\ l \notin overlapped =>
       /\ \A g \in Request, h \in Request :
            l \in Targets(editing[g]) /\ l \in Targets(editing[h]) => g = h
       /\ \A h \in Request : l \in Targets(editing[h]) => Promise(editing[h], l)
       /\ l \in layers \ missed => Searched(l)
       /\ l \notin torn => Agreed(l)

\* The name a request is about to index is one.
Named ==
  \A h \in Request :
    /\ Cat!At(h, "index") => editing[h].name \in 1..MaxName
    /\ Cat!At(h, "reindex") => \A l \in editing[h].todo : editing[h].read[l] \in 1..MaxName

\* Unless two scripts had the project open, the one that has will save it as it is.
OneScript ==
  \A h \in Request : Cat!At(h, "script") =>
    \A l \in Layer \ overlapped :
      /\ editing[h].file[l] = drawn[l]
      /\ \A g \in Request : Cat!At(g, "script") => g = h

CatalogInv == Cat!TypeOK /\ Named /\ OneScript /\ \A l \in Layer : LayerInv(l)

\* None is no row, no name and no request of the catalogue.
LEMMA Unlisted ==
  /\ None \notin Cat!Row /\ None \notin Cat!Doing /\ Plain \in Style
  /\ MaxName \in Nat \ {0} /\ None \notin Style
BY ServicesAssumption, NoneAssumption

\* What a request holds is told by its step.
LEMMA Steps ==
  ASSUME Cat!TypeOK, NEW h \in Request, editing[h] # None
  PROVE  /\ editing[h].at \in {"index", "unindex"} => editing[h] \in IndexStep
         /\ editing[h].at \in {"style", "script", "write", "resync"} => editing[h] \in StyleStep
         /\ editing[h].at = "reindex" => editing[h] \in ReindexStep
         /\ editing[h].at \in {"index", "unindex", "style", "script", "write", "resync", "reindex"}
         /\ Targets(editing[h]) \subseteq Layer
<1>1. editing[h] \in IndexStep \cup StyleStep \cup ReindexStep
  BY DEF Cat!TypeOK, Cat!Doing, IndexStep, StyleStep, ReindexStep
<1>2. CASE editing[h] \in IndexStep
  BY <1>2 DEF IndexStep, Targets
<1>3. CASE editing[h] \in StyleStep
  BY <1>3 DEF StyleStep, Targets
<1>4. CASE editing[h] \in ReindexStep
  BY <1>4 DEF ReindexStep, Targets
<1> QED
  BY <1>1, <1>2, <1>3, <1>4

\* What a request holds is one of the three kinds.
LEMMA Held ==
  ASSUME Cat!TypeOK, NEW h \in Request, NEW x \in Cat!Doing \cup {None}, Cat!Put(h, x)
  PROVE  /\ editing' \in [Request -> Cat!Doing \cup {None}] /\ editing'[h] = x
         /\ \A g \in Request \ {h} : editing'[g] = editing[g]
BY DEF Cat!TypeOK, Cat!Put

\* The layers a request has yet to touch are those of what it holds.
LEMMA TouchesAre == \A h \in Request : Cat!Touches(h) = Targets(editing[h])
BY DEF Cat!Touches, Targets

\* What a request knows of a layer does not change.
SameView(g) ==
  \/ editing'[g] = editing[g]
  \/ editing'[g].at = "reindex" /\ editing[g].at = "reindex" /\ editing'[g].read = editing[g].read

\* A layer that a step is not about keeps its invariant.
LEMMA Apart ==
  ASSUME NEW m \in Layer, LayerInv(m), rows'[m] = rows[m], index'[m] = index[m],
         m \notin overlapped' => m \notin overlapped /\ drawn'[m] = drawn[m],
         m \in layers' <=> m \in layers, m \in missed => m \in missed', m \in torn => m \in torn',
         \A g \in Request : m \in Targets(editing'[g]) => m \in Targets(editing[g]) /\ SameView(g),
         \A g \in Request :
           m \in Targets(editing[g]) =>
             \/ m \in Targets(editing'[g])
             \/ editing[g].at \in {"index", "unindex"} /\ m \in missed'
             \/ editing[g].at = "write" /\ m \in torn'
             \/ editing[g].at \notin {"index", "unindex", "write"}
  PROVE  LayerInv(m)'
<1>1. m \notin layers' => /\ rows'[m] = None /\ \A h \in Request : m \notin Targets(editing'[h])
                          /\ m \notin overlapped' => drawn'[m] = Plain
  BY DEF LayerInv
<1>2. SUFFICES ASSUME m \notin overlapped'
      PROVE /\ \A g \in Request, h \in Request :
                 m \in Targets(editing'[g]) /\ m \in Targets(editing'[h]) => g = h
            /\ \A h \in Request : m \in Targets(editing'[h]) => Promise(editing[h], m)'
            /\ m \in layers' \ missed' => Searched(m)'
            /\ m \notin torn' => Agreed(m)'
  BY <1>1 DEF LayerInv, Targets
<1>3. \A h \in Request : m \in Targets(editing'[h]) => Promise(editing[h], m)'
  <2> SUFFICES ASSUME NEW h \in Request, m \in Targets(editing'[h]) PROVE Promise(editing[h], m)'
    OBVIOUS
  <2>1. Promise(editing[h], m) /\ SameView(h)
    BY <1>2 DEF LayerInv
  <2> QED
    BY <1>2, <2>1 DEF Promise, SameView
<1>4. ASSUME m \in layers', m \notin missed' PROVE Searched(m)'
  <2>1. Searched(m)
    BY <1>2, <1>4 DEF LayerInv
  <2>2. CASE \E h \in Request : m \in Targets(editing[h]) /\ editing[h].at \in {"index", "unindex"}
    BY <1>4, <2>2 DEF Searched, SameView, Targets
  <2>3. CASE index[m] = IF rows[m] # None THEN rows[m].name ELSE None
    BY <2>3 DEF Searched
  <2> QED
    BY <2>1, <2>2, <2>3 DEF Searched
<1>5. ASSUME m \notin torn' PROVE Agreed(m)'
  <2>1. Agreed(m)
    BY <1>2, <1>5 DEF LayerInv
  <2>2. CASE \E h \in Request : m \in Targets(editing[h]) /\ editing[h].at = "write"
    BY <1>5, <2>2 DEF Agreed, SameView, Targets
  <2>3. CASE rows[m] # None => rows[m].style = drawn[m]
    BY <1>2, <2>3 DEF Agreed
  <2> QED
    BY <2>1, <2>2, <2>3 DEF Agreed
<1>6. \A g \in Request, h \in Request :
        m \in Targets(editing'[g]) /\ m \in Targets(editing'[h]) => g = h
  BY <1>2 DEF LayerInv
<1> QED
  BY <1>3, <1>4, <1>5, <1>6

\* A step of one request about one layer, the others apart
LEMMA OneLayer ==
  ASSUME Cat!TypeOK, \A m \in Layer : LayerInv(m), NEW h \in Request, NEW l \in Layer,
         Targets(editing[h]) \subseteq {l}, NEW x \in Cat!Doing \cup {None},
         Targets(x) \subseteq {l}, Cat!Put(h, x), LayerInv(l)',
         \A m \in Layer \ {l} :
           /\ rows'[m] = rows[m] /\ index'[m] = index[m]
           /\ m \notin overlapped' => m \notin overlapped /\ drawn'[m] = drawn[m]
           /\ (m \in layers' <=> m \in layers)
           /\ (m \in missed => m \in missed') /\ (m \in torn => m \in torn')
  PROVE  \A m \in Layer : LayerInv(m)'
<1> SUFFICES ASSUME NEW m \in Layer \ {l} PROVE LayerInv(m)'
  OBVIOUS
<1>1. editing'[h] = x /\ \A g \in Request \ {h} : editing'[g] = editing[g]
  BY Held
<1>2. /\ \A g \in Request : m \in Targets(editing'[g]) => m \in Targets(editing[g]) /\ SameView(g)
      /\ \A g \in Request : m \in Targets(editing[g]) => m \in Targets(editing'[g])
  BY <1>1 DEF SameView
<1> QED
  BY <1>2, Apart

\* The layer the step is about
LEMMA ThatLayer ==
  ASSUME Cat!TypeOK, NEW h \in Request, NEW l \in layers', NEW x \in Cat!Doing \cup {None},
         Cat!Put(h, x),
         l \notin overlapped' =>
           /\ \A g \in Request \ {h} : l \notin Targets(editing[g])
           /\ l \in Targets(x) => Promise(x, l)'
           /\ l \notin missed' => \/ l \in Targets(x) /\ x.at \in {"index", "unindex"}
                                  \/ index'[l] = IF rows'[l] # None THEN rows'[l].name ELSE None
           /\ l \notin torn' => \/ l \in Targets(x) /\ x.at = "write"
                                \/ rows'[l] # None => rows'[l].style = drawn'[l]
  PROVE  LayerInv(l)'
<1>1. editing'[h] = x /\ \A g \in Request \ {h} : editing'[g] = editing[g]
  BY Held
<1> SUFFICES ASSUME l \notin overlapped'
             PROVE  /\ \A g \in Request, k \in Request :
                         l \in Targets(editing'[g]) /\ l \in Targets(editing'[k]) => g = k
                    /\ \A k \in Request : l \in Targets(editing'[k]) => Promise(editing[k], l)'
                    /\ l \notin missed' => Searched(l)'
                    /\ l \notin torn' => Agreed(l)'
  BY DEF LayerInv, Targets
<1>2. \A k \in Request : l \in Targets(editing'[k]) => k = h
  BY <1>1
<1>3. \A k \in Request : l \in Targets(editing'[k]) => Promise(editing[k], l)'
  BY <1>1, <1>2 DEF Promise
<1>4. l \notin missed' => Searched(l)'
  BY <1>1 DEF Searched, Targets
<1>5. l \notin torn' => Agreed(l)'
  BY <1>1 DEF Agreed, Targets
<1> QED
  BY <1>2, <1>3, <1>4, <1>5

\* A layer in the hands of one request, if it was not disputed
LEMMA InHand ==
  ASSUME Cat!TypeOK, NEW l \in Layer, LayerInv(l), NEW h \in Request, l \in Targets(editing[h])
  PROVE  /\ l \in layers
         /\ l \notin overlapped =>
              /\ \A g \in Request \ {h} : l \notin Targets(editing[g])
              /\ Promise(editing[h], l)
              /\ l \notin missed /\ editing[h].at \notin {"index", "unindex"}
                 => index[l] = IF rows[l] # None THEN rows[l].name ELSE None
              /\ l \notin torn /\ editing[h].at # "write"
                 => (rows[l] # None => rows[l].style = drawn[l])
<1>1. l \in layers
  BY DEF LayerInv
<1> SUFFICES ASSUME l \notin overlapped
             PROVE  /\ \A g \in Request \ {h} : l \notin Targets(editing[g])
                    /\ Promise(editing[h], l)
                    /\ l \notin missed /\ editing[h].at \notin {"index", "unindex"}
                       => index[l] = IF rows[l] # None THEN rows[l].name ELSE None
                    /\ l \notin torn /\ editing[h].at # "write"
                       => (rows[l] # None => rows[l].style = drawn[l])
  BY <1>1
<1>2. (\A g \in Request \ {h} : l \notin Targets(editing[g])) /\ Promise(editing[h], l)
  BY DEF LayerInv
<1>3. l \notin missed => Searched(l)
  BY <1>1 DEF LayerInv
<1>4. l \notin torn => Agreed(l)
  BY DEF LayerInv
<1> QED
  BY <1>2, <1>3, <1>4 DEF Searched, Agreed

\* A request begins with a layer nobody is at work on, or disputes it.
LEMMA Freed ==
  ASSUME Cat!TypeOK, NEW l \in Layer, LayerInv(l), rows[l] # None, Cat!Overlap({l})
  PROVE  /\ l \in layers /\ overlapped \subseteq overlapped'
         /\ \A m \in Layer \ {l} : m \in overlapped' <=> m \in overlapped
         /\ l \notin overlapped' =>
              /\ \A g \in Request : l \notin Targets(editing[g])
              /\ l \notin missed => index[l] = rows[l].name
              /\ l \notin torn => rows[l].style = drawn[l]
<1>1. l \in layers
  BY DEF LayerInv
<1>2. overlapped' = overlapped \cup ({l} \cap UNION {Targets(editing[g]) : g \in Request})
  BY TouchesAre DEF Cat!Overlap
<1>3. ASSUME l \notin overlapped'
      PROVE  l \notin overlapped /\ \A g \in Request : l \notin Targets(editing[g])
  BY <1>2, <1>3
<1>4. ASSUME l \notin overlapped' PROVE l \notin missed => index[l] = rows[l].name
  BY <1>1, <1>3, <1>4 DEF LayerInv, Searched
<1>5. ASSUME l \notin overlapped' PROVE l \notin torn => rows[l].style = drawn[l]
  BY <1>3, <1>5 DEF LayerInv, Agreed
<1> QED
  BY <1>1, <1>2, <1>3, <1>4, <1>5

\* A step that opens or saves no project keeps the names and the script.
LEMMA Rest ==
  ASSUME Cat!TypeOK, Named, OneScript, NEW h \in Request, NEW x \in Cat!Doing \cup {None},
         Cat!Put(h, x), UNCHANGED drawn, overlapped \subseteq overlapped',
         x # None => /\ x.at # "script" /\ (x.at = "index" => x.name \in 1..MaxName)
                     /\ x.at = "reindex" => \A l \in x.todo : x.read[l] \in 1..MaxName
  PROVE  Named' /\ OneScript'
<1>1. editing'[h] = x /\ \A g \in Request \ {h} : editing'[g] = editing[g]
  BY Held
<1> QED
  BY <1>1 DEF Named, OneScript, Cat!At

\* A request on its way to the search index
LEMMA IndexTyped ==
  ASSUME NEW x \in IndexStep
  PROVE  /\ x \in Cat!Doing /\ x # None /\ Targets(x) = {x.layer} /\ x.layer \in Layer
         /\ x.at \in {"index", "unindex"}
<1>1. x \in Cat!Doing
  BY DEF IndexStep, Cat!Doing
<1> QED
  BY <1>1, Unlisted DEF Targets, IndexStep

\* A request that changes the style of a layer
LEMMA StyleTyped ==
  ASSUME NEW x \in StyleStep
  PROVE  /\ x \in Cat!Doing /\ x # None /\ Targets(x) = {x.layer} /\ x.layer \in Layer
         /\ x.at \in {"style", "script", "write", "resync"} /\ x.style \in Style
<1>1. x \in Cat!Doing
  BY DEF StyleStep, Cat!Doing
<1> QED
  BY <1>1, Unlisted DEF Targets, StyleStep

Trees ==
  /\ group \subseteq Group /\ sub \in [SubGroup -> group \cup {None}]
  /\ \A l \in Layer : rows[l] # None => sub[rows[l].sub] # None
  /\ layers \subseteq Layer
Arrays ==
  /\ rows \in [Layer -> Cat!Row \cup {None}] /\ index \in [Layer -> 1..MaxName \cup {None}]
  /\ drawn \in [Layer -> Style]
\* The trees, the arrays and what the requests hold are typed apart, now and after a step.
LEMMA TypedBy ==
  /\ Cat!TypeOK <=> Trees /\ Arrays /\ editing \in [Request -> Cat!Doing \cup {None}]
  /\ Cat!TypeOK' <=> Trees' /\ Arrays' /\ editing' \in [Request -> Cat!Doing \cup {None}]
BY DEF Cat!TypeOK, Trees, Arrays

\* CreateLayerUseCase inserts the row, then the document of the index.
LEMMA CreateStep ==
  ASSUME CatalogInv, NEW h \in Request, NEW l \in Layer, NEW s \in SubGroup, Cat!Create(h, l, s)
  PROVE  CatalogInv'
<1> USE DEF CatalogInv
<1>1. PICK x : x = [at |-> "index", layer |-> l, name |-> 1]
  OBVIOUS
<1>2. x \in IndexStep /\ x.at = "index" /\ x.name = 1 /\ x.layer = l /\ 1 \in 1..MaxName
  BY <1>1, Unlisted DEF IndexStep
<1>3. x \in Cat!Doing /\ x # None /\ Targets(x) = {l}
  BY <1>2, IndexTyped
<1>4. /\ editing[h] = None /\ Cat!Put(h, x) /\ l \notin layers /\ layers' = layers \cup {l}
      /\ sub[s] # None /\ rows' = [rows EXCEPT ![l] = [sub |-> s, name |-> 1, style |-> Plain]]
      /\ UNCHANGED <<group, sub, index, drawn, missed, overlapped, torn>>
  BY <1>1 DEF Cat!Create, Cat!Insert, Cat!tree
<1>5. [sub |-> s, name |-> 1, style |-> Plain] \in Cat!Row
  BY <1>2, Unlisted DEF Cat!Row
<1>6. Cat!TypeOK'
  <2>1. Arrays'
    BY <1>4, <1>5, TypedBy DEF Arrays
  <2>2. Trees'
    BY <1>4, TypedBy DEF Trees, Arrays
  <2> QED
    BY <1>3, <1>4, <2>1, <2>2, TypedBy, Held
<1>7. Named' /\ OneScript'
  BY <1>2, <1>3, <1>4, Rest
<1>8. rows'[l] # None /\ rows'[l].name = 1 /\ rows'[l].style = Plain
  BY <1>4, <1>5, Unlisted DEF Cat!TypeOK
<1>9. LayerInv(l)'
  <2>1. /\ \A g \in Request : l \notin Targets(editing[g])
        /\ (l \notin overlapped => drawn[l] = Plain)
    BY <1>4 DEF LayerInv
  <2>2. Promise(x, l)'
    BY <1>2, <1>8 DEF Promise
  <2> QED
    BY <1>2, <1>3, <1>4, <1>8, <2>1, <2>2, ThatLayer
<1>10. \A m \in Layer \ {l} : rows'[m] = rows[m] /\ (m \in layers' <=> m \in layers)
  BY <1>4 DEF Cat!TypeOK
<1>11. Targets(editing[h]) \subseteq {l}
  BY <1>4 DEF Targets
<1>12. \A m \in Layer : LayerInv(m)'
  BY <1>3, <1>4, <1>9, <1>10, <1>11, OneLayer
<1> QED
  BY <1>6, <1>7, <1>12

\* A row that is there is not None: what a step puts in its place is typed.
LEMMA RowTyped ==
  ASSUME Cat!TypeOK, NEW l \in Layer, rows[l] # None
  PROVE  rows[l] \in Cat!Row /\ rows[l].sub \in SubGroup /\ rows[l].name \in 1..MaxName
         /\ rows[l].style \in Style /\ sub[rows[l].sub] # None
<1>1. rows[l] \in Cat!Row
  BY DEF Cat!TypeOK
<1> QED
  BY <1>1 DEF Cat!TypeOK, Cat!Row

\* UpdateLayerUseCase writes the row, then the index or the style.
LEMMA UpdateStep ==
  ASSUME CatalogInv, NEW h \in Request, NEW l \in Layer, NEW st \in Style, Cat!Update(h, l, st)
  PROVE  CatalogInv'
<1> USE DEF CatalogInv
<1>1. PICK x, r : /\ x = [at |-> "index", layer |-> l, name |-> rows[l].name + 1]
                  /\ r = [rows[l] EXCEPT !.name = @ + 1, !.style = st]
  OBVIOUS
<1>2. rows[l] # None /\ rows[l].name < MaxName /\ editing[h] = None /\ Cat!Overlap({l})
  BY DEF Cat!Update, Cat!Layers
<1>3. /\ r \in Cat!Row /\ r # None /\ r.sub = rows[l].sub /\ r.name = rows[l].name + 1
      /\ r.style = st /\ r.name \in 1..MaxName
  <2>1. rows[l].name + 1 \in 1..MaxName /\ rows[l] \in Cat!Row
    BY <1>2, RowTyped, Unlisted
  <2> QED
    BY <1>1, <2>1, Unlisted DEF Cat!Row
<1>4. x \in IndexStep /\ x.at = "index" /\ x.name = r.name /\ x.layer = l
  BY <1>1, <1>3 DEF IndexStep
<1>5. x \in Cat!Doing /\ x # None /\ Targets(x) = {l}
  BY <1>4, IndexTyped
<1>6. /\ Cat!Put(h, x) /\ rows' = [rows EXCEPT ![l] = r]
      /\ UNCHANGED <<group, sub, index, drawn, layers, missed>>
      /\ torn' = IF st = rows[l].style THEN torn ELSE torn \cup {l}
  <2>1. rows' = [rows EXCEPT ![l] = r]
    BY <1>1 DEF Cat!Update
  <2>2. Cat!Put(h, x)
    BY <1>1 DEF Cat!Update, Cat!Indexed
  <2> QED
    BY <2>1, <2>2 DEF Cat!Update, Cat!tree
<1>7. rows'[l] = r /\ \A m \in Layer \ {l} : rows'[m] = rows[m]
  BY <1>6 DEF Cat!TypeOK
<1>8. Cat!TypeOK'
  <2>1. Arrays'
    BY <1>3, <1>6, TypedBy DEF Arrays
  <2>2. Trees'
    BY <1>2, <1>3, <1>6, <1>7, TypedBy DEF Trees
  <2> QED
    BY <1>5, <1>6, <2>1, <2>2, TypedBy, Held
<1>9. /\ l \in layers /\ overlapped \subseteq overlapped'
      /\ \A m \in Layer \ {l} : m \in overlapped' <=> m \in overlapped
      /\ l \notin overlapped' => /\ \A g \in Request : l \notin Targets(editing[g])
                                 /\ l \notin torn => rows[l].style = drawn[l]
  BY <1>2, Freed
<1>10. Named' /\ OneScript'
  BY <1>3, <1>4, <1>5, <1>6, <1>9, Rest
<1>11. LayerInv(l)'
  <2>1. Promise(x, l)'
    BY <1>3, <1>4, <1>7 DEF Promise
  <2>2. l \notin torn' => st = rows[l].style /\ l \notin torn
    BY <1>6
  <2> QED
    BY <1>3, <1>4, <1>5, <1>6, <1>7, <1>9, <2>1, <2>2, ThatLayer
<1>12. Targets(editing[h]) \subseteq {l}
  BY <1>2 DEF Targets
<1>13. \A m \in Layer : LayerInv(m)'
  BY <1>5, <1>6, <1>7, <1>9, <1>11, <1>12, OneLayer
<1> QED
  BY <1>8, <1>10, <1>13

\* DeleteLayerUseCase deletes the row, then the document.
LEMMA DeleteStep ==
  ASSUME CatalogInv, NEW h \in Request, NEW l \in Layer, Cat!Delete(h, l)
  PROVE  CatalogInv'
<1> USE DEF CatalogInv
<1>1. PICK x : x = [at |-> "unindex", layer |-> l, name |-> 0]
  OBVIOUS
<1>2. x \in IndexStep /\ x.at = "unindex" /\ x.layer = l
  BY <1>1, Unlisted DEF IndexStep
<1>3. x \in Cat!Doing /\ x # None /\ Targets(x) = {l}
  BY <1>2, IndexTyped
<1>4. /\ rows[l] # None /\ editing[h] = None /\ Cat!Overlap({l}) /\ Cat!Put(h, x)
      /\ rows' = [rows EXCEPT ![l] = None]
      /\ UNCHANGED <<group, sub, index, drawn, layers, missed, torn>>
  BY <1>1 DEF Cat!Delete, Cat!Layers, Cat!tree
<1>5. rows'[l] = None /\ \A m \in Layer \ {l} : rows'[m] = rows[m]
  BY <1>4 DEF Cat!TypeOK
<1>6. Cat!TypeOK'
  <2>1. Arrays' /\ Trees'
    BY <1>4, <1>5, TypedBy DEF Arrays, Trees
  <2> QED
    BY <1>3, <1>4, <2>1, TypedBy, Held
<1>7. /\ l \in layers /\ overlapped \subseteq overlapped'
      /\ \A m \in Layer \ {l} : m \in overlapped' <=> m \in overlapped
      /\ l \notin overlapped' => \A g \in Request : l \notin Targets(editing[g])
  BY <1>4, Freed
<1>8. Named' /\ OneScript'
  BY <1>2, <1>3, <1>4, <1>7, Rest
<1>9. LayerInv(l)'
  <2>1. Promise(x, l)'
    BY <1>2, <1>5 DEF Promise
  <2> QED
    BY <1>2, <1>3, <1>4, <1>5, <1>7, <2>1, ThatLayer
<1>10. Targets(editing[h]) \subseteq {l}
  BY <1>4 DEF Targets
<1>11. \A m \in Layer : LayerInv(m)'
  BY <1>3, <1>4, <1>5, <1>7, <1>9, <1>10, OneLayer
<1> QED
  BY <1>6, <1>8, <1>11

\* StyleRead and ResyncRead change what the request holds alone.
LEMMA ReadStep ==
  ASSUME CatalogInv, NEW h \in Request, NEW l \in Layer, NEW x \in StyleStep,
         x.layer = l, x.at \in {"style", "resync"}, x.at = "resync" => x.style = rows[l].style,
         editing[h] = None, rows[l] # None, Cat!Overlap({l}), Cat!Put(h, x),
         UNCHANGED <<group, sub, rows, index, drawn, layers, missed, torn>>
  PROVE  CatalogInv'
<1> USE DEF CatalogInv
<1>1. x \in Cat!Doing /\ x # None /\ Targets(x) = {l}
  BY StyleTyped
<1>2. Cat!TypeOK'
  BY <1>1, TypedBy, Held DEF Arrays, Trees
<1>3. /\ l \in layers /\ overlapped \subseteq overlapped'
      /\ \A m \in Layer \ {l} : m \in overlapped' <=> m \in overlapped
      /\ l \notin overlapped' => /\ \A g \in Request : l \notin Targets(editing[g])
                                 /\ l \notin missed => index[l] = rows[l].name
                                 /\ l \notin torn => rows[l].style = drawn[l]
  BY Freed
<1>4. Named' /\ OneScript'
  BY <1>1, <1>3, Rest
<1>5. Promise(x, l)'
  BY DEF Promise
<1>6. LayerInv(l)'
  BY <1>1, <1>3, <1>5, ThatLayer
<1>7. Targets(editing[h]) \subseteq {l}
  BY DEF Targets
<1>8. \A m \in Layer : LayerInv(m)'
  BY <1>1, <1>3, <1>6, <1>7, OneLayer
<1> QED
  BY <1>2, <1>4, <1>8

\* Index and Unindex: what was promised of the layer is done.
LEMMA IndexedStep ==
  ASSUME CatalogInv, NEW h \in Request, Cat!Index(h) \/ Cat!Unindex(h)
  PROVE  CatalogInv'
<1> USE DEF CatalogInv
<1>1. PICK d, l, v : /\ d = editing[h] /\ l = d.layer
                     /\ v = IF d.at = "index" THEN d.name ELSE None
  OBVIOUS
<1>2. /\ d # None /\ d.at \in {"index", "unindex"} /\ Cat!Put(h, None)
      /\ index' = [index EXCEPT ![l] = v]
      /\ UNCHANGED <<group, sub, rows, drawn, layers, missed, overlapped, torn>>
  BY <1>1 DEF Cat!Index, Cat!Unindex, Cat!At, Cat!tree, Cat!history
<1>3. d \in IndexStep /\ l \in Layer /\ Targets(d) = {l}
  BY <1>1, <1>2, Steps, IndexTyped
<1>4. v \in 1..MaxName \cup {None}
  BY <1>1, <1>2 DEF Named, Cat!At
<1>5. Cat!TypeOK'
  BY <1>2, <1>4, TypedBy, Held DEF Arrays, Trees
<1>6. Named' /\ OneScript'
  BY <1>2, Rest
<1>7. index'[l] = v /\ \A m \in Layer \ {l} : index'[m] = index[m]
  BY <1>2, <1>3 DEF Cat!TypeOK
<1>8. LayerInv(l)'
  <2>1. /\ l \in layers
        /\ l \notin overlapped => /\ \A g \in Request \ {h} : l \notin Targets(editing[g])
                                  /\ Promise(d, l)
                                  /\ l \notin torn => (rows[l] # None => rows[l].style = drawn[l])
    BY <1>1, <1>2, <1>3, InHand
  <2>2. l \notin missed /\ l \notin overlapped => v = IF rows[l] # None THEN rows[l].name ELSE None
    BY <1>1, <1>2, <2>1 DEF Promise
  <2> QED
    BY <1>2, <1>7, <2>1, <2>2, ThatLayer DEF Targets
<1>9. \A m \in Layer : LayerInv(m)'
  BY <1>1, <1>2, <1>3, <1>7, <1>8, OneLayer DEF Targets
<1> QED
  BY <1>5, <1>6, <1>9

\* The script loads the project as it is; if another has it open, nothing is promised.
LEMMA LoadStep ==
  ASSUME CatalogInv, NEW h \in Request, Cat!ScriptLoad(h)
  PROVE  CatalogInv'
<1> USE DEF CatalogInv
<1>1. PICK d, l, x : d = editing[h] /\ l = d.layer /\ x = [d EXCEPT !.at = "script", !.file = drawn]
  OBVIOUS
<1>2. /\ d # None /\ d.at = "style" /\ Cat!Put(h, x)
      /\ overlapped' = IF Cat!Scripts = {} THEN overlapped ELSE Layer
      /\ UNCHANGED <<group, sub, rows, index, drawn, layers, missed, torn>>
  BY <1>1 DEF Cat!ScriptLoad, Cat!At, Cat!tree
<1>3. d \in StyleStep /\ l \in Layer /\ Targets(d) = {l}
  BY <1>1, <1>2, Steps, StyleTyped
<1>4. x \in StyleStep /\ x.at = "script" /\ x.layer = l /\ x.file = drawn
  BY <1>1, <1>3 DEF StyleStep, Cat!TypeOK
<1>5. x \in Cat!Doing /\ x # None /\ Targets(x) = {l}
  BY <1>4, StyleTyped
<1>6. editing'[h] = x /\ \A g \in Request \ {h} : editing'[g] = editing[g]
  BY <1>2, <1>5, Held
<1>7. Cat!TypeOK'
  BY <1>2, <1>5, TypedBy, Held DEF Arrays, Trees
<1>8. Named'
  BY <1>4, <1>6 DEF Named, Cat!At
<1>9. OneScript'
  BY <1>2, <1>4, <1>6 DEF OneScript, Cat!At, Cat!Scripts
<1>10. LayerInv(l)'
  <2>1. /\ l \in layers
        /\ l \notin overlapped =>
             /\ \A g \in Request \ {h} : l \notin Targets(editing[g])
             /\ l \notin missed => index[l] = IF rows[l] # None THEN rows[l].name ELSE None
             /\ l \notin torn => (rows[l] # None => rows[l].style = drawn[l])
    BY <1>1, <1>2, <1>3, InHand
  <2>2. Promise(x, l)'
    BY <1>4 DEF Promise
  <2> QED
    BY <1>2, <1>3, <1>5, <2>1, <2>2, ThatLayer
<1>11. \A m \in Layer : LayerInv(m)'
  BY <1>1, <1>2, <1>3, <1>5, <1>10, OneLayer
<1> QED
  BY <1>7, <1>8, <1>9, <1>11

\* The script saves the project whole, with the style of its layer.
LEMMA SaveStep ==
  ASSUME CatalogInv, NEW h \in Request, Cat!ScriptSave(h)
  PROVE  CatalogInv'
<1> USE DEF CatalogInv
<1>1. PICK d, l, x : d = editing[h] /\ l = d.layer /\ x = [d EXCEPT !.at = "write"]
  OBVIOUS
<1>2. /\ d # None /\ d.at = "script" /\ Cat!Put(h, x) /\ drawn' = [d.file EXCEPT ![l] = d.style]
      /\ UNCHANGED <<group, sub, rows, index, layers, missed, torn, overlapped>>
  BY <1>1 DEF Cat!ScriptSave, Cat!At, Cat!tree, Cat!history
<1>3. d \in StyleStep /\ l \in Layer /\ Targets(d) = {l}
  BY <1>1, <1>2, Steps, StyleTyped
<1>4. x \in StyleStep /\ x.at = "write" /\ x.layer = l /\ x.style = d.style
  BY <1>1, <1>3 DEF StyleStep
<1>5. x \in Cat!Doing /\ x # None /\ Targets(x) = {l}
  BY <1>4, StyleTyped
<1>6. editing'[h] = x /\ \A g \in Request \ {h} : editing'[g] = editing[g]
  BY <1>2, <1>5, Held
<1>7. d.file \in [Layer -> Style] /\ d.style \in Style
  BY <1>3 DEF StyleStep
<1>8. /\ drawn' \in [Layer -> Style] /\ drawn'[l] = d.style
      /\ \A m \in Layer \ {l} : m \notin overlapped => drawn'[m] = drawn[m]
  BY <1>1, <1>2, <1>3, <1>7 DEF OneScript, Cat!At
<1>9. Cat!TypeOK'
  BY <1>2, <1>5, <1>8, TypedBy, Held DEF Arrays, Trees
<1>10. Named'
  BY <1>4, <1>6 DEF Named, Cat!At
<1>11. OneScript'
  <2> SUFFICES ASSUME NEW g \in Request, Cat!At(g, "script")', NEW m \in Layer \ overlapped
               PROVE FALSE
    BY <1>2 DEF OneScript
  <2>1. g # h /\ Cat!At(g, "script")
    BY <1>4, <1>6 DEF Cat!At
  <2> QED
    BY <1>1, <1>2, <2>1 DEF OneScript, Cat!At
<1>12. LayerInv(l)'
  <2>1. /\ l \in layers
        /\ l \notin overlapped =>
             /\ \A g \in Request \ {h} : l \notin Targets(editing[g])
             /\ l \notin missed => index[l] = IF rows[l] # None THEN rows[l].name ELSE None
    BY <1>1, <1>2, <1>3, InHand
  <2>2. Promise(x, l)'
    BY <1>4, <1>8 DEF Promise
  <2> QED
    BY <1>2, <1>4, <1>5, <2>1, <2>2, ThatLayer
<1>13. \A m \in Layer : LayerInv(m)'
  BY <1>1, <1>2, <1>3, <1>5, <1>8, <1>12, OneLayer
<1> QED
  BY <1>9, <1>10, <1>11, <1>13

\* The script failed: its request goes on to the row, or ends.
LEMMA FailsStep ==
  ASSUME CatalogInv, NEW h \in Request, Cat!ScriptFails(h)
  PROVE  CatalogInv'
<1> USE DEF CatalogInv
<1>1. PICK d, l, w : d = editing[h] /\ l = d.layer /\ w = [d EXCEPT !.at = "write"]
  OBVIOUS
<1>2. /\ d # None /\ d.at = "script"
      /\ \/ Cat!Put(h, w) /\ torn' = torn \cup {l}
         \/ Cat!Put(h, None) /\ UNCHANGED torn
      /\ UNCHANGED <<group, sub, rows, index, drawn, layers, missed, overlapped>>
  BY <1>1 DEF Cat!ScriptFails, Cat!At, Cat!tree
<1>3. d \in StyleStep /\ l \in Layer /\ Targets(d) = {l}
  BY <1>1, <1>2, Steps, StyleTyped
<1>4. w \in StyleStep /\ w.at = "write" /\ w.layer = l
  BY <1>1, <1>3 DEF StyleStep
<1>5. w \in Cat!Doing /\ w # None /\ Targets(w) = {l}
  BY <1>4, StyleTyped
<1>6. PICK x \in {w, None} : Cat!Put(h, x) /\ torn' = IF x = None THEN torn ELSE torn \cup {l}
  BY <1>2, <1>5
<1>7. Cat!TypeOK'
  BY <1>2, <1>5, <1>6, TypedBy, Held DEF Arrays, Trees
<1>8. Named' /\ OneScript'
  BY <1>2, <1>4, <1>5, <1>6, Rest
<1>9. LayerInv(l)'
  <2>1. /\ l \in layers
        /\ l \notin overlapped =>
             /\ \A g \in Request \ {h} : l \notin Targets(editing[g])
             /\ l \notin missed => index[l] = IF rows[l] # None THEN rows[l].name ELSE None
             /\ l \notin torn => (rows[l] # None => rows[l].style = drawn[l])
    BY <1>1, <1>2, <1>3, InHand
  <2>2. l \in Targets(x) => Promise(x, l)'
    BY <1>4, <1>6 DEF Promise, Targets
  <2> QED
    BY <1>2, <1>5, <1>6, <2>1, <2>2, ThatLayer
<1>10. \A m \in Layer : LayerInv(m)'
  BY <1>1, <1>2, <1>3, <1>5, <1>6, <1>9, OneLayer DEF Targets
<1> QED
  BY <1>7, <1>8, <1>10

\* The metadata name the style the request knows of.
LEMMA WriteStep ==
  ASSUME CatalogInv, NEW h \in Request, Cat!WriteMetadata(h)
  PROVE  CatalogInv'
<1> USE DEF CatalogInv
<1>1. PICK d, l, r : d = editing[h] /\ l = d.layer /\ r = [rows[l] EXCEPT !.style = d.style]
  OBVIOUS
<1>2. /\ d # None /\ d.at \in {"write", "resync"} /\ Cat!Put(h, None)
      /\ rows' = IF l \in Layer /\ rows[l] # None THEN [rows EXCEPT ![l].style = d.style] ELSE rows
      /\ UNCHANGED <<group, sub, index, drawn, layers, missed, torn, overlapped>>
  BY <1>1 DEF Cat!WriteMetadata, Cat!Written, Cat!Layers, Cat!At, Cat!tree, Cat!history
<1>3. d \in StyleStep /\ l \in Layer /\ Targets(d) = {l} /\ d.style \in Style
  BY <1>1, <1>2, Steps, StyleTyped
<1>4. rows[l] # None => /\ r \in Cat!Row /\ r # None /\ r.sub = rows[l].sub
                        /\ r.name = rows[l].name /\ r.style = d.style
  BY <1>1, <1>3, RowTyped, Unlisted DEF Cat!Row
<1>5. rows' = IF rows[l] # None THEN [rows EXCEPT ![l] = r] ELSE rows
  BY <1>1, <1>2, <1>3
<1>6. /\ rows'[l] = IF rows[l] # None THEN r ELSE None
      /\ \A m \in Layer \ {l} : rows'[m] = rows[m]
  BY <1>3, <1>5 DEF Cat!TypeOK
<1>7. Cat!TypeOK'
  <2>1. Arrays'
    BY <1>2, <1>4, <1>5, TypedBy DEF Arrays
  <2>2. Trees'
    BY <1>2, <1>4, <1>6, TypedBy DEF Trees
  <2> QED
    BY <1>2, <2>1, <2>2, TypedBy, Held
<1>8. Named' /\ OneScript'
  BY <1>2, Rest
<1>9. LayerInv(l)'
  <2>1. /\ l \in layers
        /\ l \notin overlapped =>
             /\ \A g \in Request \ {h} : l \notin Targets(editing[g])
             /\ Promise(d, l)
             /\ l \notin missed => index[l] = IF rows[l] # None THEN rows[l].name ELSE None
             /\ l \notin torn /\ d.at # "write" => (rows[l] # None => rows[l].style = drawn[l])
    BY <1>1, <1>2, <1>3, InHand
  <2>2. l \notin overlapped /\ l \notin torn /\ rows[l] # None => d.style = drawn[l]
    BY <1>2, <2>1 DEF Promise
  <2> QED
    BY <1>2, <1>4, <1>6, <2>1, <2>2, ThatLayer DEF Targets
<1>10. \A m \in Layer : LayerInv(m)'
  BY <1>1, <1>2, <1>3, <1>6, <1>9, OneLayer DEF Targets
<1> QED
  BY <1>7, <1>8, <1>10

\* A request breaks off: what it had yet to do stays undone, and that is remembered.
LEMMA AbortStep ==
  ASSUME CatalogInv, NEW h \in Request, Cat!Abort(h)
  PROVE  CatalogInv'
<1> USE DEF CatalogInv
<1>1. /\ editing[h] # None /\ Cat!Put(h, None)
      /\ UNCHANGED <<group, sub, rows, index, drawn, layers, overlapped>>
  BY DEF Cat!Abort, Cat!tree
<1>2. missed \subseteq missed' /\ torn \subseteq torn'
  BY DEF Cat!Abort
<1>3. ASSUME NEW l \in Targets(editing[h])
      PROVE  /\ editing[h].at \in {"index", "unindex"} => l \in missed'
             /\ editing[h].at = "write" => l \in torn'
  BY <1>1, <1>3 DEF Cat!Abort, Cat!At, Targets
<1>4. editing'[h] = None /\ \A g \in Request \ {h} : editing'[g] = editing[g]
  BY <1>1, Held
<1>5. Cat!TypeOK'
  BY <1>1, TypedBy, Held DEF Arrays, Trees
<1>6. Named' /\ OneScript'
  BY <1>1, Rest
<1>7. ASSUME NEW m \in Layer PROVE LayerInv(m)'
  <2>1. \A g \in Request : m \in Targets(editing'[g]) => m \in Targets(editing[g]) /\ SameView(g)
    BY <1>4 DEF SameView, Targets
  <2>2. \A g \in Request :
          m \in Targets(editing[g]) =>
            \/ m \in Targets(editing'[g])
            \/ editing[g].at \in {"index", "unindex"} /\ m \in missed'
            \/ editing[g].at = "write" /\ m \in torn'
            \/ editing[g].at \notin {"index", "unindex", "write"}
    BY <1>3, <1>4
  <2> QED
    BY <1>1, <1>2, <2>1, <2>2, Apart
<1> QED
  BY <1>5, <1>6, <1>7

\* A reindex begins with layers nobody is at work on, or disputes them.
LEMMA ReindexBegins ==
  ASSUME CatalogInv, NEW h \in Request, Cat!Reindex(h)
  PROVE  CatalogInv'
<1> USE DEF CatalogInv
<1>1. PICK x : x = [at |-> "reindex", todo |-> Cat!Layers,
                    read |-> [l \in Layer |-> IF l \in Cat!Layers THEN rows[l].name ELSE 0]]
  OBVIOUS
<1>2. /\ editing[h] = None /\ Cat!Put(h, x) /\ Cat!Overlap(Cat!Layers)
      /\ UNCHANGED <<group, sub, rows, index, drawn, layers, missed, torn>>
  BY <1>1 DEF Cat!Reindex, Cat!tree
<1>3. /\ x.at = "reindex" /\ x.todo = Cat!Layers
      /\ \A l \in Cat!Layers : x.read[l] = rows[l].name /\ rows[l].name \in 1..MaxName
  BY <1>1, RowTyped DEF Cat!Layers
<1>4. x \in Cat!Doing
  <2>1. [l \in Layer |-> IF l \in Cat!Layers THEN rows[l].name ELSE 0] \in [Layer -> 0..MaxName]
    BY RowTyped, Unlisted DEF Cat!Layers
  <2> QED
    BY <1>1, <2>1 DEF Cat!Doing, Cat!Layers
<1>5. x # None /\ Targets(x) = Cat!Layers
  BY <1>3, <1>4, Unlisted DEF Targets
<1>6. editing'[h] = x /\ \A g \in Request \ {h} : editing'[g] = editing[g]
  BY <1>2, <1>4, Held
<1>7. overlapped' = overlapped \cup (Cat!Layers \cap UNION {Targets(editing[g]) : g \in Request})
  BY <1>2, TouchesAre DEF Cat!Overlap
<1>8. Cat!TypeOK'
  BY <1>2, <1>4, TypedBy, Held DEF Arrays, Trees
<1>9. Named' /\ OneScript'
  BY <1>2, <1>3, <1>4, <1>7, Rest
<1>10. ASSUME NEW m \in Cat!Layers PROVE LayerInv(m)'
  <2>1. m \in Layer /\ rows[m] # None /\ m \in layers
    BY <1>10 DEF Cat!Layers, LayerInv
  <2>2. ASSUME m \notin overlapped'
        PROVE  /\ m \notin overlapped /\ \A g \in Request : m \notin Targets(editing[g])
               /\ Promise(x, m)'
               /\ m \notin missed => index[m] = rows[m].name
               /\ m \notin torn => rows[m].style = drawn[m]
    <3>1. m \notin overlapped /\ \A g \in Request : m \notin Targets(editing[g])
      BY <1>7, <1>10, <2>2
    <3>2. Promise(x, m)'
      BY <1>2, <1>3, <1>10, <2>1 DEF Promise
    <3>3. (m \notin missed => Searched(m)) /\ (m \notin torn => Agreed(m))
      BY <2>1, <3>1 DEF LayerInv
    <3> QED
      BY <2>1, <3>1, <3>2, <3>3 DEF Searched, Agreed
  <2> QED
    BY <1>2, <1>4, <1>5, <2>1, <2>2, ThatLayer
<1>11. ASSUME NEW m \in Layer \ Cat!Layers PROVE LayerInv(m)'
  <2>1. \A g \in Request : m \in Targets(editing'[g]) <=> m \in Targets(editing[g])
    BY <1>2, <1>5, <1>6 DEF Targets
  <2>2. \A g \in Request : m \in Targets(editing'[g]) => SameView(g)
    BY <1>5, <1>6 DEF SameView
  <2>3. m \notin overlapped' => m \notin overlapped
    BY <1>7
  <2> QED
    BY <1>2, <2>1, <2>2, <2>3, Apart
<1> QED
  BY <1>8, <1>9, <1>10, <1>11

\* A reindex tells the search of one layer more.
LEMMA ReindexGoesOn ==
  ASSUME CatalogInv, NEW h \in Request, NEW l \in Layer, Cat!ReindexOne(h, l)
  PROVE  CatalogInv'
<1> USE DEF CatalogInv
<1>1. PICK d, x : /\ d = editing[h]
                  /\ x = IF d.todo = {l} THEN None ELSE [d EXCEPT !.todo = d.todo \ {l}]
  OBVIOUS
<1>2. /\ d # None /\ d.at = "reindex" /\ l \in d.todo /\ Cat!Put(h, x)
      /\ index' = [index EXCEPT ![l] = d.read[l]]
      /\ UNCHANGED <<group, sub, rows, drawn, layers, missed, torn, overlapped>>
  BY <1>1 DEF Cat!ReindexOne, Cat!At, Cat!tree, Cat!history
<1>3. d \in ReindexStep /\ Targets(d) = d.todo
  BY <1>1, <1>2, Steps DEF Targets
<1>4. x = None \/ (x \in ReindexStep /\ x.at = "reindex" /\ x.read = d.read
        /\ x.todo = d.todo \ {l})
  BY <1>1, <1>3 DEF ReindexStep
<1>5. x \in Cat!Doing \cup {None} /\ Targets(x) = d.todo \ {l}
  <2>1. CASE x = None
    BY <1>1, <1>3, <2>1, Unlisted DEF Targets, Cat!Doing, ReindexStep
  <2>2. CASE x # None
    BY <1>4, <2>2 DEF Targets, Cat!Doing, ReindexStep
  <2> QED
    BY <2>1, <2>2
<1>6. editing'[h] = x /\ \A g \in Request \ {h} : editing'[g] = editing[g]
  BY <1>2, <1>5, Held
<1>7. d.read[l] \in 1..MaxName /\ \A m \in d.todo : d.read[m] \in 1..MaxName
  BY <1>1, <1>2 DEF Named, Cat!At
<1>8. Cat!TypeOK'
  BY <1>2, <1>5, <1>7, TypedBy, Held DEF Arrays, Trees
<1>9. Named' /\ OneScript'
  BY <1>2, <1>4, <1>5, <1>7, Rest
<1>10. LayerInv(l)'
  <2>1. /\ l \in layers
        /\ l \notin overlapped => /\ \A g \in Request \ {h} : l \notin Targets(editing[g])
                                  /\ Promise(d, l)
                                  /\ l \notin torn => (rows[l] # None => rows[l].style = drawn[l])
    BY <1>1, <1>2, <1>3, InHand
  <2>2. index'[l] = d.read[l]
    BY <1>2 DEF Cat!TypeOK
  <2>3. l \notin missed /\ l \notin overlapped => rows[l] # None /\ d.read[l] = rows[l].name
    BY <1>2, <2>1 DEF Promise
  <2> QED
    BY <1>2, <1>5, <2>1, <2>2, <2>3, ThatLayer
<1>11. ASSUME NEW m \in Layer \ {l} PROVE LayerInv(m)'
  <2>1. index'[m] = index[m]
    BY <1>2 DEF Cat!TypeOK
  <2>2. \A g \in Request : m \in Targets(editing'[g]) <=> m \in Targets(editing[g])
    BY <1>1, <1>3, <1>5, <1>6
  <2>3. \A g \in Request : m \in Targets(editing'[g]) => SameView(g)
    BY <1>1, <1>2, <1>4, <1>6 DEF SameView, Targets
  <2> QED
    BY <1>2, <2>1, <2>2, <2>3, Apart
<1> QED
  BY <1>8, <1>9, <1>10, <1>11

\* The steps that no request takes
LEMMA Quiet ==
  ASSUME CatalogInv, NEW m \in Layer, UNCHANGED <<editing, index, drawn, overlapped, torn>>,
         m \in layers' <=> m \in layers, m \in missed => m \in missed',
         rows'[m] = rows[m] \/ (rows'[m] = None /\ m \in missed' /\ m \in layers)
  PROVE  LayerInv(m)'
<1> USE DEF CatalogInv
<1>1. CASE rows'[m] = rows[m]
  BY <1>1, Apart DEF SameView
<1>2. CASE rows'[m] = None /\ m \in missed' /\ m \in layers
  <2>1. \A h \in Request : Promise(editing[h], m) => Promise(editing[h], m)'
    BY <1>2 DEF Promise
  <2>2. Agreed(m)'
    BY <1>2 DEF Agreed
  <2> QED
    BY <1>2, <2>1, <2>2 DEF LayerInv
<1> QED
  BY <1>1, <1>2

\* Sub-groups go with their layers, whose documents stay in the index.
LEMMA CascadeStep ==
  ASSUME CatalogInv, NEW subs, Cat!Cascade(subs), group' \subseteq group,
         \A s \in SubGroup : sub[s] \in group \ group' => s \in subs
  PROVE  CatalogInv'
<1> USE DEF CatalogInv
<1>1. /\ sub' = [s \in SubGroup |-> IF s \in subs THEN None ELSE sub[s]]
      /\ rows' = [l \in Layer |-> IF rows[l] # None /\ rows[l].sub \in subs THEN None ELSE rows[l]]
      /\ missed' = missed \cup {l \in Layer : rows[l] # None /\ rows[l].sub \in subs}
      /\ UNCHANGED <<index, drawn, editing, layers, overlapped, torn>>
  BY DEF Cat!Cascade, Cat!Layers
<1>2. Cat!TypeOK'
  <2>1. Arrays'
    BY <1>1, TypedBy DEF Arrays
  <2>2. Trees'
    BY <1>1, RowTyped, TypedBy DEF Trees
  <2> QED
    BY <1>1, <2>1, <2>2, TypedBy
<1>3. Named' /\ OneScript'
  BY <1>1 DEF Named, OneScript, Cat!At
<1>4. ASSUME NEW m \in Layer PROVE LayerInv(m)'
  <2>1. rows[m] # None => m \in layers
    BY DEF LayerInv
  <2> QED
    BY <1>1, <2>1, Quiet
<1> QED
  BY <1>2, <1>3, <1>4

\* Groups and sub-groups come, and go when they hold no layer.
LEMMA TreeStep ==
  ASSUME CatalogInv, NEW g \in Group,
         Cat!CreateGroup(g) \/ Cat!DeleteGroup(g) \/ \E s \in SubGroup : Cat!CreateSubGroup(s, g)
  PROVE  CatalogInv'
<1>1. CASE Cat!CreateGroup(g)
  <2>1. UNCHANGED <<sub, rows, index, drawn, editing, layers, missed, overlapped, torn>>
        /\ group' = group \cup {g}
    BY <1>1 DEF Cat!CreateGroup, Cat!history
  <2>2. Cat!TypeOK' /\ Named' /\ OneScript'
    BY <2>1, TypedBy DEF CatalogInv, Trees, Arrays, Named, OneScript, Cat!At
  <2> QED
    BY <2>1, <2>2, Quiet DEF CatalogInv
<1>2. ASSUME NEW s \in SubGroup, Cat!CreateSubGroup(s, g) PROVE CatalogInv'
  <2>1. /\ UNCHANGED <<group, rows, index, drawn, editing, layers, missed, overlapped, torn>>
        /\ g \in group /\ sub[s] = None /\ sub' = [sub EXCEPT ![s] = g]
    BY <1>2 DEF Cat!CreateSubGroup, Cat!history
  <2>2. Cat!TypeOK' /\ Named' /\ OneScript'
    BY <2>1, RowTyped, TypedBy DEF CatalogInv, Trees, Arrays, Named, OneScript, Cat!At
  <2> QED
    BY <2>1, <2>2, Quiet DEF CatalogInv
<1>3. CASE Cat!DeleteGroup(g)
  <2>1. Cat!Cascade({s \in SubGroup : sub[s] = g}) /\ group' = group \ {g}
    BY <1>3 DEF Cat!DeleteGroup
  <2> QED
    BY <2>1, CascadeStep
<1> QED
  BY <1>1, <1>2, <1>3

\* The document of a deleted layer goes.
LEMMA UnindexedStep ==
  ASSUME CatalogInv, NEW l \in Layer, NEW s \in SubGroup, Cat!CreateUnindexed(l, s)
  PROVE  CatalogInv'
<1> USE DEF CatalogInv
<1>1. /\ l \notin layers /\ layers' = layers \cup {l} /\ missed' = missed \cup {l}
      /\ sub[s] # None /\ rows' = [rows EXCEPT ![l] = [sub |-> s, name |-> 1, style |-> Plain]]
      /\ UNCHANGED <<group, sub, index, drawn, editing, overlapped, torn>>
  BY DEF Cat!CreateUnindexed, Cat!Insert, Cat!tree
<1>2. [sub |-> s, name |-> 1, style |-> Plain] \in Cat!Row
  BY Unlisted DEF Cat!Row
<1>3. Cat!TypeOK'
  <2>1. Arrays'
    BY <1>1, <1>2, TypedBy DEF Arrays
  <2>2. Trees'
    BY <1>1, TypedBy DEF Trees, Arrays
  <2> QED
    BY <1>1, <2>1, <2>2, TypedBy
<1>4. Named' /\ OneScript'
  BY <1>1 DEF Named, OneScript, Cat!At
<1>5. LayerInv(l)'
  <2>1. /\ \A g \in Request : l \notin Targets(editing[g])
        /\ (l \notin overlapped => drawn[l] = Plain)
    BY <1>1 DEF LayerInv
  <2>2. rows'[l] # None /\ rows'[l].style = Plain
    BY <1>1, <1>2, Unlisted DEF Cat!TypeOK
  <2>3. l \notin overlapped => Agreed(l)'
    BY <1>1, <2>1, <2>2 DEF Agreed
  <2> QED
    BY <1>1, <2>1, <2>3 DEF LayerInv
<1>6. ASSUME NEW m \in Layer \ {l} PROVE LayerInv(m)'
  <2>1. rows'[m] = rows[m] /\ (m \in layers' <=> m \in layers)
    BY <1>1 DEF Cat!TypeOK
  <2> QED
    BY <1>1, <2>1, Quiet
<1> QED
  BY <1>3, <1>4, <1>5, <1>6

\* Every step of the catalogue keeps its invariant.
LEMMA CatalogStep ==
  ASSUME CatalogInv, Cat!Next
  PROVE  CatalogInv'
<1>1. ASSUME NEW h \in Request, NEW l \in Layer, NEW st \in Style, Cat!StyleRead(h, l, st)
      PROVE  CatalogInv'
  <2> DEFINE x == [at |-> "style", layer |-> l, style |-> st, file |-> drawn]
  <2>1. x \in StyleStep /\ x.layer = l /\ x.at = "style"
    BY DEF StyleStep, CatalogInv, Cat!TypeOK
  <2>2. /\ editing[h] = None /\ rows[l] # None /\ Cat!Overlap({l}) /\ Cat!Put(h, x)
        /\ UNCHANGED <<group, sub, rows, index, drawn, layers, missed, torn>>
    BY <1>1 DEF Cat!StyleRead, Cat!Layers, Cat!tree
  <2> HIDE DEF x
  <2> QED
    BY <2>1, <2>2, ReadStep
<1>2. ASSUME NEW h \in Request, NEW l \in Layer, Cat!ResyncRead(h, l) PROVE CatalogInv'
  <2> DEFINE x == [at |-> "resync", layer |-> l, style |-> rows[l].style, file |-> drawn]
  <2>1. /\ editing[h] = None /\ rows[l] # None /\ Cat!Overlap({l}) /\ Cat!Put(h, x)
        /\ UNCHANGED <<group, sub, rows, index, drawn, layers, missed, torn>>
    BY <1>2 DEF Cat!ResyncRead, Cat!Layers, Cat!tree
  <2>2. x \in StyleStep /\ x.layer = l /\ x.at = "resync" /\ x.style = rows[l].style
    BY <2>1, RowTyped DEF StyleStep, CatalogInv, Cat!TypeOK
  <2> HIDE DEF x
  <2> QED
    BY <2>1, <2>2, ReadStep
<1>3. ASSUME NEW s \in SubGroup, Cat!DeleteSubGroup(s) PROVE CatalogInv'
  BY <1>3, CascadeStep DEF Cat!DeleteSubGroup
<1> QED
  BY <1>1, <1>2, <1>3, TreeStep, UnindexedStep, CreateStep, UpdateStep, DeleteStep,
     ReindexGoesOn, IndexedStep, ReindexBegins, LoadStep, SaveStep, FailsStep, WriteStep,
     AbortStep
     DEF Cat!Next

\* While the catalogue moves, its invariant holds.
LEMMA CatalogAlways == Spec => [](part = "catalog" => CatalogInv)
<1> DEFINE I == part = "catalog" => CatalogInv
<1>1. Init => I
  <2> SUFFICES ASSUME Cat!Init PROVE CatalogInv
    BY DEF Init
  <2>1. Cat!TypeOK
    BY Unlisted DEF Cat!Init, Cat!TypeOK
  <2> QED
    BY <2>1 DEF Cat!Init, CatalogInv, LayerInv, Named, OneScript, Cat!At, Targets, Agreed
<1>2. I /\ [Next]_vars => I'
  <2>1. CatalogInv /\ UNCHANGED catalog => CatalogInv'
    <3> SUFFICES ASSUME CatalogInv, UNCHANGED catalog PROVE CatalogInv'
      OBVIOUS
    <3>1. Cat!TypeOK' /\ Named' /\ OneScript'
      BY DEF CatalogInv, catalog, Cat!TypeOK, Named, OneScript, Cat!At
    <3> QED
      BY <3>1, Quiet DEF CatalogInv, catalog
  <2> QED
    BY <2>1, CatalogStep DEF Next, Only, vars
<1> QED
  BY <1>1, <1>2, PTL DEF Spec

\* What the invariant says once nobody is at work on a layer
LEMMA AtRest ==
  ASSUME CatalogInv
  PROVE  Cat!IndexFollowsRow /\ Cat!StyleAgrees
<1>1. Cat!IndexFollowsRow
  <2> SUFFICES ASSUME NEW l \in layers \ (missed \cup overlapped), ~Cat!About(l)
               PROVE  index[l] = IF l \in Cat!Layers THEN rows[l].name ELSE None
    BY DEF Cat!IndexFollowsRow
  <2>1. l \in Layer /\ l \notin overlapped /\ Searched(l)
          /\ \A h \in Request : l \notin Targets(editing[h])
    BY TouchesAre DEF CatalogInv, Cat!TypeOK, LayerInv, Cat!About
  <2> QED
    BY <2>1 DEF Searched, Cat!Layers
<1>2. Cat!StyleAgrees
  <2> SUFFICES ASSUME NEW l \in Cat!Layers \ (overlapped \cup torn), ~Cat!About(l)
               PROVE  rows[l].style = drawn[l]
    BY DEF Cat!StyleAgrees
  <2>1. rows[l] # None /\ Agreed(l) /\ \A h \in Request : l \notin Targets(editing[h])
    BY TouchesAre DEF CatalogInv, LayerInv, Cat!About, Cat!Layers
  <2> QED
    BY <2>1 DEF Agreed
<1> QED
  BY <1>1, <1>2

\* The search has every layer under its name.
THEOREM IndexFollows == Spec => []IndexFollowsRow
<1>1. (part = "catalog" => CatalogInv) => IndexFollowsRow
  BY AtRest DEF IndexFollowsRow
<1> QED
  BY <1>1, CatalogAlways, PTL

\* A row names the style its project draws.
THEOREM StylesAgree == Spec => []StyleAgrees
<1>1. (part = "catalog" => CatalogInv) => StyleAgrees
  BY AtRest DEF StyleAgrees
<1> QED
  BY <1>1, CatalogAlways, PTL

-----------------------------------------------------------------------------
(* Personal styles *)

\* A request is about a layer.
Working(h, l) == styling[h] # None /\ styling[h].layer = l

\* What stands in the column and under the path is what the owner's requests recorded.
Kept(l) ==
  /\ style[l].colour = recorded[l].colour /\ (style[l].qml <=> recorded[l].file # None)
  /\ \/ recorded[l].file \in {None, qml[l]}
     \/ \E h \in Request :
          /\ Working(h, l)
          /\ styling[h].at = "erase" \/ (styling[h].at = "write" /\ styling[h].new.file # None)

\* What is promised of a published layer
DrawnAsStyled(l) ==
  LET w == approved[l] IN
  shown[l] \in {None, IF w.file # None THEN w.file ELSE IF w.colour # None THEN w.colour ELSE Plain}

\* A request alone about its layer read what stands; the file it is about to record is
\* under the path, and the drawing it is about to make is of what was approved.
Current(h, l) ==
  /\ styling[h].read = style[l]
  /\ styling[h].at = "copy" => styling[h].new.file # None
  /\ styling[h].at = "write" /\ styling[h].new.file # None => qml[l] = styling[h].new.file
  /\ styling[h].at = "draw" => approved[l] = recorded[l]

StyleInv(l) ==
  /\ l \notin imported => /\ style[l] = None /\ recorded[l] = Sty!Unstyled
                          /\ \A h \in Request : ~Working(h, l)
  /\ l \notin disputed => /\ \A g \in Request, h \in Request : Working(g, l) /\ Working(h, l)
                             => g = h
                          /\ \A h \in Request : Working(h, l) => Current(h, l)
  /\ l \notin disputed \cup undone => /\ style[l] # None => Kept(l)
                                      /\ DrawnAsStyled(l)

\* None is no styling, no colour and no style file.
LEMMA Unrecorded == None \notin Sty!Column /\ None \notin Sty!Doing /\ None \notin Colour \cup Qml
BY ServicesAssumption, NoneAssumption

\* A step of one request about one layer leaves the requests about the others.
LEMMA Slot ==
  ASSUME Sty!TypeOK, NEW h \in Request, NEW x \in Sty!Doing \cup {None}, Sty!Put(h, x),
         NEW l \in Layer, styling[h] = None \/ styling[h].layer = l, x = None \/ x.layer = l
  PROVE  /\ styling' \in [Request -> Sty!Doing \cup {None}] /\ styling'[h] = x
         /\ \A g \in Request \ {h} : styling'[g] = styling[g]
         /\ \A g \in Request \ {h}, m \in Layer : Working(g, m)' <=> Working(g, m)
         /\ Working(h, l)' <=> x # None
         /\ \A g \in Request, m \in Layer \ {l} :
              (Working(g, m)' <=> Working(g, m)) /\ (Working(g, m) => styling'[g] = styling[g])
<1>1. /\ styling' \in [Request -> Sty!Doing \cup {None}] /\ styling'[h] = x
      /\ \A g \in Request \ {h} : styling'[g] = styling[g]
  BY DEF Sty!TypeOK, Sty!Put
<1> QED
  BY <1>1 DEF Working

\* A layer that a step is not about keeps its invariant.
LEMMA Elsewhere ==
  ASSUME NEW l \in Layer, NEW m \in Layer \ {l}, StyleInv(m),
         style'[m] = style[m], qml'[m] = qml[m], shown'[m] = shown[m],
         recorded'[m] = recorded[m], approved'[m] = approved[m],
         m \in imported' <=> m \in imported, m \in disputed' <=> m \in disputed,
         m \in undone' <=> m \in undone,
         \A g \in Request :
           (Working(g, m)' <=> Working(g, m)) /\ (Working(g, m) => styling'[g] = styling[g])
  PROVE  StyleInv(m)'
<1>1. Kept(m) => Kept(m)'
  BY DEF Kept
<1>2. DrawnAsStyled(m)' <=> DrawnAsStyled(m)
  BY DEF DrawnAsStyled
<1>3. \A h \in Request : Working(h, m) => (Current(h, m)' <=> Current(h, m))
  BY DEF Current
<1> QED
  BY <1>1, <1>2, <1>3 DEF StyleInv

\* Every request begins with what stands, or disputes the layer.
LEMMA BeginStep ==
  ASSUME Sty!TypeOK, \A m \in Layer : StyleInv(m), NEW h \in Request, NEW l \in Layer,
         NEW s \in {"copy", "write", "draw", "unstyle", "erase"}, NEW new \in Sty!Wish,
         Sty!Begin(h, l, s, new), s = "write" => new.file = None, s = "copy" => new.file # None,
         approved' = IF s = "draw" THEN [approved EXCEPT ![l] = recorded[l]] ELSE approved,
         s = "draw" => shown[l] = None, s # "erase"
  PROVE  Sty!TypeOK' /\ \A m \in Layer : StyleInv(m)'
<1> DEFINE x == [at |-> s, layer |-> l, read |-> style[l], new |-> new]
<1>1. style[l] \in Sty!Column /\ style[l] # None /\ styling[h] = None
  BY DEF Sty!Begin, Sty!TypeOK
<1>2. x \in Sty!Doing /\ x.layer = l /\ x.at = s /\ x.read = style[l] /\ x.new = new
  BY <1>1 DEF Sty!Doing
<1>3. Sty!Put(h, x) /\ UNCHANGED <<style, qml, shown, imported, recorded, undone>>
  BY DEF Sty!Begin
<1>4. disputed' = IF Sty!About(l) THEN disputed \cup {l} ELSE disputed
  BY DEF Sty!Begin
<1> HIDE DEF x
<1>5. Sty!TypeOK'
  BY <1>1, <1>2, <1>3, <1>4, Slot DEF Sty!TypeOK
<1>6. \A m \in Layer \ {l} : approved'[m] = approved[m]
  BY DEF Sty!TypeOK
<1>7. ASSUME NEW m \in Layer \ {l} PROVE StyleInv(m)'
  <2>1. m \in disputed' <=> m \in disputed
    BY <1>4
  <2>2. \A g \in Request :
          (Working(g, m)' <=> Working(g, m)) /\ (Working(g, m) => styling'[g] = styling[g])
    BY <1>1, <1>2, <1>3, Slot
  <2> QED
    BY <1>3, <1>6, <2>1, <2>2, Elsewhere
<1>8. StyleInv(l)'
  <2>1. /\ styling'[h] = x /\ x # None /\ \A g \in Request \ {h} : styling'[g] = styling[g]
        /\ Working(h, l)' /\ \A g \in Request \ {h} : Working(g, l)' <=> Working(g, l)
    BY <1>1, <1>2, <1>3, Slot, Unrecorded
  <2>2. l \in imported
    BY <1>1 DEF StyleInv
  <2>3. ASSUME l \notin disputed'
        PROVE  l \notin disputed /\ (\A g \in Request \ {h} : ~Working(g, l)')
               /\ (\A g \in Request : ~Working(g, l))
    BY <1>1, <1>4, <2>1, <2>3 DEF Sty!About, Working
  <2>4. l \notin disputed' => Current(h, l)'
    BY <1>2, <1>3, <2>1 DEF Current, Sty!TypeOK
  <2>5. l \notin disputed' => (Kept(l) => Kept(l)')
    BY <1>3, <2>3 DEF Kept
  <2>6. DrawnAsStyled(l) => DrawnAsStyled(l)'
    BY <1>3 DEF DrawnAsStyled
  <2> QED
    BY <1>3, <2>1, <2>2, <2>3, <2>4, <2>5, <2>6 DEF StyleInv
<1> QED
  BY <1>5, <1>7, <1>8

\* A step of a request at work, about its layer alone.
LEMMA OwnLayer ==
  ASSUME Sty!TypeOK, \A m \in Layer : StyleInv(m), NEW h \in Request, styling[h] # None,
         NEW l \in Layer, l = styling[h].layer, NEW x \in Sty!Doing \cup {None}, Sty!Put(h, x),
         x = None \/ x.layer = l, StyleInv(l)', UNCHANGED <<imported, disputed>>,
         undone' \in {undone, undone \cup {l}},
         \A m \in Layer \ {l} : /\ style'[m] = style[m] /\ qml'[m] = qml[m] /\ shown'[m] = shown[m]
                                /\ recorded'[m] = recorded[m] /\ approved'[m] = approved[m]
  PROVE  \A m \in Layer : StyleInv(m)'
<1> SUFFICES ASSUME NEW m \in Layer \ {l} PROVE StyleInv(m)'
  OBVIOUS
<1>1. \A g \in Request :
        (Working(g, m)' <=> Working(g, m)) /\ (Working(g, m) => styling'[g] = styling[g])
  BY Slot
<1> QED
  BY <1>1, Elsewhere

\* What a request at work knows, if its layer is not disputed
LEMMA AtWork ==
  ASSUME Sty!TypeOK, \A m \in Layer : StyleInv(m), NEW h \in Request, styling[h] # None
  PROVE  LET l == styling[h].layer IN
         /\ styling[h] \in Sty!Doing /\ l \in Layer /\ l \in imported /\ Working(h, l)
         /\ l \notin disputed => /\ Current(h, l) /\ style[l] # None
                                 /\ \A g \in Request \ {h} : ~Working(g, l)
         /\ l \notin disputed \cup undone => Kept(l)
         /\ DrawnAsStyled(l) \/ l \in disputed \cup undone
<1> DEFINE l == styling[h].layer
<1>1. styling[h] \in Sty!Doing /\ l \in Layer /\ Working(h, l) /\ styling[h].read \in Sty!Column
  BY DEF Sty!TypeOK, Sty!Doing, Working
<1> HIDE DEF l
<1>2. StyleInv(l)
  BY <1>1
<1>3. l \notin disputed => style[l] # None /\ Current(h, l)
  BY <1>1, <1>2, Unrecorded DEF StyleInv, Current, l
<1> QED
  BY <1>1, <1>2, <1>3 DEF StyleInv, l

\* Every step of a style, a drawing or a deletion keeps the invariant.
LEMMA StyleSteps ==
  ASSUME Sty!TypeOK, \A m \in Layer : StyleInv(m), NEW h \in Request,
         \/ Sty!Copy(h) \/ Sty!WriteStyle(h) \/ Sty!Draw(h) \/ Sty!RemoveStyle(h)
         \/ Sty!Erase(h) \/ Sty!Abort(h)
  PROVE  Sty!TypeOK' /\ \A m \in Layer : StyleInv(m)'
<1>0. PICK d, l : d = styling[h] /\ l = styling[h].layer
  OBVIOUS
<1>1. d # None
  BY <1>0 DEF Sty!Copy, Sty!WriteStyle, Sty!Draw, Sty!RemoveStyle, Sty!Erase, Sty!Abort, Sty!At
<1>2. /\ d \in Sty!Doing /\ l \in Layer /\ l \in imported /\ Working(h, l)
      /\ l \notin disputed => /\ Current(h, l) /\ style[l] # None
                              /\ \A g \in Request \ {h} : ~Working(g, l)
      /\ l \notin disputed \cup undone => Kept(l)
      /\ DrawnAsStyled(l) \/ l \in disputed \cup undone
  BY <1>0, <1>1, AtWork
<1>f. d.layer \in Layer /\ d.read \in Sty!Column /\ d.new \in Sty!Wish
  BY <1>0, <1>2 DEF Sty!Doing
\* What to prove of each step
<1> DEFINE Step(x) ==
      /\ x \in Sty!Doing \cup {None} /\ Sty!Put(h, x) /\ (x = None \/ x.layer = l)
      /\ UNCHANGED <<imported, disputed>> /\ undone' \in {undone, undone \cup {l}}
      /\ \A m \in Layer \ {l} : /\ style'[m] = style[m] /\ qml'[m] = qml[m] /\ shown'[m] = shown[m]
                                /\ recorded'[m] = recorded[m] /\ approved'[m] = approved[m]
<1>3. ASSUME NEW x, Step(x),
             /\ style' \in [Layer -> Sty!Column \cup {None}] /\ qml' \in [Layer -> Qml \cup {None}]
             /\ shown' \in [Layer -> Colour \cup Qml \cup {None, Plain}]
             /\ recorded' \in [Layer -> Sty!Wish] /\ approved' \in [Layer -> Sty!Wish],
             StyleInv(l)'
      PROVE  Sty!TypeOK' /\ \A m \in Layer : StyleInv(m)'
  <2>1. styling' \in [Request -> Sty!Doing \cup {None}] /\ styling'[h] = x
    BY <1>0, <1>2, <1>3, Slot
  <2>2. Sty!TypeOK'
    BY <1>2, <1>3, <2>1 DEF Sty!TypeOK
  <2>3. \A m \in Layer : StyleInv(m)'
    BY <1>0, <1>1, <1>2, <1>3, OwnLayer
  <2> QED
    BY <2>2, <2>3
<1>4. CASE Sty!Copy(h)
  <2> DEFINE x == [d EXCEPT !.at = "write"]
  <2>1. x \in Sty!Doing /\ x.layer = l /\ x.at = "write" /\ x.read = d.read /\ x.new = d.new
    BY <1>0, <1>2 DEF Sty!Doing
  <2>2. /\ d.at = "copy" /\ Sty!Put(h, x) /\ qml' = [qml EXCEPT ![l] = d.new.file]
        /\ UNCHANGED <<style, shown, imported, recorded, approved, disputed, undone>>
    BY <1>0, <1>4 DEF Sty!Copy, Sty!At, Sty!history
  <2> HIDE DEF x
  <2>3. qml' \in [Layer -> Qml \cup {None}] /\ \A m \in Layer \ {l} : qml'[m] = qml[m]
    BY <1>0, <1>f, <2>2 DEF Sty!TypeOK, Sty!Wish
  <2>4. /\ styling'[h] = x /\ Working(h, l)' /\ x # None
        /\ \A g \in Request \ {h} : Working(g, l)' <=> Working(g, l)
    BY <1>0, <1>2, <2>1, <2>2, Slot, Unrecorded
  <2>5. l \notin disputed => Current(h, l)'
    BY <1>0, <1>2, <2>1, <2>2, <2>4 DEF Current, Sty!TypeOK
  <2>6. l \notin disputed \cup undone => Kept(l)'
    BY <1>0, <1>2, <2>1, <2>2, <2>4 DEF Kept, Current
  <2>7. StyleInv(l)'
    BY <1>0, <1>2, <2>2, <2>4, <2>5, <2>6 DEF StyleInv, DrawnAsStyled
  <2> QED
    BY <1>3, <2>1, <2>2, <2>3, <2>7 DEF Sty!TypeOK
<1>5. CASE Sty!WriteStyle(h)
  <2>1. /\ d.at = "write" /\ Sty!Put(h, None)
        /\ UNCHANGED <<qml, shown, imported, approved, disputed, undone>>
    BY <1>0, <1>5 DEF Sty!WriteStyle, Sty!At
  <2>2. \/ style[l] = None /\ UNCHANGED <<style, recorded>>
        \/ /\ style[l] # None /\ style' = [style EXCEPT ![l] = Sty!Merged(d.read, d.new)]
           /\ recorded' = [recorded EXCEPT ![l] =
                [colour |-> IF d.new.colour = None THEN recorded[l].colour ELSE d.new.colour,
                 file |-> IF d.new.file = None THEN recorded[l].file ELSE d.new.file]]
    BY <1>0, <1>5, <1>f DEF Sty!WriteStyle, Sty!TypeOK
  <2>3. Sty!Merged(d.read, d.new) \in Sty!Column
    BY <1>0, <1>f DEF Sty!Merged, Sty!Column, Sty!Wish
  <2>4. /\ style' \in [Layer -> Sty!Column \cup {None}] /\ recorded' \in [Layer -> Sty!Wish]
        /\ \A m \in Layer \ {l} : style'[m] = style[m] /\ recorded'[m] = recorded[m]
    <3> DEFINE w == [colour |-> IF d.new.colour = None THEN recorded[l].colour ELSE d.new.colour,
                     file |-> IF d.new.file = None THEN recorded[l].file ELSE d.new.file]
    <3>1. recorded[l] \in Sty!Wish
      BY <1>2 DEF Sty!TypeOK
    <3>2. w \in Sty!Wish
      BY <1>f, <3>1 DEF Sty!Wish
    <3>3. recorded' \in {recorded, [recorded EXCEPT ![l] = w]}
      BY <2>2
    <3> HIDE DEF w
    <3> QED
      BY <1>2, <2>2, <2>3, <3>2, <3>3 DEF Sty!TypeOK
  <2>5. \A g \in Request : Working(g, l)' <=> (g # h /\ Working(g, l))
    BY <1>0, <1>2, <2>1, Slot
  <2>6. ASSUME l \notin disputed \cup undone PROVE Kept(l)'
    <3>1. /\ Current(h, l) /\ style[l] # None /\ Kept(l)
          /\ \A g \in Request \ {h} : ~Working(g, l)
      BY <1>0, <1>2, <2>6
    <3>2. /\ style'[l] = Sty!Merged(d.read, d.new)
          /\ recorded'[l].colour = IF d.new.colour = None THEN recorded[l].colour ELSE d.new.colour
          /\ recorded'[l].file = IF d.new.file = None THEN recorded[l].file ELSE d.new.file
      BY <1>0, <1>f, <2>2, <3>1 DEF Sty!TypeOK
    <3>3. d.read = style[l] /\ (d.new.file # None => qml[l] = d.new.file)
      BY <1>0, <2>1, <3>1 DEF Current
    <3>4. d.new.file = None => recorded[l].file \in {None, qml[l]}
      BY <1>0, <2>1, <3>1 DEF Kept, Working
    <3>5. style[l].colour = recorded[l].colour /\ (style[l].qml <=> recorded[l].file # None)
      BY <3>1 DEF Kept
    <3>6. style'[l].colour = recorded'[l].colour /\ (style'[l].qml <=> recorded'[l].file # None)
      <4>1. /\ Sty!Merged(d.read, d.new).colour = (IF d.new.colour = None THEN d.read.colour
                                                                      ELSE d.new.colour)
            /\ Sty!Merged(d.read, d.new).qml <=> d.read.qml \/ d.new.file # None
        BY DEF Sty!Merged
      <4>2. style'[l].colour = recorded'[l].colour
        BY <3>2, <3>3, <3>5, <4>1
      <4>3. style'[l].qml <=> style[l].qml \/ d.new.file # None
        BY <3>2, <3>3, <4>1
      <4>4. d.new.file # None => recorded'[l].file # None
        BY <3>2
      <4>5. d.new.file = None => recorded'[l].file = recorded[l].file
        BY <3>2
      <4> QED
        BY <3>5, <4>2, <4>3, <4>4, <4>5
    <3>7. recorded'[l].file \in {None, qml'[l]}
      BY <1>0, <2>1, <3>2, <3>3, <3>4
    <3> QED
      BY <3>6, <3>7 DEF Kept
  <2>7. StyleInv(l)'
    BY <1>0, <1>2, <2>1, <2>5, <2>6 DEF StyleInv, DrawnAsStyled
  <2> QED
    BY <1>3, <2>1, <2>4, <2>7 DEF Sty!TypeOK
<1>6. CASE Sty!Draw(h)
  <2>1. /\ d.at = "draw" /\ Sty!Put(h, None)
        /\ UNCHANGED <<style, qml, imported, recorded, approved, disputed>>
        /\ \/ shown' = [shown EXCEPT ![l] = Sty!Drawn(d.read, l)] /\ UNCHANGED undone
           \/ shown' = [shown EXCEPT ![l] = Plain] /\ undone' = undone \cup {l}
    BY <1>0, <1>6 DEF Sty!Draw, Sty!At
  <2>2. Sty!Drawn(d.read, l) \in Colour \cup Qml \cup {None, Plain}
    BY <1>0, <1>2, <1>f DEF Sty!Drawn, Sty!Column, Sty!TypeOK
  <2>3. /\ shown' \in [Layer -> Colour \cup Qml \cup {None, Plain}]
        /\ \A m \in Layer \ {l} : shown'[m] = shown[m]
    BY <1>0, <1>2, <2>1, <2>2 DEF Sty!TypeOK
  <2>4. \A g \in Request : Working(g, l)' <=> (g # h /\ Working(g, l))
    BY <1>0, <1>2, <2>1, Slot
  <2>5. ASSUME l \notin disputed \cup undone' PROVE Kept(l)' /\ DrawnAsStyled(l)'
    <3>1. /\ Current(h, l) /\ style[l] # None /\ Kept(l) /\ undone' = undone
          /\ \A g \in Request \ {h} : ~Working(g, l)
      BY <1>0, <1>2, <2>1, <2>5
    <3>2. d.read = style[l] /\ approved[l] = recorded[l]
      BY <1>0, <2>1, <3>1 DEF Current
    <3>3. recorded[l].file \in {None, qml[l]}
      BY <1>0, <2>1, <3>1 DEF Kept, Working
    <3>4. style[l].colour = recorded[l].colour /\ (style[l].qml <=> recorded[l].file # None)
      BY <3>1 DEF Kept
    <3>5. shown'[l] = Sty!Drawn(d.read, l)
      BY <1>0, <1>2, <2>1, <2>5, <3>1 DEF Sty!TypeOK
    <3>6. DrawnAsStyled(l)'
      BY <1>0, <2>1, <3>2, <3>3, <3>4, <3>5 DEF DrawnAsStyled, Sty!Drawn
    <3> QED
      BY <1>0, <2>1, <3>3, <3>4, <3>6 DEF Kept
  <2>6. StyleInv(l)'
    BY <1>0, <1>2, <2>1, <2>4, <2>5 DEF StyleInv
  <2> QED
    BY <1>3, <2>1, <2>3, <2>6 DEF Sty!TypeOK
<1>7. CASE Sty!RemoveStyle(h)
  <2> DEFINE x == [d EXCEPT !.at = "erase"]
  <2>1. x \in Sty!Doing /\ x.layer = l /\ x.at = "erase" /\ x.read = d.read /\ x.new = d.new
    BY <1>0, <1>2 DEF Sty!Doing
  <2>2. /\ Sty!Put(h, x) /\ (qml' = [qml EXCEPT ![l] = None] \/ UNCHANGED qml)
        /\ UNCHANGED <<style, shown, imported, recorded, approved, disputed, undone>>
    BY <1>0, <1>7 DEF Sty!RemoveStyle, Sty!At, Sty!history
  <2> HIDE DEF x
  <2>3. qml' \in [Layer -> Qml \cup {None}] /\ \A m \in Layer \ {l} : qml'[m] = qml[m]
    BY <1>0, <1>f, <2>2 DEF Sty!TypeOK
  <2>4. /\ styling'[h] = x /\ Working(h, l)' /\ x # None
        /\ \A g \in Request \ {h} : Working(g, l)' <=> Working(g, l)
    BY <1>0, <1>2, <2>1, <2>2, Slot, Unrecorded
  <2>5. l \notin disputed => Current(h, l)'
    BY <1>0, <1>2, <2>1, <2>2, <2>4 DEF Current
  <2>6. l \notin disputed \cup undone => Kept(l)'
    BY <1>0, <1>2, <2>1, <2>2, <2>4 DEF Kept
  <2>7. StyleInv(l)'
    BY <1>0, <1>2, <2>2, <2>4, <2>5, <2>6 DEF StyleInv, DrawnAsStyled
  <2> QED
    BY <1>3, <2>1, <2>2, <2>3, <2>7 DEF Sty!TypeOK
<1>8. CASE Sty!Erase(h)
  <2>1. /\ Sty!Put(h, None) /\ style' = [style EXCEPT ![l] = None]
        /\ UNCHANGED <<qml, shown, imported, recorded, approved, disputed, undone>>
    BY <1>0, <1>8 DEF Sty!Erase, Sty!At, Sty!history
  <2>2. /\ style' \in [Layer -> Sty!Column \cup {None}] /\ style'[l] = None
        /\ \A m \in Layer \ {l} : style'[m] = style[m]
    BY <1>0, <1>2, <2>1 DEF Sty!TypeOK
  <2>3. \A g \in Request : Working(g, l)' <=> (g # h /\ Working(g, l))
    BY <1>0, <1>2, <2>1, Slot
  <2>4. StyleInv(l)'
    BY <1>0, <1>2, <2>1, <2>2, <2>3 DEF StyleInv, DrawnAsStyled
  <2> QED
    BY <1>3, <2>1, <2>2, <2>4 DEF Sty!TypeOK
<1>9. CASE Sty!Abort(h)
  <2>1. /\ Sty!Put(h, None) /\ undone' = undone \cup {l}
        /\ UNCHANGED <<style, qml, shown, imported, recorded, approved, disputed>>
    BY <1>0, <1>9 DEF Sty!Abort
  <2>2. \A g \in Request : Working(g, l)' <=> (g # h /\ Working(g, l))
    BY <1>0, <1>2, <2>1, Slot
  <2>3. StyleInv(l)'
    BY <1>0, <1>2, <2>1, <2>2 DEF StyleInv
  <2> QED
    BY <1>3, <2>1, <2>3 DEF Sty!TypeOK
<1> QED
  BY <1>4, <1>5, <1>6, <1>7, <1>8, <1>9

\* A file is imported: unpublished, in the style given with it.
LEMMA ImportStep ==
  ASSUME Sty!TypeOK, \A m \in Layer : StyleInv(m), NEW l \in Layer, NEW c \in Colour \cup {None},
         Sty!Import(l, c)
  PROVE  Sty!TypeOK' /\ \A m \in Layer : StyleInv(m)'
<1>1. /\ l \notin imported /\ imported' = imported \cup {l}
      /\ style' = [style EXCEPT ![l] = [colour |-> c, qml |-> FALSE]]
      /\ recorded' = [recorded EXCEPT ![l].colour = c]
      /\ UNCHANGED <<qml, shown, styling, approved, disputed, undone>>
  BY DEF Sty!Import
<1>2. Sty!TypeOK'
  BY <1>1 DEF Sty!TypeOK, Sty!Column, Sty!Wish
<1>3. \A m \in Layer \ {l} : StyleInv(m)'
  <2> SUFFICES ASSUME NEW m \in Layer \ {l} PROVE StyleInv(m)'
    OBVIOUS
  <2>1. style'[m] = style[m] /\ recorded'[m] = recorded[m] /\ (m \in imported' <=> m \in imported)
    BY <1>1 DEF Sty!TypeOK
  <2>2. \A g \in Request : Working(g, m)' <=> Working(g, m)
    BY <1>1 DEF Working
  <2> QED
    BY <1>1, <2>1, <2>2, Elsewhere
<1>4. StyleInv(l)'
  <2>1. \A g \in Request : ~Working(g, l)'
    BY <1>1 DEF Working, StyleInv
  <2>2. recorded[l] = Sty!Unstyled
    BY <1>1 DEF StyleInv
  <2>3. style'[l] = [colour |-> c, qml |-> FALSE] /\ recorded'[l] = [colour |-> c, file |-> None]
    BY <1>1, <2>2 DEF Sty!TypeOK, Sty!Unstyled
  <2>4. Kept(l)'
    BY <2>3 DEF Kept
  <2> QED
    BY <1>1, <2>1, <2>4 DEF StyleInv, DrawnAsStyled
<1> QED
  BY <1>2, <1>3, <1>4

StylesInv == Sty!TypeOK /\ \A l \in Layer : StyleInv(l)

\* Every step of a styling, an approval or a deletion keeps the invariant of its layer.
LEMMA StylesStep ==
  ASSUME StylesInv, Sty!Next
  PROVE  StylesInv'
<1> USE DEF StylesInv
<1>1. ASSUME NEW l \in Layer, NEW c \in Colour \cup {None}, Sty!Import(l, c) PROVE StylesInv'
  BY <1>1, ImportStep
<1>2. ASSUME NEW h \in Request, NEW l \in Layer, NEW c \in Colour, Sty!ApplyColour(h, l, c)
      PROVE  StylesInv'
  <2>1. [Sty!Unstyled EXCEPT !.colour = c] \in Sty!Wish
          /\ [Sty!Unstyled EXCEPT !.colour = c].file = None
    BY DEF Sty!Wish, Sty!Unstyled
  <2> QED
    BY <1>2, <2>1, BeginStep DEF Sty!ApplyColour
<1>3. ASSUME NEW h \in Request, NEW l \in Layer, NEW q \in Qml, Sty!UploadQml(h, l, q)
      PROVE  StylesInv'
  <2>1. [Sty!Unstyled EXCEPT !.file = q] \in Sty!Wish
          /\ [Sty!Unstyled EXCEPT !.file = q].file # None
    BY Unrecorded DEF Sty!Wish, Sty!Unstyled
  <2> QED
    BY <1>3, <2>1, BeginStep DEF Sty!UploadQml
<1>4. Sty!Unstyled \in Sty!Wish
  BY DEF Sty!Wish, Sty!Unstyled
<1>5. ASSUME NEW h \in Request, NEW l \in Layer, Sty!Approve(h, l) PROVE StylesInv'
  BY <1>4, <1>5, BeginStep DEF Sty!Approve
<1>6. ASSUME NEW h \in Request, NEW l \in Layer, Sty!Delete(h, l) PROVE StylesInv'
  BY <1>4, <1>6, BeginStep DEF Sty!Delete
<1> QED
  BY <1>1, <1>2, <1>3, <1>5, <1>6, StyleSteps DEF Sty!Next

\* While the styles move, their invariant holds.
LEMMA StylesAlways == Spec => [](part = "styles" => StylesInv)
<1> DEFINE I == part = "styles" => StylesInv
<1>1. Init => I
  <2> SUFFICES ASSUME Sty!Init PROVE StylesInv
    BY DEF Init
  <2>1. Sty!TypeOK
    BY DEF Sty!Init, Sty!TypeOK, Sty!Unstyled, Sty!Wish
  <2> QED
    BY <2>1 DEF Sty!Init, StylesInv, StyleInv, Working, DrawnAsStyled
<1>2. I /\ [Next]_vars => I'
  <2>1. StylesInv /\ UNCHANGED styles => StylesInv'
    BY DEF StylesInv, styles, Sty!TypeOK, StyleInv, Working, DrawnAsStyled, Kept, Current
  <2> QED
    BY <2>1, StylesStep DEF Next, Only, vars
<1> QED
  BY <1>1, <1>2, PTL DEF Spec

\* A published file is drawn the way its owner's requests had styled it when it was approved.
THEOREM AsStyled == Spec => []PublishedAsStyled
<1>1. (part = "styles" => StylesInv) => PublishedAsStyled
  BY DEF PublishedAsStyled, Sty!PublishedAsStyled, StylesInv, StyleInv, DrawnAsStyled
<1> QED
  BY <1>1, StylesAlways, PTL

-----------------------------------------------------------------------------
(* Uploaded projects *)

\* Somebody made a layer of this slug, or it was deleted since.
Present(s) == placed[s] # None \/ s \in erased
\* A leaf of the project leads there.
Leads(p, s, q) == \E i \in DOMAIN Tree[p] : Tree[p][i].slug = s /\ Qgs!PlaceOf(Tree[p][i]) = q
\* Every leaf of those places is present, or still to come.
Covers(p, S, L) ==
  \A i \in S : Present(Tree[p][i].slug) \/ \E x \in L : x.slug = Tree[p][i].slug

\* An import's ids name rows there are, and what it has left is what it has not yet made of
\* what it read.
OnItsWay(d) ==
  /\ d.known \subseteq drawer /\ (d.held # None => d.held \in folder)
  /\ d.at = "insert" => d.next \in d.layers
  /\ d.seen \subseteq DOMAIN Tree[d.from] /\ Covers(d.from, d.seen, d.layers)
  /\ d.seen # {} => \A x \in d.layers : Leads(d.from, x.slug, x.under)

Importing == \A h \in Request, d \in Qgs!Doing : importing[h] = d => OnItsWay(d)

Catalogued ==
  \A s \in Slug : placed[s] # None =>
    placed[s].under \in drawer /\
    (placed[s].whole => Leads(placed[s].project, s, placed[s].under))

Completed == \A s \in complete : Present(s)

ProjectInv == Qgs!TypeOK /\ Importing /\ Catalogued /\ Completed

\* None is no project, folder, layer or import.
LEMMA Untitled ==
  /\ None \notin Project /\ None \notin Folder \cup {DefaultGroup} /\ None \notin Qgs!Made
  /\ None \notin Qgs!Leaf /\ None \notin Qgs!Doing
BY ServicesAssumption, NoneAssumption

\* A leaf has a slug, and a place of the catalogue.
LEMMA LeafTyped ==
  ASSUME NEW p \in Project, NEW i \in DOMAIN Tree[p]
  PROVE  Tree[p][i].slug \in Slug /\ Qgs!PlaceOf(Tree[p][i]) \in Qgs!Place /\ i \in Nat
<1> DEFINE R == [slug : Slug, folders : Seq(Folder)]
<1>1. Tree[p] \in Seq(R)
  BY ServicesAssumption
<1>2. i \in Nat /\ Tree[p][i] \in R
  <2> HIDE DEF R
  <2> QED
    BY <1>1, LenProperties, ElementOfSeq
<1>3. PICK f \in Seq(Folder) : f = Tree[p][i].folders
  BY <1>2
<1>4. f # <<>> => Head(f) \in Folder
  BY HeadTailProperties
<1>5. Len(f) \in Nat /\ (Len(f) >= 2 => Qgs!Last(f) \in Folder)
  BY LenProperties DEF Qgs!Last
<1>6. Qgs!PlaceOf(Tree[p][i]) = <<IF f = <<>> THEN DefaultGroup ELSE Head(f),
                                  IF Len(f) < 2 THEN DefaultSubGroup ELSE Qgs!Last(f)>>
  BY <1>3 DEF Qgs!PlaceOf
<1>7. /\ (IF f = <<>> THEN DefaultGroup ELSE Head(f)) \in Folder \cup {DefaultGroup}
      /\ (IF Len(f) < 2 THEN DefaultSubGroup ELSE Qgs!Last(f)) \in Folder \cup {DefaultSubGroup}
  BY <1>4, <1>5
<1> QED
  BY <1>2, <1>6, <1>7 DEF Qgs!Place

\* An import changes, the others' stay.
LEMMA Handled ==
  ASSUME Qgs!TypeOK, NEW h \in Request, NEW y \in Qgs!Doing \cup {None},
         importing' = [importing EXCEPT ![h] = y]
  PROVE  /\ importing' \in [Request -> Qgs!Doing \cup {None}] /\ importing'[h] = y
         /\ \A g \in Request \ {h} : importing'[g] = importing[g]
BY DEF Qgs!TypeOK

\* What an import holds
LEMMA DoingTyped ==
  ASSUME Qgs!TypeOK, NEW h \in Request, importing[h] # None
  PROVE  /\ importing[h] \in Qgs!Doing /\ importing[h].from \in Project
         /\ importing[h].places \subseteq Qgs!Place /\ importing[h].known \subseteq Qgs!Place
         /\ importing[h].layers \subseteq Qgs!Leaf
BY DEF Qgs!TypeOK, Qgs!Doing

\* Rows are only added, or deleted under a slug that is remembered.
Grows ==
  /\ folder \subseteq folder' /\ drawer \subseteq drawer'
  /\ \A s \in Slug : Present(s) => Present(s)'

\* What was present stays so, or is remembered as deleted.
LEMMA StillCovers ==
  ASSUME NEW p \in Project, NEW S, S \subseteq DOMAIN Tree[p], NEW L, Covers(p, S, L),
         \A s \in Slug : Present(s) => Present(s)'
  PROVE  Covers(p, S, L)'
BY LeafTyped DEF Covers

\* An import stays on its way while rows are added.
LEMMA StillOnItsWay ==
  ASSUME Grows, NEW d \in Qgs!Doing, OnItsWay(d)
  PROVE  OnItsWay(d)'
<1>1. d.from \in Project
  BY DEF Qgs!Doing
<1>2. Covers(d.from, d.seen, d.layers)'
  BY <1>1, StillCovers DEF Grows, OnItsWay
<1> QED
  BY <1>2 DEF Grows, OnItsWay, Leads

\* One import takes a step, and rows are only added.
LEMMA OneStep ==
  ASSUME ProjectInv, Grows, NEW h \in Request, NEW y \in Qgs!Doing \cup {None},
         Qgs!Put(h, y), y # None => OnItsWay(y)'
  PROVE  importing' \in [Request -> Qgs!Doing \cup {None}] /\ Importing'
<1>1. /\ importing' \in [Request -> Qgs!Doing \cup {None}] /\ importing'[h] = y
      /\ \A g \in Request \ {h} : importing'[g] = importing[g]
  BY Handled DEF ProjectInv, Qgs!Put
<1>2. ASSUME NEW g \in Request, NEW d \in Qgs!Doing, importing'[g] = d PROVE OnItsWay(d)'
  <2>1. CASE g = h
    BY <1>1, <1>2, <2>1, Untitled
  <2>2. CASE g # h
    BY <1>1, <1>2, <2>2, StillOnItsWay DEF ProjectInv, Importing
  <2> QED
    BY <2>1, <2>2
<1> QED
  BY <1>1, <1>2 DEF Importing

\* What was complete and where it was stays right while rows are added.
LEMMA StaysRight ==
  ASSUME ProjectInv, Grows
  PROVE  /\ \A s \in complete : Present(s)'
         /\ \A s \in Slug : placed[s] # None /\ placed'[s] = placed[s] =>
              /\ placed[s].under \in drawer'
              /\ placed[s].whole => Leads(placed[s].project, s, placed[s].under)
<1>1. complete \subseteq Slug
  BY DEF ProjectInv, Qgs!TypeOK
<1> QED
  BY <1>1 DEF ProjectInv, Completed, Catalogued, Grows

\* A row is created, or a layer deleted, and no import moves.
LEMMA RowStep ==
  ASSUME ProjectInv, Qgs!TypeOK', Grows, Catalogued', UNCHANGED <<importing, complete>>
  PROVE  ProjectInv'
<1>1. Importing'
  BY StillOnItsWay DEF ProjectInv, Importing
<1>2. Completed'
  BY StaysRight DEF Completed
<1> QED
  BY <1>1, <1>2 DEF ProjectInv

\* An import moves, and may add a group or a sub-group.
LEMMA FolderStep ==
  ASSUME ProjectInv, NEW h \in Request, NEW y \in Qgs!Doing \cup {None}, Qgs!Put(h, y),
         folder \subseteq folder', folder' \subseteq Folder \cup {DefaultGroup},
         drawer \subseteq drawer', drawer' \subseteq Qgs!Place,
         \A p \in drawer' : p[1] \in folder',
         UNCHANGED <<hosted, inFile, scripts, placed, erased, complete>>,
         y # None => OnItsWay(y)'
  PROVE  ProjectInv'
<1>1. Grows
  BY DEF Grows, Present
<1>2. importing' \in [Request -> Qgs!Doing \cup {None}] /\ Importing'
  BY <1>1, OneStep
<1>3. Qgs!TypeOK'
  BY <1>2 DEF ProjectInv, Qgs!TypeOK
<1>4. Catalogued' /\ Completed'
  BY <1>1, StaysRight DEF Catalogued, Completed
<1> QED
  BY <1>2, <1>3, <1>4 DEF ProjectInv

\* What an import resolves changes neither its project nor what it has left.
LEMMA Resolving ==
  ASSUME ProjectInv, NEW h \in Request, importing[h] # None,
         NEW q \in Qgs!Place,
         \/ Qgs!FindGroup(h, q) \/ Qgs!MakeGroup(h, q) \/ Qgs!FindSub(h, q)
         \/ Qgs!MakeSub(h, q)
  PROVE  ProjectInv'
<1> DEFINE d == importing[h]
<1>1. d \in Qgs!Doing /\ d # None /\ OnItsWay(d) /\ q[1] \in Folder \cup {DefaultGroup}
  BY DoingTyped DEF ProjectInv, Importing, Qgs!Place
<1>2. /\ folder \subseteq folder' /\ folder' \subseteq Folder \cup {DefaultGroup}
      /\ drawer \subseteq drawer' /\ drawer' \subseteq Qgs!Place
      /\ \A p \in drawer' : p[1] \in folder'
      /\ UNCHANGED <<hosted, inFile, scripts, placed, erased, complete>>
  <2>1. CASE Qgs!FindGroup(h, q)
    BY <2>1 DEF Qgs!FindGroup, Qgs!files, Qgs!history, ProjectInv, Qgs!TypeOK
  <2>2. CASE Qgs!MakeGroup(h, q)
    BY <1>1, <2>2 DEF Qgs!MakeGroup, Qgs!files, Qgs!history, ProjectInv, Qgs!TypeOK
  <2>3. CASE Qgs!FindSub(h, q)
    BY <2>3 DEF Qgs!FindSub, Qgs!files, Qgs!history, ProjectInv, Qgs!TypeOK
  <2>4. CASE Qgs!MakeSub(h, q)
    <3>1. q[1] \in folder
      BY <1>1, <2>4, Untitled DEF Qgs!MakeSub, OnItsWay
    <3> QED
      BY <2>4, <3>1 DEF Qgs!MakeSub, Qgs!files, Qgs!history, ProjectInv, Qgs!TypeOK
  <2> QED
    BY <2>1, <2>2, <2>3, <2>4
<1>3. Grows
  BY <1>2 DEF Grows, Present
<1>4. PICK p : p = d
  OBVIOUS
<1>5. p \in Qgs!Doing /\ OnItsWay(p)'
  BY <1>1, <1>3, <1>4, StillOnItsWay
<1>6. \E y \in Qgs!Doing :
        /\ Qgs!Put(h, y) /\ y.from = p.from /\ y.seen = p.seen /\ y.layers = p.layers /\ y.at # "insert"
        /\ y.known \subseteq drawer' /\ (y.held # None => y.held \in folder')
  <2>1. ASSUME NEW s \in {"makeGroup", "makeSub"}, Qgs!Step(h, s) PROVE <1>6
    <3> DEFINE y == [p EXCEPT !.at = s]
    <3>1. /\ y \in Qgs!Doing /\ y.from = p.from /\ y.seen = p.seen /\ y.layers = p.layers /\ y.at = s
          /\ y.known = p.known /\ y.held = p.held
      BY <1>5 DEF Qgs!Doing
    <3>2. Qgs!Put(h, y)
      BY <1>4, <2>1 DEF Qgs!Step
    <3> QED
      BY <1>5, <3>1, <3>2 DEF OnItsWay
  <2>2. ASSUME Qgs!Put(h, [p EXCEPT !.at = "sub", !.held = q[1]]), q[1] \in folder' PROVE <1>6
    <3> DEFINE y == [p EXCEPT !.at = "sub", !.held = q[1]]
    <3>1. /\ y \in Qgs!Doing /\ y.from = p.from /\ y.seen = p.seen /\ y.layers = p.layers /\ y.at = "sub"
          /\ y.known = p.known /\ y.held = q[1]
      BY <1>1, <1>5 DEF Qgs!Doing
    <3> QED
      BY <1>5, <2>2, <3>1 DEF OnItsWay
  <2>3. ASSUME Qgs!Resolved(h, q), q \in drawer' PROVE <1>6
    <3> DEFINE s == IF p.places = {q} THEN "find" ELSE "group"
    <3> DEFINE y == [p EXCEPT !.known = @ \cup {q}, !.places = @ \ {q}, !.held = None, !.at = s]
    <3>1. /\ y \in Qgs!Doing /\ y.from = p.from /\ y.seen = p.seen /\ y.layers = p.layers /\ y.at = s
          /\ y.known = p.known \cup {q} /\ y.held = None
      BY <1>5 DEF Qgs!Doing
    <3>2. Qgs!Put(h, y)
      BY <1>4, <2>3 DEF Qgs!Resolved
    <3> HIDE DEF y
    <3> QED
      BY <1>5, <2>3, <3>1, <3>2 DEF OnItsWay
  <2>4. CASE Qgs!FindGroup(h, q)
    BY <1>2, <1>4, <2>1, <2>2, <2>4 DEF Qgs!FindGroup
  <2>5. CASE Qgs!MakeGroup(h, q)
    BY <1>4, <2>2, <2>5 DEF Qgs!MakeGroup
  <2>6. CASE Qgs!FindSub(h, q)
    BY <1>2, <2>1, <2>3, <2>6 DEF Qgs!FindSub
  <2>7. CASE Qgs!MakeSub(h, q)
    BY <2>3, <2>7 DEF Qgs!MakeSub
  <2> QED
    BY <2>4, <2>5, <2>6, <2>7
<1>7. PICK y \in Qgs!Doing :
        /\ Qgs!Put(h, y) /\ y.from = p.from /\ y.seen = p.seen /\ y.layers = p.layers /\ y.at # "insert"
        /\ y.known \subseteq drawer' /\ (y.held # None => y.held \in folder')
  BY <1>6
<1>8. OnItsWay(y)'
  BY <1>5, <1>7 DEF OnItsWay
<1> QED
  BY <1>2, <1>7, <1>8, FolderStep

\* An import begins, or breaks off.
LEMMA ImportBegins ==
  ASSUME ProjectInv, NEW h \in Request,
         \/ \E p \in Project : Qgs!AutoImport(h, p)
         \/ \E p \in Project, q \in drawer, S \in SUBSET (Slug \X Slug) : Qgs!Confirm(h, p, q, S)
         \/ Qgs!Abort(h)
  PROVE  ProjectInv'
<1>1. UNCHANGED <<hosted, inFile, scripts, folder, drawer, placed, erased, complete>>
  BY DEF Qgs!AutoImport, Qgs!Confirm, Qgs!Abort, Qgs!files, Qgs!history
<1>2. \E y \in Qgs!Doing \cup {None} : Qgs!Put(h, y) /\ (y # None => OnItsWay(y))
  <2>1. ASSUME NEW p \in Project, Qgs!AutoImport(h, p) PROVE <1>2
    <3>0. PICK S : S = inFile[p]
      OBVIOUS
    <3> DEFINE y == [at |-> "group", from |-> p, seen |-> S, places |-> Qgs!Places(p),
                     held |-> None, known |-> {}, layers |-> Qgs!Leaves(p), next |-> None]
    <3>1. S \subseteq DOMAIN Tree[p] /\ S \subseteq Nat
      BY <3>0 DEF ProjectInv, Qgs!TypeOK
    <3>2. Qgs!Places(p) \subseteq Qgs!Place
      BY <3>0, <3>1, LeafTyped DEF Qgs!Places
    <3>3. Qgs!Leaves(p) \subseteq Qgs!Leaf
      BY <3>0, <3>1, LeafTyped DEF Qgs!Leaves, Qgs!Leaf
    <3>4. y \in Qgs!Doing
      BY <3>1, <3>2, <3>3 DEF Qgs!Doing
    <3>5. Covers(p, S, Qgs!Leaves(p)) /\ \A x \in Qgs!Leaves(p) : Leads(p, x.slug, x.under)
      <4>1. ASSUME NEW i \in S
            PROVE  \E x \in Qgs!Leaves(p) : x.slug = Tree[p][i].slug
        <5> DEFINE x == [slug |-> Tree[p][i].slug, name |-> Tree[p][i].slug,
                         under |-> Qgs!PlaceOf(Tree[p][i]), n |-> i]
        <5>1. x \in Qgs!Leaves(p) /\ x.slug = Tree[p][i].slug
          BY <3>0 DEF Qgs!Leaves
        <5> QED
          BY <5>1
      <4>2. ASSUME NEW x \in Qgs!Leaves(p) PROVE Leads(p, x.slug, x.under)
        BY <3>0, <3>1 DEF Leads, Qgs!Leaves
      <4> QED
        BY <4>1, <4>2 DEF Covers
    <3>6. OnItsWay(y)
      BY <3>1, <3>5 DEF OnItsWay
    <3> QED
      BY <2>1, <3>0, <3>4, <3>6 DEF Qgs!AutoImport
  <2>2. ASSUME NEW p \in Project, NEW q \in drawer, NEW S \in SUBSET (Slug \X Slug),
               Qgs!Confirm(h, p, q, S)
        PROVE  <1>2
    <3> DEFINE L == {[slug |-> x[1], name |-> x[2], under |-> q, n |-> 0] : x \in S}
               y == [at |-> "find", from |-> p, seen |-> {}, places |-> {}, held |-> None,
                     known |-> {q}, next |-> None, layers |-> L]
    <3>1. q \in Qgs!Place
      BY DEF ProjectInv, Qgs!TypeOK
    <3>2. L \subseteq Qgs!Leaf
      BY <3>1 DEF Qgs!Leaf
    <3>3. y \in Qgs!Doing
      BY <3>1, <3>2 DEF Qgs!Doing
    <3>4. OnItsWay(y)
      BY DEF OnItsWay, Covers
    <3> QED
      BY <2>2, <3>3, <3>4 DEF Qgs!Confirm
  <2>3. CASE Qgs!Abort(h)
    BY <2>3 DEF Qgs!Abort
  <2> QED
    BY <2>1, <2>2, <2>3
<1>3. PICK y \in Qgs!Doing \cup {None} : Qgs!Put(h, y) /\ (y # None => OnItsWay(y))
  BY <1>2
<1>4. y # None => OnItsWay(y)'
  <2>1. Grows
    BY <1>1 DEF Grows, Present
  <2> QED
    BY <1>3, <2>1, StillOnItsWay
<1>5. /\ folder' \subseteq Folder \cup {DefaultGroup} /\ drawer' \subseteq Qgs!Place
      /\ \A p \in drawer' : p[1] \in folder'
  BY <1>1 DEF ProjectInv, Qgs!TypeOK
<1> QED
  BY <1>1, <1>3, <1>4, <1>5, FolderStep

\* On to the next layer, once there is one of the slug; an import that ends is complete.
LEMMA AdvanceStep ==
  ASSUME ProjectInv, Grows, NEW h \in Request, importing[h] # None,
         NEW x \in importing[h].layers, placed'[x.slug] # None,
         Qgs!Advance(h, importing[h].layers \ {x}),
         UNCHANGED <<hosted, inFile, scripts, folder, drawer>>,
         placed' \in [Slug -> Qgs!Made \cup {None}], erased' \subseteq Slug, Catalogued'
  PROVE  ProjectInv'
<1>1. PICK d \in Qgs!Doing : importing[h] = d
  BY DoingTyped DEF ProjectInv
<1>2. OnItsWay(d)' /\ OnItsWay(d)
  BY <1>1, StillOnItsWay DEF ProjectInv, Importing
<1> DEFINE rest == d.layers \ {x}
<1>3. d.from \in Project /\ Covers(d.from, d.seen, rest)'
  <2>1. d.from \in Project /\ Covers(d.from, d.seen, d.layers)' /\ Present(x.slug)'
    BY <1>2 DEF OnItsWay, Present, Qgs!Doing
  <2> QED
    BY <2>1 DEF Covers
<1>4. CASE rest = {}
  <2>1. Qgs!Put(h, None) /\ complete' = complete \cup {Tree[d.from][i].slug : i \in d.seen}
    BY <1>1, <1>4 DEF Qgs!Advance
  <2>2. importing' \in [Request -> Qgs!Doing \cup {None}] /\ Importing'
    BY <2>1, OneStep
  <2>3. ASSUME NEW i \in d.seen PROVE Tree[d.from][i].slug \in Slug
    BY <1>2, <1>3, LeafTyped DEF OnItsWay
  <2>4. Qgs!TypeOK'
    BY <2>1, <2>2, <2>3 DEF ProjectInv, Qgs!TypeOK
  <2>5. Completed'
    <3>1. ASSUME NEW s \in complete' PROVE Present(s)'
      <4>1. CASE s \in complete
        BY <4>1, StaysRight
      <4>2. CASE s \notin complete
        <5>1. PICK i \in d.seen : s = Tree[d.from][i].slug
          BY <2>1, <4>2
        <5> QED
          BY <1>3, <1>4, <5>1 DEF Covers
      <4> QED
        BY <4>1, <4>2
    <3> QED
      BY <3>1 DEF Completed
  <2> QED
    BY <2>2, <2>4, <2>5 DEF ProjectInv
<1>5. CASE rest # {}
  <2> DEFINE y == [d EXCEPT !.at = "find", !.layers = rest, !.next = None]
  <2>1. Qgs!Put(h, y) /\ complete' = complete
    BY <1>1, <1>5 DEF Qgs!Advance
  <2>2. /\ y \in Qgs!Doing /\ y.from = d.from /\ y.known = d.known /\ y.held = d.held
        /\ y.layers = rest /\ y.at = "find" /\ y.seen = d.seen
    BY DEF Qgs!Doing
  <2> HIDE DEF y
  <2>3. OnItsWay(y)'
    BY <1>2, <1>3, <2>2 DEF OnItsWay
  <2>4. importing' \in [Request -> Qgs!Doing \cup {None}] /\ Importing'
    BY <2>1, <2>2, <2>3, OneStep
  <2>5. Qgs!TypeOK'
    BY <2>1, <2>4 DEF ProjectInv, Qgs!TypeOK
  <2>6. Completed'
    BY <2>1, StaysRight DEF Completed
  <2> QED
    BY <2>4, <2>5, <2>6 DEF ProjectInv
<1> QED
  BY <1>4, <1>5

\* The import looks for a layer of the slug: it passes over one that is there.
LEMMA FindStep ==
  ASSUME ProjectInv, NEW h \in Request, importing[h] # None, NEW x \in importing[h].layers,
         Qgs!Find(h, x)
  PROVE  ProjectInv'
<1>1. UNCHANGED <<hosted, inFile, scripts, folder, drawer, placed, erased>>
  BY DEF Qgs!Find, Qgs!files
<1>2. Grows
  BY <1>1 DEF Grows, Present
<1>3. /\ placed' \in [Slug -> Qgs!Made \cup {None}] /\ erased' \subseteq Slug
      /\ folder' \subseteq Folder \cup {DefaultGroup} /\ drawer' \subseteq Qgs!Place
      /\ \A p \in drawer' : p[1] \in folder'
  BY <1>1 DEF ProjectInv, Qgs!TypeOK
<1>4. Catalogued'
  BY <1>1, <1>2, StaysRight DEF Catalogued
<1>5. CASE placed[x.slug] # None
  <2>1. Qgs!Advance(h, importing[h].layers \ {x}) /\ placed'[x.slug] # None
    BY <1>1, <1>5 DEF Qgs!Find, Qgs!PassOver
  <2> QED
    BY <1>1, <1>2, <1>3, <1>4, <2>1, AdvanceStep
<1>6. CASE placed[x.slug] = None
  <2>1. PICK d \in Qgs!Doing : importing[h] = d
    BY DoingTyped DEF ProjectInv
  <2> DEFINE y == [d EXCEPT !.at = "insert", !.next = x]
  <2>2. Qgs!Put(h, y) /\ complete' = complete
    BY <1>6, <2>1 DEF Qgs!Find
  <2>3. x \in d.layers /\ x \in Qgs!Leaf
    BY <2>1 DEF Qgs!Doing
  <2>4. /\ y \in Qgs!Doing /\ y.from = d.from /\ y.known = d.known /\ y.held = d.held
        /\ y.layers = d.layers /\ y.next = x /\ y.seen = d.seen
    BY <2>3 DEF Qgs!Doing
  <2>5. OnItsWay(d)'
    BY <1>2, <2>1, StillOnItsWay DEF ProjectInv, Importing
  <2> HIDE DEF y
  <2>6. OnItsWay(y)'
    BY <2>3, <2>4, <2>5 DEF OnItsWay
  <2> QED
    BY <1>1, <1>3, <2>2, <2>4, <2>6, FolderStep
<1> QED
  BY <1>5, <1>6

\* The import makes the layer under the sub-group it has resolved.
LEMMA InsertStep ==
  ASSUME ProjectInv, NEW h \in Request, Qgs!Insert(h)
  PROVE  ProjectInv'
<1>1. PICK d \in Qgs!Doing : importing[h] = d /\ d # None
  BY DoingTyped DEF ProjectInv, Qgs!Insert, Qgs!At
<1>2. PICK x : x = d.next
  OBVIOUS
<1> DEFINE r == [under |-> x.under, project |-> d.from, name |-> x.name,
                 whole |-> d.seen # {}]
<1>3. /\ d.at = "insert" /\ placed[x.slug] = None /\ x.under \in d.known
      /\ placed' = [placed EXCEPT ![x.slug] = r] /\ erased' = erased \ {x.slug}
      /\ Qgs!Advance(h, importing[h].layers \ {x})
      /\ UNCHANGED <<hosted, inFile, scripts, folder, drawer>>
  BY <1>1, <1>2 DEF Qgs!Insert, Qgs!At, Qgs!files
<1>4. OnItsWay(d)
  BY <1>1 DEF ProjectInv, Importing
<1>5. x \in d.layers /\ x \in Qgs!Leaf /\ x.slug \in Slug /\ x.under \in drawer
  BY <1>2, <1>3, <1>4 DEF OnItsWay, Qgs!Doing, Qgs!Leaf
<1>6. /\ r \in Qgs!Made /\ r # None /\ r.under = x.under /\ r.project = d.from
      /\ r.whole <=> d.seen # {}
  <2>1. (d.seen # {}) \in BOOLEAN /\ d.from \in Project /\ x.name \in Slug
        /\ x.under \in Qgs!Place
    BY <1>5 DEF Qgs!Doing, Qgs!Leaf
  <2>2. r \in Qgs!Made
    BY <2>1 DEF Qgs!Made
  <2> QED
    BY <2>2, Untitled
<1> HIDE DEF r
<1>7. /\ placed' \in [Slug -> Qgs!Made \cup {None}] /\ placed'[x.slug] = r
      /\ \A s \in Slug \ {x.slug} : placed'[s] = placed[s]
      /\ erased' \subseteq Slug
  BY <1>3, <1>5, <1>6 DEF ProjectInv, Qgs!TypeOK
<1>8. Grows
  BY <1>3, <1>6, <1>7 DEF Grows, Present
<1>9. d.seen # {} => Leads(d.from, x.slug, x.under)
  BY <1>4, <1>5 DEF OnItsWay
<1>10. Catalogued'
  BY <1>3, <1>5, <1>6, <1>7, <1>9 DEF Catalogued, ProjectInv, Leads
<1> QED
  BY <1>1, <1>3, <1>5, <1>6, <1>7, <1>8, <1>10, AdvanceStep

\* Administrators add rows, change or delete a layer, and scripts write the files.
LEMMA RowsStep ==
  ASSUME ProjectInv,
         \/ \E p \in Project : Qgs!Upload(p)
         \/ \E g \in Folder \cup {DefaultGroup} : Qgs!CreateGroup(g)
         \/ \E q \in Qgs!Place : Qgs!CreateSubGroup(q)
         \/ \E s \in Slug : Qgs!DeleteLayer(s) \/ \E q \in drawer : Qgs!CreateLayer(s, q)
         \/ \E s \in Slug, n \in Slug \cup {None} : Qgs!UpdateLayer(s, n)
         \/ \E x \in scripts : Qgs!RemoveLayer(x) \/ Qgs!RemoveFails(x)
  PROVE  ProjectInv'
<1> USE DEF ProjectInv
<1>1. CASE \E p \in Project : Qgs!Upload(p)
  <2>1. /\ hosted \subseteq hosted' /\ hosted' \subseteq Project
        /\ UNCHANGED <<inFile, scripts, folder, drawer, placed, importing, erased, complete>>
    BY <1>1 DEF Qgs!Upload, Qgs!history, Qgs!TypeOK
  <2>2. Qgs!TypeOK' /\ Grows
    BY <2>1 DEF Qgs!TypeOK, Grows, Present
  <2> QED
    BY <2>1, <2>2, StaysRight, RowStep DEF Catalogued
<1>2. CASE \/ \E g \in Folder \cup {DefaultGroup} : Qgs!CreateGroup(g)
           \/ \E q \in Qgs!Place : Qgs!CreateSubGroup(q)
  <2>1. /\ folder \subseteq folder' /\ folder' \subseteq Folder \cup {DefaultGroup}
        /\ drawer \subseteq drawer' /\ drawer' \subseteq Qgs!Place
        /\ \A p \in drawer' : p[1] \in folder'
        /\ UNCHANGED <<hosted, inFile, scripts, placed, importing, erased, complete>>
    BY <1>2 DEF Qgs!CreateGroup, Qgs!CreateSubGroup, Qgs!files, Qgs!history, Qgs!TypeOK
  <2>2. Qgs!TypeOK' /\ Grows
    BY <2>1 DEF Qgs!TypeOK, Grows, Present
  <2> QED
    BY <2>1, <2>2, StaysRight, RowStep DEF Catalogued
<1>3. ASSUME NEW s \in Slug, Qgs!DeleteLayer(s) PROVE ProjectInv'
  <2>1. /\ placed' \in [Slug -> Qgs!Made \cup {None}] /\ erased' = erased \cup {s}
        /\ placed'[s] = None /\ \A t \in Slug \ {s} : placed'[t] = placed[t]
        /\ scripts' \subseteq Project \X Slug
        /\ UNCHANGED <<hosted, inFile, folder, drawer, importing, complete>>
    BY <1>3 DEF Qgs!DeleteLayer, Qgs!EraseLayers, Qgs!TypeOK
  <2>2. Qgs!TypeOK' /\ Grows
    BY <2>1 DEF Qgs!TypeOK, Grows, Present
  <2>3. Catalogued'
    BY <2>1, <2>2, StaysRight DEF Catalogued, Leads
  <2> QED
    BY <2>1, <2>2, <2>3, RowStep
<1>4. ASSUME NEW s \in Slug, NEW q \in drawer, Qgs!CreateLayer(s, q) PROVE ProjectInv'
  <2> DEFINE r == [under |-> q, project |-> None, name |-> None, whole |-> FALSE]
  <2>1. r \in Qgs!Made /\ r # None /\ r.under = q /\ ~r.whole
    <3>1. q \in Qgs!Place
      BY DEF Qgs!TypeOK
    <3>2. r \in Qgs!Made
      BY <3>1 DEF Qgs!Made
    <3> QED
      BY <3>2, Untitled
  <2>2. /\ placed' = [placed EXCEPT ![s] = r] /\ erased' = erased \ {s}
        /\ UNCHANGED <<hosted, inFile, scripts, folder, drawer, importing, complete>>
    BY <1>4 DEF Qgs!CreateLayer, Qgs!files
  <2> HIDE DEF r
  <2>3. /\ placed' \in [Slug -> Qgs!Made \cup {None}] /\ placed'[s] = r
        /\ \A t \in Slug \ {s} : placed'[t] = placed[t]
    BY <2>1, <2>2 DEF Qgs!TypeOK
  <2>4. Qgs!TypeOK' /\ Grows
    BY <2>1, <2>2, <2>3 DEF Qgs!TypeOK, Grows, Present
  <2>5. Catalogued'
    BY <2>1, <2>2, <2>3, <2>4, StaysRight DEF Catalogued, Leads
  <2> QED
    BY <2>2, <2>4, <2>5, RowStep
<1>5. ASSUME NEW s \in Slug, NEW n \in Slug \cup {None}, Qgs!UpdateLayer(s, n)
      PROVE  ProjectInv'
  <2>1. PICK c \in Qgs!Made : placed[s] = c /\ c # None
    BY <1>5 DEF Qgs!UpdateLayer, Qgs!TypeOK
  <2> DEFINE r == [c EXCEPT !.name = n]
  <2>2. /\ r \in Qgs!Made /\ r # None /\ r.under = c.under /\ r.whole = c.whole
        /\ r.project = c.project
    BY Untitled DEF Qgs!Made
  <2>3. /\ placed' = [placed EXCEPT ![s] = r]
        /\ UNCHANGED <<hosted, inFile, scripts, folder, drawer, importing, erased, complete>>
    BY <1>5, <2>1 DEF Qgs!UpdateLayer, Qgs!files, Qgs!history
  <2> HIDE DEF r
  <2>4. /\ placed' \in [Slug -> Qgs!Made \cup {None}] /\ placed'[s] = r
        /\ \A t \in Slug \ {s} : placed'[t] = placed[t]
    BY <2>2, <2>3 DEF Qgs!TypeOK
  <2>5. Qgs!TypeOK' /\ Grows
    BY <2>2, <2>3, <2>4 DEF Qgs!TypeOK, Grows, Present
  <2>6. Catalogued'
    BY <2>1, <2>2, <2>3, <2>4, <2>5, StaysRight DEF Catalogued, Leads
  <2> QED
    BY <2>3, <2>5, <2>6, RowStep
<1>6. ASSUME NEW x \in scripts, Qgs!RemoveLayer(x) \/ Qgs!RemoveFails(x) PROVE ProjectInv'
  <2>1. /\ scripts' \subseteq scripts /\ inFile' \in [Project -> SUBSET Nat]
        /\ \A p \in Project : inFile'[p] \subseteq inFile[p]
        /\ UNCHANGED <<hosted, folder, drawer, placed, importing, erased, complete>>
    <3>1. x[1] \in Project
      BY DEF Qgs!TypeOK
    <3> QED
      BY <1>6, <3>1 DEF Qgs!RemoveLayer, Qgs!RemoveFails, Qgs!history, Qgs!TypeOK
  <2>2. Qgs!TypeOK' /\ Grows
    BY <2>1 DEF Qgs!TypeOK, Grows, Present
  <2> QED
    BY <2>1, <2>2, StaysRight, RowStep DEF Catalogued
<1> QED
  BY <1>1, <1>2, <1>3, <1>4, <1>5, <1>6

\* Sub-groups go, with their layers and with the ids that name them.
LEMMA EraseStep ==
  ASSUME ProjectInv,
         \/ \E q \in Qgs!Place : Qgs!DeleteSubGroup(q)
         \/ \E g \in Folder \cup {DefaultGroup} : Qgs!DeleteGroup(g)
  PROVE  ProjectInv'
<1> USE DEF ProjectInv
<1> DEFINE Without(Q, G) ==
      /\ drawer' = drawer \ Q /\ folder' = folder \ G /\ \A p \in drawer' : p[1] \in folder'
      /\ placed' = [s \in Slug |-> IF placed[s] # None /\ placed[s].under \in Q THEN None
                                   ELSE placed[s]]
      /\ erased' = erased \cup {s \in Slug : placed[s] # None /\ placed[s].under \in Q}
      /\ importing' = [h \in Request |-> IF importing[h] = None THEN None
           ELSE [importing[h] EXCEPT !.known = @ \ Q, !.held = IF @ \in G THEN None ELSE @]]
      /\ UNCHANGED <<hosted, inFile, scripts, complete>>
<1>0. ASSUME NEW h \in Request, importing[h] # None
      PROVE  importing[h] = [importing[h] EXCEPT !.held = @]
  BY <1>0, DoingTyped DEF Qgs!Doing
<1>1. PICK Q \in SUBSET Qgs!Place, G \in SUBSET (Folder \cup {DefaultGroup}) : Without(Q, G)
  <2>1. ASSUME NEW q \in Qgs!Place, Qgs!DeleteSubGroup(q) PROVE Without({q}, {})
    BY <1>0, <2>1 DEF Qgs!DeleteSubGroup, Qgs!EraseSubGroups, Qgs!EraseLayers, Qgs!files,
         Qgs!TypeOK
  <2>2. ASSUME NEW g \in Folder \cup {DefaultGroup}, Qgs!DeleteGroup(g)
        PROVE  Without({q \in Qgs!Place : q[1] = g}, {g})
    <3> DEFINE Q == {q \in Qgs!Place : q[1] = g}
    <3>1. /\ folder' = folder \ {g} /\ drawer' = drawer \ Q
          /\ UNCHANGED <<hosted, inFile, scripts, complete>>
          /\ \A p \in drawer' : p[1] \in folder'
      BY <2>2 DEF Qgs!DeleteGroup, Qgs!EraseSubGroups, Qgs!files, Qgs!TypeOK
    <3>2. \A s \in Slug : placed[s] # None =>
            (placed[s].under \in Q \cap drawer <=> placed[s].under \in Q)
      BY DEF Catalogued
    <3> DEFINE E == {s \in Slug : placed[s] # None /\ placed[s].under \in Q \cap drawer}
               F == {s \in Slug : placed[s] # None /\ placed[s].under \in Q}
    <3>3. /\ placed' = [s \in Slug |-> IF s \in E THEN None ELSE placed[s]]
          /\ erased' = erased \cup E
      BY <2>2 DEF Qgs!DeleteGroup, Qgs!EraseSubGroups, Qgs!EraseLayers
    <3>4. E = F
      <4> HIDE DEF Q
      <4> QED
        BY <3>2
    <3>5. /\ placed' = [s \in Slug |-> IF placed[s] # None /\ placed[s].under \in Q THEN None
                                       ELSE placed[s]]
          /\ erased' = erased \cup F
      <4> HIDE DEF Q, E
      <4> QED
        BY <3>3, <3>4
    <3>6. importing' = [h \in Request |-> IF importing[h] = None THEN None
             ELSE [importing[h] EXCEPT !.known = @ \ Q, !.held = IF @ \in {g} THEN None ELSE @]]
      <4>1. importing' = [h \in Request |-> IF importing[h] = None THEN None
               ELSE [importing[h] EXCEPT !.known = @ \ Q, !.held = IF @ = g THEN None ELSE @]]
        BY <2>2 DEF Qgs!DeleteGroup
      <4> HIDE DEF Q
      <4> QED
        BY <4>1
    <3> HIDE DEF Q
    <3> QED
      BY <3>1, <3>5, <3>6 DEF Q
  <2> HIDE DEF Without
  <2> QED
    BY <2>1, <2>2
<1>2. ASSUME NEW h \in Request, NEW d \in Qgs!Doing, importing'[h] = d
      PROVE  OnItsWay(d)'
  <2>1. PICK c : c = importing[h]
    OBVIOUS
  <2>2. c \in Qgs!Doing /\ OnItsWay(c)
    BY <1>1, <1>2, <2>1, DoingTyped, Untitled DEF Importing
  <2>3. d = [c EXCEPT !.known = @ \ Q, !.held = IF @ \in G THEN None ELSE @]
    BY <1>1, <1>2, <2>1, <2>2, Untitled
  <2>4. /\ d.known = c.known \ Q /\ d.held = (IF c.held \in G THEN None ELSE c.held)
        /\ d.at = c.at /\ d.from = c.from /\ d.layers = c.layers /\ d.next = c.next
        /\ d.seen = c.seen
    BY <2>2, <2>3 DEF Qgs!Doing
  <2>5. \A s \in Slug : Present(s) => Present(s)'
    BY <1>1 DEF Present
  <2>6. c.from \in Project /\ Covers(c.from, c.seen, c.layers)'
    BY <2>2, <2>5, StillCovers DEF OnItsWay, Qgs!Doing
  <2> QED
    BY <1>1, <2>2, <2>4, <2>6 DEF OnItsWay, Leads
<1>3. Qgs!TypeOK'
  <2>1. importing' \in [Request -> Qgs!Doing \cup {None}]
    <3> SUFFICES ASSUME NEW h \in Request, importing[h] # None
                 PROVE  [importing[h] EXCEPT !.known = @ \ Q,
                                  !.held = IF @ \in G THEN None ELSE @] \in Qgs!Doing
      BY <1>1
    <3> QED
      BY DoingTyped DEF Qgs!Doing
  <2> QED
    BY <1>1, <2>1 DEF Qgs!TypeOK
<1>4. Catalogued'
  BY <1>1 DEF Catalogued, Leads
<1>5. Completed'
  <2>1. \A s \in Slug : Present(s) => Present(s)'
    BY <1>1 DEF Present
  <2> QED
    BY <1>1, <2>1 DEF Completed, Qgs!TypeOK
<1> QED
  BY <1>2, <1>3, <1>4, <1>5 DEF Importing

\* There is no project at first.
LEMMA ProjectStart ==
  Qgs!Init => ProjectInv
<1>1. \A p \in Project : DOMAIN Tree[p] \subseteq Nat
  BY LeafTyped
<1> QED
  BY <1>1, Untitled DEF Qgs!Init, ProjectInv, Qgs!TypeOK, Importing, Catalogued, Completed

\* Every step of an import, and of what else changes the catalogue, keeps the invariant.
LEMMA ProjectStep ==
  ASSUME ProjectInv, Qgs!Next
  PROVE  ProjectInv'
<1>1. ASSUME NEW h \in Request, NEW q \in Qgs!Place,
             \/ Qgs!FindGroup(h, q) \/ Qgs!MakeGroup(h, q) \/ Qgs!FindSub(h, q)
             \/ Qgs!MakeSub(h, q)
      PROVE  ProjectInv'
  <2>1. importing[h] # None
    BY <1>1 DEF Qgs!FindGroup, Qgs!MakeGroup, Qgs!FindSub, Qgs!MakeSub, Qgs!At
  <2> QED
    BY <1>1, <2>1, Resolving
<1> QED
  BY <1>1, ImportBegins, FindStep, InsertStep, RowsStep, EraseStep DEF Qgs!Next

\* While another service moves, nothing of the projects changes.
LEMMA ProjectWaits ==
  ProjectInv /\ UNCHANGED projects => ProjectInv'
<1> SUFFICES ASSUME ProjectInv, UNCHANGED projects PROVE ProjectInv'
  OBVIOUS
<1>1. UNCHANGED <<hosted, inFile, folder, drawer, placed, importing, scripts, erased, complete>>
  BY DEF projects
<1>2. Qgs!TypeOK' /\ Grows
  BY <1>1 DEF ProjectInv, Qgs!TypeOK, Grows, Present
<1> QED
  BY <1>1, <1>2, StaysRight, RowStep DEF Catalogued

\* While the projects move, their invariant holds.
LEMMA ProjectsAlways == Spec => [](part = "projects" => ProjectInv)
<1> DEFINE I == part = "projects" => ProjectInv
<1>1. Init => I
  BY ProjectStart DEF Init
<1>2. I /\ [Next]_vars => I'
  BY ProjectStep, ProjectWaits DEF Next, Only, vars
<1> QED
  BY <1>1, <1>2, PTL DEF Spec

\* After auto-import-qgis-project has come to its end every layer it read has its slug in the
\* catalogue, and what it made stands where the folders of the project say.
THEOREM AsDrawn == Spec => []ImportedAsDrawn
<1>1. ASSUME ProjectInv PROVE Qgs!ImportedAsDrawn
  BY <1>1 DEF ProjectInv, Catalogued, Completed, Present, Leads, Qgs!ImportedAsDrawn
<1>2. (part = "projects" => ProjectInv) => ImportedAsDrawn
  BY <1>1 DEF ImportedAsDrawn
<1> QED
  BY <1>2, ProjectsAlways, PTL
===============================================================================
