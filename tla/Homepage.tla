------------------------------ MODULE Homepage ------------------------------
(***************************************************************************)
(* The project website's landing page (src/pages/index.js and             *)
(* src/components/HomepageFeatures/index.js) as a pure render function     *)
(* from the feature list to an element tree.  An element is a record       *)
(* [type, cls, key, href, children]; inline styles are layout and left     *)
(* out, texts and images are model values.  The render is checked over    *)
(* every feature list up to a bound, the code's three-entry FeatureList    *)
(* among them.                                                             *)
(***************************************************************************)
EXTENDS Naturals, Sequences, SequencesExt

CONSTANTS
  Features,     \* feature records [title, Svg, description]
  MaxFeatures,  \* bound on the length of the feature list
  NoKey,        \* an element without a React key
  SiteTitle, Tagline, Subtitle, Logo, Citation  \* texts and images

ASSUME MaxFeatures \in Nat

El(type, cls, key, href, children) ==
  [type |-> type, cls |-> cls, key |-> key, href |-> href,
   text |-> "", children |-> children]
Div(cls, children) == El("div", cls, NoKey, "", children)
Tag(type, children) == El(type, "", NoKey, "", children)
Text(v) == [El("#text", "", NoKey, "", << >>) EXCEPT !.text = v]

VARIABLES
  FeatureList,  \* the list the page is rendered from
  page          \* the rendered tree, << >> before the render

vars == <<FeatureList, page>>

\* function Feature({Svg, title, description}), rendered with a key.
Feature(props, key) ==
  El("div", "col col--4", key, "",
     << Div("text--center", << El(props.Svg, "featureSvg", NoKey, "", << >>) >>),
        Div("text--center padding-horiz--md",
            << Tag("h3", << Text(props.title) >>),
               Tag("p", << Text(props.description) >>) >>) >>)

\* The features section around the mapped features: the row of features,
\* the Get Started link and the citation block.
FeaturesSection(items) ==
  El("section", "features", NoKey, "",
     << Div("container-fluid",
            << Div("row", items),
               Div("", << El("a", "myButton", NoKey, "/docs/intro", << Text("Get Started") >>) >>),
               Div("row", << Div("", << Tag("h2", << Text("Citation") >>),
                                       Div("row", << Div("", << Tag("pre",
                                           << Tag("code", << Text(Citation) >>) >>) >>) >>) >>) >>) >>) >>)

\* Bug variant: the map starts at the second entry of the list.
HomepageFeatures_SkipFirst(list) ==
  FeaturesSection([i \in 1 .. Len(list) - 1 |-> Feature(list[i + 1], i)])

\* HomepageFeatures(): FeatureList.map((props, idx) => <Feature key={idx} />).
HomepageFeatures(list) ==
  FeaturesSection([i \in 1 .. Len(list) |-> Feature(list[i], i - 1)])

\* HomepageHeader(): title, tagline, subtitle and logo.
HomepageHeader ==
  El("header", "hero hero--primary", NoKey, "",
     << Div("container",
            << Div("hero-content-container",
                   << Div("hero-text-area",
                          << El("h1", "hero__title", NoKey, "", << Text(SiteTitle) >>),
                             Tag("p", << Text(Tagline) >>),
                             Tag("p", << Text(Subtitle) >>) >>),
                      Div("hero-image-area", << Tag("img", << Text(Logo) >>) >>) >>) >>) >>)

\* Bug variant: the page is returned without its Layout wrapper.
Home_NoLayout(list) ==
  Tag("main", << HomepageHeader, HomepageFeatures(list) >>)

\* Home(): the Layout with the header and the features in <main>.
Home(list) ==
  El("Layout", "", NoKey, "",
     << HomepageHeader, Tag("main", << HomepageFeatures(list) >>) >>)

Init ==
  /\ FeatureList \in BoundedSeq(Features, MaxFeatures)
  /\ page = << >>

\* Docusaurus renders the page.
Render ==
  /\ page = << >>
  /\ page' = Home(FeatureList)
  /\ UNCHANGED FeatureList

Next == Render

Spec == Init /\ [][Next]_vars

-----------------------------------------------------------------------------
(* Properties                                                              *)

\* All elements of a tree, in document order.
RECURSIVE Elements(_)
Elements(t) ==
  << t >> \o FoldLeft(LAMBDA acc, c : acc \o Elements(c), << >>, t.children)

TypeOK ==
  /\ FeatureList \in Seq(Features)
  /\ page = << >> \/ page.type = "Layout"

\* The rendered page shows each feature's title as an h3, in list order,
\* once: what FeatureList.map and Feature must produce.
FeaturesRenderedInOrder ==
  page # << >> =>
    LET h3s == SelectSeq(Elements(page), LAMBDA e : e.type = "h3")
    IN  h3s = [i \in 1 .. Len(FeatureList) |-> Tag("h3", << Text(FeatureList[i].title) >>)]

=============================================================================
