\* The page is rendered once; after the render nothing more happens.
CONSTANTS
  tFast = tFast
  tAccurate = tAccurate
  tModular = tModular
  svgRocket = svgRocket
  svgAim = svgAim
  svgModular = svgModular
  dFast = dFast
  dAccurate = dAccurate
  dModular = dModular
  NoKey = NoKey
  SiteTitle = SiteTitle
  Tagline = Tagline
  Subtitle = Subtitle
  Logo = Logo
  Citation = Citation
  Features <- MC_Features
  MaxFeatures = 4
SPECIFICATION Spec
CHECK_DEADLOCK FALSE
INVARIANTS
  TypeOK
  FeaturesRenderedInOrder
