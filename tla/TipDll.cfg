SPECIFICATION TipSpec
CONSTANTS
  Categories <- MCCategories
  MaxFailures = 2
  Thread = {t1, t2}
  MaxFactories = 2
  MaxUses = 3
  MaxRefs = 2
SYMMETRY Alike
CHECK_DEADLOCK FALSE
INVARIANTS
  AnswersTrue
  AnnouncedIsLoadable
  OneFactory
  FactoryKept
