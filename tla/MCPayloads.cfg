SPECIFICATION Spec
CONSTANTS
  FilterSamples <- Filters
  AnswerSamples <- Answers
  RaisedTo <- Raised
  Damageable = 400
INVARIANTS
  FiltersArrive
  AnswersArrive
  DamageRefused
