\* Comprobantes of every type with up to two IVA lines.
SPECIFICATION Spec
CONSTANTS
  Periodos <- MCPeriodos
  Bases = {190, 1270}
  Extras = {0, 70}
  MaxLines = 2
  Noises <- MCNoises
  Mistakes <- MCMistakes
CHECK_DEADLOCK FALSE
INVARIANTS DatesAreDays NoiseTolerated MistakesCaught IvaShortfallBounded CreditNotesComplete DebitNotesComplete
PROPERTIES NotesMatchInvoices
