SPECIFICATION Spec
CONSTANT Responses <- MCResponses
INVARIANT PcbDiscipline OwedOp
PROPERTY NoUnaskedResult KeepsContract
