SPECIFICATION Spec
CONSTANT SizeofPtr = 32
INVARIANTS DefectsCaught GlobalsConfined
