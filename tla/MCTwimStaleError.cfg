\* No forgotten futures: a single NACK is enough.
CONSTANT Forgettable = FALSE
SPECIFICATION Spec
PROPERTY ResultIsOwn
